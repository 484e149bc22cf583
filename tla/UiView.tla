------------------------------- MODULE UiView -------------------------------
(***************************************************************************)
(* The screen of the UI front end (public/app of mylife-home-ui): the      *)
(* stack of windows it shows (a root and popups), the location hash that   *)
(* drives the root, the controls that are mounted, and the presses of the  *)
(* user on them, which become actions 300 ms after the last one.           *)
(*                                                                         *)
(* The hash is written at once but read later: a write that changes it     *)
(* queues a hashchange event, whose handler reads the hash of that moment. *)
(* Each window has one control (the set of controls of a window is walked  *)
(* the same way whatever its size).  The model of the server is closed: it *)
(* was validated before it was deployed (UiDesigner), so its actions and   *)
(* its default window name windows of the same model.                      *)
(***************************************************************************)
EXTENDS Naturals, Sequences, SequencesExt, FiniteSets, TLC

CONSTANTS
  Models,       \* the models the server may give: records [windows, default]
  Hashes,       \* what the user may type in the location bar
  States,       \* values of the component state the controls display
  MaxModels,    \* bound: models received
  MaxHash,      \* bound: addresses typed
  MaxPresses,   \* bound: presses of the user
  MaxDepth,     \* bound: windows on the stack
  MaxDrops,     \* bound: losses of the socket
  MaxChanges    \* bound: changes of the component state

VARIABLES
  model,        \* state.model
  view,         \* state.view: the root, then the popups
  registry,     \* state.registry of the displayed component; "none": absent
  online,       \* state.online
  hash,         \* window.location.hash without '#'
  events,       \* hashchange events (and the first timeout) not yet handled
  mounted,      \* the windows on the screen, with the input manager of their control
  orphans,      \* input managers of unmounted controls whose timer still runs
  broken,       \* a render threw
  dropped,      \* a model without a window of the view was received
  threw,        \* an action whose control is gone threw
  late,         \* an action of a control that was no longer on the screen was executed
  models, typed, presses, drops, changes,    \* what happened, against the bounds
  executed      \* presses that ended in executeEvents

vars == <<model, view, registry, online, hash, events, mounted, orphans, broken, dropped, threw,
          late, models, typed, presses, drops, changes, executed>>

Nowhere == "undefined"
DefaultModel == [windows |-> <<>>, default |-> Nowhere]

hasWindows(m) == DOMAIN m.windows # {}
hasWindow(m, w) == w \in DOMAIN m.windows
getWindowControl(m, w) == m.windows[w]

(* The first item of the map for the value, else the default resource; no  *)
(* display, no resource.                                                   *)
findDisplayItem(map, value) == SelectInSeq(map, LAMBDA item : item.value = value)
displayResource(control, value) ==
  LET item == findDisplayItem(control.map, value) IN
  IF ~control.display THEN "none"
  ELSE IF value = "none" \/ item = 0 THEN control.defaultResource
  ELSE control.map[item].resource

(* What is on the screen: the offline and the loading pages show no window. *)
AppContent(v, m, on) == IF on /\ v # <<>> /\ hasWindows(m) THEN v ELSE <<>>

newInputManager == [stack |-> <<>>, armed |-> FALSE, down |-> FALSE]

(* The control of a window keeps its input manager as long as the window   *)
(* and the control at this place of the stack are the same.                *)
Kept(ms, m, shown, i) ==
  /\ i \in DOMAIN ms /\ i \in DOMAIN shown
  /\ ms[i].window = shown[i]
  /\ ms[i].id = getWindowControl(m, shown[i]).id
WindowContent(ms, m, value, shown, i) ==
  LET control == getWindowControl(m, shown[i]) IN
  [window |-> shown[i], id |-> control.id, resource |-> displayResource(control, value),
   input |-> IF Kept(ms, m, shown, i) THEN ms[i].input ELSE newInputManager]

(* A manager that is thrown away keeps its timer.                          *)
Orphaned(ms, m, shown) ==
  LET Armed(i) == ms[i].input.armed /\ ~Kept(ms, m, shown, i)
      gone == SelectSeq([i \in DOMAIN ms |-> i], Armed)
  IN [k \in DOMAIN gone |-> [window |-> ms[gone[k]].window, id |-> ms[gone[k]].id, stack |-> ms[gone[k]].input.stack]]

(* The render that follows a change of the store; ms: the managers by now, *)
(* os: the orphans.  A window the model does not have makes WindowContent  *)
(* throw.                                                                  *)
Render(ms, os) ==
  LET shown == AppContent(view', model', online') IN
  IF \E i \in DOMAIN shown : ~hasWindow(model', shown[i])
  THEN broken' = TRUE /\ mounted' = ms /\ orphans' = os
  ELSE /\ mounted' = [i \in DOMAIN shown |-> WindowContent(ms, model', registry', shown, i)]
       /\ orphans' = os \o Orphaned(ms, model', shown)
       /\ UNCHANGED broken

(* window.location.hash = w: an event only when the hash changes.          *)
navigate(w) ==
  /\ hash' = w
  /\ events' = IF w = hash THEN events ELSE events + 1

navigateToDefault(m) == navigate(m.default)

(* onHashChanged, on a hashchange event and once after the start.          *)
onHashChanged ==
  /\ ~broken /\ events > 0
  /\ IF hash # "" /\ hasWindow(model, hash)
     THEN /\ view' = <<hash>>
          /\ events' = events - 1
          /\ UNCHANGED hash
     ELSE /\ hash' = IF hash = "" THEN "" ELSE model.default
          /\ events' = IF hash' = hash THEN events - 1 ELSE events
          /\ UNCHANGED view
  /\ UNCHANGED <<model, registry, online, dropped, threw, late, models, typed, presses, drops, changes, executed>>
  /\ Render(mounted, orphans)

(* The user types an address, follows a bookmark or goes back.             *)
TypeHash(w) ==
  /\ ~broken /\ typed < MaxHash /\ w # hash
  /\ typed' = typed + 1
  /\ navigate(w)
  /\ UNCHANGED <<model, view, registry, online, mounted, orphans, broken, dropped, threw, late,
                 models, presses, drops, changes, executed>>

(* modelInit: the content of the model arrives, modelSet then viewInit.    *)
viewInit(m) ==
  IF view = <<>> \/ ~hasWindow(m, view[1])
  THEN navigateToDefault(m)
  ELSE UNCHANGED <<hash, events>>
modelInit(m) ==
  /\ ~broken /\ models < MaxModels /\ m # model
  /\ models' = models + 1
  /\ model' = m
  /\ dropped' = (dropped \/ \E i \in DOMAIN view : ~hasWindow(m, view[i]))
  /\ viewInit(m)
  /\ UNCHANGED <<view, registry, online, threw, late, typed, presses, drops, changes, executed>>
  /\ Render(mounted, orphans)

(* The click on the overlay of a popup; the root cannot be closed.         *)
viewClose ==
  /\ ~broken /\ Len(mounted) > 1
  /\ view' = Front(view)
  /\ UNCHANGED <<model, registry, online, hash, events, dropped, threw, late, models, typed,
                 presses, drops, changes, executed>>
  /\ Render(mounted, orphans)

(* dispatchAction: a popup, another root, an action of a component (sent   *)
(* to the server), or nothing.                                             *)
dispatchAction(action) ==
  CASE action.op = "popup" /\ Len(view) < MaxDepth ->
         view' = Append(view, action.window) /\ UNCHANGED <<hash, events>>
    [] action.op = "change" -> navigate(action.window) /\ UNCHANGED view
    [] OTHER -> UNCHANGED <<view, hash, events>>

(* executeEvents: a short press is the primary action, a long one or two   *)
(* short ones the secondary one, any other stack nothing.  The control is  *)
(* looked up by its window and its id, in the model of now; one that is    *)
(* not there any more makes the action throw.                              *)
Configured == {<<"s">>, <<"l">>, <<"s", "s">>}
hasControl(m, w, id) == hasWindow(m, w) /\ getWindowControl(m, w).id = id
Throws(w, id, stack) == stack \in Configured /\ ~hasControl(model, w, id)
executeEvents(w, id, stack) ==
  IF stack \in Configured /\ hasControl(model, w, id)
  THEN LET control == getWindowControl(model, w)
       IN dispatchAction(IF stack = <<"s">> THEN control.primary ELSE control.secondary)
  ELSE UNCHANGED <<view, hash, events>>

SetInput(i, input) == [mounted EXCEPT ![i].input = input]

(* down: no end of input for now.                                          *)
downKeepsTimer(input) == [input EXCEPT !.down = TRUE]
down(input) == [input EXCEPT !.armed = FALSE, !.down = TRUE]

(* up: one more press, short or long, and 300 ms to wait; without a down   *)
(* (the pointer came from elsewhere) the presses are forgotten.            *)
up(input, press) ==
  IF input.down THEN [stack |-> Append(input.stack, press), armed |-> TRUE, down |-> FALSE]
  ELSE newInputManager

(* The pointer reaches the control of the window on top.                   *)
Down ==
  /\ ~broken /\ mounted # <<>> /\ presses < MaxPresses
  /\ mounted' = SetInput(Len(mounted), down(mounted[Len(mounted)].input))
  /\ UNCHANGED <<model, view, registry, online, hash, events, orphans, broken, dropped, threw, late,
                 models, typed, presses, drops, changes, executed>>

(* A mouse is released on the window on top, a finger on the control it    *)
(* touched first, covered or not.                                          *)
Up(i, press) ==
  /\ ~broken /\ i \in DOMAIN mounted /\ presses < MaxPresses
  /\ i = Len(mounted) \/ mounted[i].input.down
  /\ mounted' = SetInput(i, up(mounted[i].input, press))
  /\ presses' = IF mounted[i].input.down THEN presses + 1 ELSE presses
  /\ UNCHANGED <<model, view, registry, online, hash, events, orphans, broken, dropped, threw, late,
                 models, typed, drops, changes, executed>>

(* The end of the wait of a mounted control: the events, then the reset.   *)
endWait(i) ==
  /\ ~broken /\ i \in DOMAIN mounted /\ mounted[i].input.armed
  /\ LET ended == mounted[i] IN
     /\ executeEvents(ended.window, ended.id, ended.input.stack)
     /\ threw' = (threw \/ Throws(ended.window, ended.id, ended.input.stack))
     /\ executed' = executed + Len(ended.input.stack)
     /\ UNCHANGED <<model, registry, online, dropped, late, models, typed, presses, drops, changes>>
     /\ Render(SetInput(i, newInputManager), orphans)

(* The same when the control has left the screen meanwhile.                *)
endWaitLate(k) ==
  /\ ~broken /\ k \in DOMAIN orphans
  /\ LET ended == orphans[k] IN
     /\ executeEvents(ended.window, ended.id, ended.stack)
     /\ late' = late \cup {IF Throws(ended.window, ended.id, ended.stack) THEN "threw" ELSE "executed"}
     /\ executed' = executed + Len(ended.stack)
     /\ UNCHANGED <<model, registry, online, dropped, threw, models, typed, presses, drops, changes>>
     /\ Render(mounted, RemoveAt(orphans, k))

(* The socket opens or closes.                                             *)
onlineSet(on) ==
  /\ ~broken /\ online # on
  /\ on \/ drops < MaxDrops
  /\ online' = on
  /\ drops' = IF on THEN drops ELSE drops + 1
  /\ UNCHANGED <<model, view, registry, hash, events, dropped, threw, late, models, typed, presses,
                 changes, executed>>
  /\ Render(mounted, orphans)

(* The component is added, changes or is removed.                          *)
registryChange(value) ==
  /\ ~broken /\ online /\ registry # value /\ changes < MaxChanges
  /\ registry' = value
  /\ changes' = changes + 1
  /\ UNCHANGED <<model, view, online, hash, events, dropped, threw, late, models, typed, presses,
                 drops, executed>>
  /\ Render(mounted, orphans)

Init ==
  /\ model = DefaultModel /\ view = <<>> /\ registry = "none" /\ online = FALSE
  /\ hash \in Hashes /\ events = 1
  /\ mounted = <<>> /\ orphans = <<>>
  /\ broken = FALSE /\ dropped = FALSE /\ threw = FALSE /\ late = {}
  /\ models = 0 /\ typed = 0 /\ presses = 0 /\ drops = 0 /\ changes = 0 /\ executed = 0

Next ==
  \/ onHashChanged
  \/ \E w \in Hashes : TypeHash(w)
  \/ \E m \in Models : modelInit(m)
  \/ viewClose
  \/ Down
  \/ \E i \in DOMAIN mounted, press \in {"s", "l"} : Up(i, press)
  \/ \E i \in DOMAIN mounted : endWait(i)
  \/ \E k \in DOMAIN orphans : endWaitLate(k)
  \/ \E on \in BOOLEAN : onlineSet(on)
  \/ \E value \in States \cup {"none"} : registryChange(value)

Spec == Init /\ [][Next]_vars

(***************************************************************************)
(* Properties                                                              *)
(***************************************************************************)
TypeOK ==
  /\ model \in Models \cup {DefaultModel}
  /\ Len(view) <= MaxDepth
  /\ registry \in States \cup {"none"} /\ online \in BOOLEAN
  /\ events \in Nat /\ executed \in Nat /\ late \subseteq {"threw", "executed"}

(* Once a model is loaded and the changes of the hash are handled, the     *)
(* root of the view is the window of the address bar and a window of the   *)
(* model: viewInit and the hash handler never rely on a hashchange event   *)
(* that does not come.  An emptied address is the exception: the handler   *)
(* ignores it, and the root stays what it was.                             *)
RootShown ==
  model # DefaultModel /\ events = 0 /\ hash # "" /\ ~broken =>
    view # <<>> /\ view[1] = hash /\ hasWindow(model, hash)

(* Navigation, popups and late timers never show a window the model does   *)
(* not have: only a new model that drops a window of the view can make the *)
(* render throw.                                                           *)
NoUnknownWindow ==
  ~dropped => ~broken /\ \A i \in DOMAIN view : hasWindow(model, view[i])

(* A press waits for its end with a timer or with a new press under way,   *)
(* never both; no press is executed twice, and the action of a control on  *)
(* the screen always finds its control.                                    *)
Pending(s) == FoldSeq(LAMBDA e, n : n + Len(e.stack), 0, s)
InputSettled ==
  /\ \A i \in DOMAIN mounted :
       LET input == mounted[i].input IN
       /\ input.armed => input.stack # <<>> /\ ~input.down
       /\ input.stack # <<>> => input.armed \/ input.down
  /\ executed + Pending(orphans) + Pending([i \in DOMAIN mounted |-> mounted[i].input]) <= presses
  /\ ~threw

(* What is on the screen is the view, with the controls of the model of    *)
(* now and the resources of the component state of now.                    *)
ScreenCurrent ==
  ~broken =>
    /\ [i \in DOMAIN mounted |-> mounted[i].window] = AppContent(view, model, online)
    /\ \A i \in DOMAIN mounted :
         LET control == getWindowControl(model, mounted[i].window) IN
         /\ mounted[i].id = control.id
         /\ mounted[i].resource = displayResource(control, registry)
====
