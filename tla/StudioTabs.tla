----------------------------- MODULE StudioTabs -----------------------------
(***************************************************************************)
(* The tabs of the studio front end (store/tabs) and the way of an edit    *)
(* from a designer tab to the server: the actions of a tab go through      *)
(* debounceTimeKey, which holds an edit back for 3 s while edits with the  *)
(* same key are merged into it, and lets the others go with setTimeout 0   *)
(* (rx-operators.ts, debounceManager of designer-epics.ts).  Closing a tab *)
(* is such an action.  The updates the server sends are held back for      *)
(* 100 ms; the name of a project is the title of its tab.                  *)
(***************************************************************************)
EXTENDS Naturals, Sequences, SequencesExt, FiniteSets, TLC

CONSTANTS
  Keys,        \* the debounce keys of the edits
  NoKey,       \* the key of an edit that is not debounced
  MaxTabs,     \* bound: tabs opened
  MaxActions   \* bound: tabs opened, moved or activated, names received, and edits

VARIABLES
  byId,        \* tabs.byId: tab -> [title, active, index]
  allIds,      \* tabs.allIds
  activeId,    \* tabs.activeId; 0: none
  idCounter,   \* idCounter of the action creators
  opened,      \* openedProjects: tabs whose project is opened
  pending,     \* the held edit of each tab: tab -> [key, edits], edits = <<>>: none
  timeouts,    \* the setTimeout 0 that have not fired: sequence of [tab, edits]
  sent,        \* the calls made: sequence of [tab, edits]; edits = <<>>: close
  made,        \* the edits of each tab, in the order of the user: tab -> sequence of [key, edit]
  edits, actions,
  missing,     \* a call did not find the opened project of its tab
  renames,     \* bufferedValues of fetchEpic: the tabs whose project got a name
  ended        \* an action of the epics threw, which ends the subscription to all of them

vars == <<byId, allIds, activeId, idCounter, opened, pending, timeouts, sent, made, edits, actions, missing,
          renames, ended>>

Tabs == 1 .. MaxTabs
Nothing == [key |-> NoKey, edits |-> <<>>]
CloseCall == <<>>

(* splice(index, 1) and splice(index, 0, id), with the indexes of the code, *)
(* which start at 0.                                                       *)
Cut(s, index) == SubSeq(s, 1, index) \o SubSeq(s, index + 2, Len(s))
Put(s, index, id) == SubSeq(s, 1, index) \o <<id>> \o SubSeq(s, index + 1, Len(s))

activate(tabs, active, id) ==
  [t \in DOMAIN tabs |->
     IF t = id THEN [tabs[t] EXCEPT !.active = TRUE]
     ELSE IF t = active THEN [tabs[t] EXCEPT !.active = FALSE]
     ELSE tabs[t]]
reindex(tabs, ids) == [t \in DOMAIN tabs |-> [tabs[t] EXCEPT !.index = CHOOSE i \in 0 .. Len(ids) - 1 : ids[i + 1] = t]]

(* NEW: last in the list, and active; openProject.                         *)
newTab ==
  /\ idCounter < MaxTabs /\ actions < MaxActions
  /\ actions' = actions + 1
  /\ idCounter' = idCounter + 1
  /\ LET id == idCounter + 1
         tab == [title |-> "old", active |-> FALSE, index |-> Len(allIds)]
     IN /\ allIds' = Append(allIds, id)
        /\ byId' = activate((id :> tab) @@ byId, activeId, id)
        /\ activeId' = id
        /\ opened' = opened \cup {id}
  /\ UNCHANGED <<pending, timeouts, sent, made, edits, missing, renames, ended>>

(* A call of a tab needs its opened project.                               *)
Call(tab, es) == [tab |-> tab, edits |-> es]
Checked(calls) == missing' = (missing \/ \E k \in DOMAIN calls : calls[k].tab \notin opened)

(* debouncedNext: the held edit leaves.                                    *)
debouncedNext(tab) == IF pending[tab].edits = <<>> THEN <<>> ELSE <<Call(tab, pending[tab].edits)>>

(* _next: an edit with another key first makes the held one leave.  Nothing *)
(* listens any more when the epics have ended.                             *)
FlushedNot(tab, key) == <<>>
Flushed(tab, key) == IF pending[tab].key # key THEN debouncedNext(tab) ELSE <<>>
next(tab, key, es) ==
  \/ ended /\ UNCHANGED <<sent, missing, timeouts, pending>>
  \/ /\ ~ended
     /\ sent' = sent \o Flushed(tab, key)
     /\ Checked(Flushed(tab, key))
     /\ IF key = NoKey
        THEN /\ timeouts' = Append(timeouts, Call(tab, es))
             /\ pending' = [pending EXCEPT ![tab] = IF Flushed(tab, key) # <<>> THEN Nothing ELSE @]
        ELSE /\ pending' = [pending EXCEPT ![tab] =
                  [key |-> key, edits |-> (IF @.key = key THEN @.edits ELSE <<>>) \o es]]
             /\ UNCHANGED timeouts

(* CLOSE: the reducer, then closeProjectEpic by way of the debounce.       *)
closeTab(id) ==
  /\ id \in DOMAIN byId
  /\ LET tab == byId[id]
         ids == Cut(allIds, tab.index)
         others == reindex([t \in DOMAIN byId \ {id} |-> byId[t]], ids)
         last == Len(ids) - 1
         chosen == ids[(IF tab.index < last THEN tab.index ELSE last) + 1]
     IN /\ allIds' = ids
        /\ IF activeId # id
           THEN byId' = others /\ UNCHANGED activeId
           ELSE IF ids = <<>>
           THEN byId' = others /\ activeId' = 0
           ELSE byId' = activate(others, 0, chosen) /\ activeId' = chosen
  /\ next(id, NoKey, CloseCall)
  /\ UNCHANGED <<idCounter, opened, made, edits, actions, renames, ended>>

(* MOVE: a tab is dropped at another position.                             *)
moveTab(id, position) ==
  /\ id \in DOMAIN byId /\ actions < MaxActions /\ position < Len(allIds)
  /\ actions' = actions + 1
  /\ LET ids == Put(Cut(allIds, byId[id].index), position, id)
     IN allIds' = ids /\ byId' = reindex(byId, ids)
  /\ UNCHANGED <<activeId, idCounter, opened, pending, timeouts, sent, made, edits, missing, renames, ended>>

activateTab(id) ==
  /\ id \in DOMAIN byId /\ actions < MaxActions
  /\ actions' = actions + 1
  /\ byId' = activate(byId, activeId, id)
  /\ activeId' = id
  /\ UNCHANGED <<allIds, idCounter, opened, pending, timeouts, sent, made, edits, missing, renames, ended>>

(* fetchEpic: a name of the project, after it was opened or renamed.  The  *)
(* server notifies until it has closed the project.                        *)
setName(tab) ==
  /\ ~ended /\ tab \in opened /\ actions < MaxActions
  /\ actions' = actions + 1
  /\ renames' = Append(renames, tab)
  /\ UNCHANGED <<byId, allIds, activeId, idCounter, opened, pending, timeouts, sent, made, edits, missing, ended>>

(* createActionFromUpdates, 100 ms after the last update: UPDATE_PROJECT   *)
(* for all of them, then UPDATE for the tab of each name.  Both reducers    *)
(* throw for a tab that is gone; the epics then end with all they hold     *)
(* back, after the titles before it have changed.                          *)
updateTab ==
  /\ renames # <<>>
  /\ renames' = <<>>
  /\ LET found == IF ToSet(renames) \subseteq opened
                  THEN SelectInSeq(renames, LAMBDA t : t \notin DOMAIN byId) ELSE 1
         updated == ToSet(IF found = 0 THEN renames ELSE SubSeq(renames, 1, found - 1))
     IN /\ byId' = [t \in DOMAIN byId |-> IF t \in updated THEN [byId[t] EXCEPT !.title = "new"] ELSE byId[t]]
        /\ ended' = (found # 0)
  /\ IF ended' THEN pending' = [t \in Tabs |-> Nothing] /\ timeouts' = <<>> ELSE UNCHANGED <<pending, timeouts>>
  /\ UNCHANGED <<allIds, activeId, idCounter, opened, sent, made, edits, actions, missing>>

(* The user edits the project of the active tab.                           *)
Edit(key) ==
  /\ activeId # 0 /\ actions < MaxActions
  /\ actions' = actions + 1
  /\ edits' = edits + 1
  /\ made' = [made EXCEPT ![activeId] = Append(@, [key |-> key, edit |-> edits + 1])]
  /\ next(activeId, key, <<edits + 1>>)
  /\ UNCHANGED <<byId, allIds, activeId, idCounter, opened, renames, ended>>

(* 3 s without an edit.  The 0 s timers of the tab are older than the held *)
(* edit and fire first.                                                    *)
dispatchNext(tab) ==
  /\ pending[tab].edits # <<>> /\ ~ended
  /\ \A k \in DOMAIN timeouts : timeouts[k].tab # tab
  /\ sent' = sent \o debouncedNext(tab)
  /\ Checked(debouncedNext(tab))
  /\ pending' = [pending EXCEPT ![tab] = Nothing]
  /\ UNCHANGED <<byId, allIds, activeId, idCounter, opened, timeouts, made, edits, actions, renames, ended>>

(* setTimeout 0.                                                           *)
Tick ==
  /\ timeouts # <<>> /\ ~ended
  /\ timeouts' = Tail(timeouts)
  /\ sent' = Append(sent, Head(timeouts))
  /\ Checked(<<Head(timeouts)>>)
  /\ UNCHANGED <<byId, allIds, activeId, idCounter, opened, pending, made, edits, actions, renames, ended>>

(* The answer to the close call: removeOpenedProject.                      *)
removeOpenedProject(tab) ==
  /\ tab \in opened /\ ~ended
  /\ \E k \in DOMAIN sent : sent[k] = Call(tab, CloseCall)
  /\ opened' = opened \ {tab}
  /\ UNCHANGED <<byId, allIds, activeId, idCounter, pending, timeouts, sent, made, edits, actions, missing, renames, ended>>

Init ==
  /\ byId = <<>> /\ allIds = <<>> /\ activeId = 0 /\ idCounter = 0 /\ opened = {}
  /\ pending = [t \in Tabs |-> Nothing] /\ timeouts = <<>> /\ sent = <<>>
  /\ made = [t \in Tabs |-> <<>>] /\ edits = 0 /\ actions = 0 /\ missing = FALSE
  /\ renames = <<>> /\ ended = FALSE

Next ==
  \/ newTab
  \/ \E t \in Tabs : closeTab(t)
  \/ \E t \in Tabs, p \in 0 .. MaxTabs - 1 : moveTab(t, p)
  \/ \E t \in Tabs : activateTab(t)
  \/ \E t \in Tabs : setName(t)
  \/ updateTab
  \/ \E key \in Keys \cup {NoKey} : Edit(key)
  \/ \E t \in Tabs : dispatchNext(t)
  \/ Tick
  \/ \E t \in Tabs : removeOpenedProject(t)

Spec == Init /\ [][Next]_vars

(***************************************************************************)
(* Properties                                                              *)
(***************************************************************************)
TypeOK ==
  /\ ToSet(renames) \subseteq Tabs /\ ended \in BOOLEAN
  /\ DOMAIN byId \subseteq Tabs /\ activeId \in 0 .. MaxTabs /\ opened \subseteq Tabs
  /\ idCounter \in 0 .. MaxTabs

(* Whatever tabs are opened, closed and moved: the index of a tab is its   *)
(* place in the list, one tab is active as long as there is one, and it is *)
(* the selected one.                                                       *)
TabsIndexed ==
  /\ DOMAIN byId = ToSet(allIds) /\ IsInjective(allIds)
  /\ \A i \in DOMAIN allIds : byId[allIds[i]].index = i - 1
  /\ {t \in DOMAIN byId : byId[t].active} = {activeId} \ {0}
  /\ activeId = 0 <=> allIds = <<>>

(* No edit of a tab is sent twice, and none is lost unless the epics have  *)
(* ended, by a name that came for a closed tab.  The edits leave in the    *)
(* order of the user, except that a debounced one may overtake one that is *)
(* not and still waits for its 0 s timer; none is left behind by the close *)
(* of its tab, and every call finds the project of its tab.                *)
Leaving(t) == FlattenSeq([k \in DOMAIN sent |-> IF sent[k].tab = t THEN sent[k].edits ELSE <<>>])
Waiting(t) == FlattenSeq([k \in DOMAIN timeouts |-> IF timeouts[k].tab = t THEN timeouts[k].edits ELSE <<>>])
KeyOf(t, e) == (CHOOSE m \in ToSet(made[t]) : m.edit = e).key
EditsOrdered ==
  /\ ~missing
  /\ \A t \in Tabs :
       LET all == Leaving(t) \o Waiting(t) \o pending[t].edits IN
       /\ IsInjective(all)
       /\ ToSet(all) \subseteq {m.edit : m \in ToSet(made[t])}
       /\ ~ended => ToSet(all) = {m.edit : m \in ToSet(made[t])}
       /\ \A i, j \in DOMAIN Leaving(t) :
            i < j /\ Leaving(t)[i] > Leaving(t)[j] =>
              KeyOf(t, Leaving(t)[i]) # NoKey /\ KeyOf(t, Leaving(t)[j]) = NoKey
  /\ \A k \in DOMAIN sent :
       sent[k].edits = CloseCall =>
         pending[sent[k].tab].edits = <<>> /\ Waiting(sent[k].tab) = <<>>
====
