--------------------------- MODULE StudioProjects ---------------------------
(***************************************************************************)
(* The studio server's projects: the file collection and its polling       *)
(* watcher, the store over it, the sessions of the browsers and their      *)
(* notifiers, the opened projects, and what every browser shows: the list  *)
(* of projects and one designer tab.                                       *)
(*                                                                         *)
(* A project's content is a version number.  Contents are mutable objects  *)
(* that the file collection, the store and the opened projects share       *)
(* ("No copy!"): heap holds the objects, the others refer to them.  What   *)
(* the server sends is applied by the browser at once: the channel keeps   *)
(* the order, and CoreDesigner and UiDesigner look at its delay.           *)
(***************************************************************************)
EXTENDS Naturals, FiniteSets, Sequences, SequencesExt, TLC

CONSTANTS
  Sessions,
  Names,          \* project names
  ListUsers,      \* the sessions whose browser shows the list of projects
  Files,          \* the names that have a file at the start
  MaxOps,         \* bound: calls and changes of the files
  MaxObjects      \* bound: content objects

VARIABLES
  disk,           \* [Names -> Nat]: the files, Absent for none
  seen,           \* the files the watcher knows
  dirty,          \* the names touched since their last poll
  events,         \* events of the watcher not yet handled
  items,          \* the collection: name -> [raw, cell]
  heap,           \* the content objects' versions
  objs,           \* the opened projects created so far: [name, cell, notifiers]
  opened,         \* openedProjects: name -> index in objs
  sess,           \* [Sessions -> [on, gen, projects, lists]]
  lists,          \* listNotifiers: notifier id -> session
  soon,           \* the pending setImmediate callbacks
  br,             \* [Sessions -> [alive, lid, list, pid, name, shown]]
  ops, quirks

watchVars == <<seen, events>>
fsVars == <<disk, dirty, watchVars>>
memVars == <<items, heap>>
openVars == <<objs, opened>>
vars == <<fsVars, memVars, openVars, sess, lists, soon, br, ops, quirks>>

Absent == 0
Bad == 99               \* a file that is not JSON
None == 0

Drop(f, S) == [x \in DOMAIN f \ S |-> f[x]]
Put(f, x, y) == (x :> y) @@ f
If(quirk, holds) == IF holds THEN {quirk} ELSE {}

NewSession(on) == [on |-> on, gen |-> 0, projects |-> <<>>, lists |-> {}]
NewBrowser == [alive |-> TRUE, lid |-> None, list |-> <<>>, pid |-> None, name |-> "", shown |-> None]

Init ==
  /\ disk = [n \in Names |-> IF n \in Files THEN 1 ELSE Absent]
  /\ seen = Files /\ dirty = {} /\ events = <<>>
  /\ LET files == SetToSeq(Files)
     IN  /\ items = [n \in Files |-> [raw |-> 1, cell |-> CHOOSE k \in DOMAIN files : files[k] = n]]
         /\ heap = [k \in DOMAIN files |-> 1]
  /\ objs = <<>> /\ opened = <<>>
  /\ sess = [s \in Sessions |-> NewSession(TRUE)]
  /\ lists = <<>> /\ soon = {} /\ br = [s \in Sessions |-> NewBrowser]
  /\ ops = 0 /\ quirks = {}

Step == ops < MaxOps /\ ops' = ops + 1
Fresh == Len(heap) + 1
CanAllocate == Len(heap) < MaxObjects
Content(n) == heap[items[n].cell]

(***************************************************************************)
(* Notifications of the list: set, clear and rename, on every list         *)
(* notifier.  A rename of a project the browser does not have throws.      *)
(***************************************************************************)
Listening(s) == \E i \in DOMAIN lists : lists[i] = s /\ br[s].lid = i

ApplyList(b, n) ==
  IF ~b.alive THEN b
  ELSE CASE n.op = "set" -> [b EXCEPT !.list = Put(@, n.name, n.info)]
         [] n.op = "clear" -> [b EXCEPT !.list = Drop(@, {n.name})]
         [] n.op = "rename" -> IF n.name \in DOMAIN b.list
                               THEN [b EXCEPT !.list = Put(Drop(@, {n.name}), n.new, b.list[n.name])]
                               ELSE [b EXCEPT !.alive = FALSE]

NotifyList(bs, n) == [s \in Sessions |-> IF Listening(s) THEN ApplyList(bs[s], n) ELSE bs[s]]

SetNote(n, v) == [op |-> "set", name |-> n, info |-> v]
ClearNote(n) == [op |-> "clear", name |-> n]

\* An update that reaches a browser whose initial list is still to come.
EarlyList == \E x \in soon : x.what = "list" /\ Listening(x.s)

(***************************************************************************)
(* Notifications of an opened project to the sessions it holds notifiers   *)
(* of: the browser's tab shows version v under name n.                     *)
(***************************************************************************)
Holders(o) == {s \in Sessions : \E i \in DOMAIN objs[o].notifiers :
                                  objs[o].notifiers[i] = s /\ br[s].pid = i}

Show(bs, S, n, v) ==
  [s \in Sessions |-> IF s \in S /\ bs[s].alive THEN [bs[s] EXCEPT !.name = n, !.shown = v] ELSE bs[s]]

(***************************************************************************)
(* The file collection.  Set is FsCollection.set: the file is written and  *)
(* the item replaced; the watcher finds the same bytes later.              *)
(***************************************************************************)
SetItem(n, cell, v) ==
  /\ disk' = [disk EXCEPT ![n] = v]
  /\ dirty' = dirty \cup {n}
  /\ items' = Put(items, n, [raw |-> v, cell |-> cell])
  /\ UNCHANGED watchVars

\* createNewProject, duplicateProject: a fresh content object.
CreateNew ==
  \E n \in Names \ DOMAIN items, from \in {""} \cup DOMAIN items :
    LET v == IF from = "" THEN 1 ELSE Content(from)
    IN  /\ Step /\ CanAllocate
        /\ SetItem(n, Fresh, v)
        /\ heap' = Append(heap, v)
        /\ br' = NotifyList(br, SetNote(n, v))
        /\ quirks' = quirks \cup If("recreated", n \in DOMAIN opened)
        /\ UNCHANGED <<openVars, sess, lists, soon>>

DeleteProject ==
  \E n \in DOMAIN items :
    /\ Step
    /\ disk[n] # Absent
    /\ disk' = [disk EXCEPT ![n] = Absent]
    /\ dirty' = dirty \cup {n}
    /\ items' = Drop(items, {n})
    /\ br' = NotifyList(br, ClearNote(n))
    /\ UNCHANGED <<watchVars, heap, openVars, sess, lists, soon, quirks>>

\* OpenedProjects.renameProject: the entry moves to the new name.
Moved(n, m, o) == Put(Drop(opened, {n}), m, o)

\* renameProject: the file, the item, the list, then the opened project, which
\* takes its place in the map of opened projects from whoever has it.
RenameProject ==
  \E n \in DOMAIN items, m \in Names \ DOMAIN items :
    LET moved == n \in DOMAIN opened
        o == opened[n]
        listed == NotifyList(br, [op |-> "rename", name |-> n, new |-> m])
    IN  /\ Step
        /\ disk[n] # Absent
        /\ disk' = [disk EXCEPT ![n] = Absent, ![m] = disk[n]]
        /\ dirty' = dirty \cup {n, m}
        /\ items' = Put(Drop(items, {n}), m, items[n])
        /\ IF moved
           THEN /\ objs' = [objs EXCEPT ![o].name = m]
                /\ opened' = Moved(n, m, o)
                /\ br' = [s \in Sessions |-> IF s \in Holders(o) /\ listed[s].alive
                                             THEN [listed[s] EXCEPT !.name = m] ELSE listed[s]]
           ELSE UNCHANGED openVars /\ br' = listed
        /\ quirks' = quirks \cup If("recreated", m \in DOMAIN opened)
                            \cup If("early", EarlyList)
        /\ UNCHANGED <<watchVars, heap, sess, lists, soon>>

(***************************************************************************)
(* Files changed from outside, and the watcher: a poll finds a difference, *)
(* the event is handled later.                                             *)
(***************************************************************************)
ExternalChange ==
  \E n \in Names, v \in {Absent, Bad, 5} :
    /\ Step
    /\ v # disk[n]
    /\ disk' = [disk EXCEPT ![n] = v]
    /\ dirty' = dirty \cup {n}
    /\ UNCHANGED <<watchVars, memVars, openVars, sess, lists, soon, br, quirks>>

Poll ==
  \E n \in dirty :
    LET there == disk[n] # Absent
        event == [what |-> IF there THEN "set" ELSE "unlink", name |-> n]
    IN  /\ Len(events) < 1
        /\ dirty' = dirty \ {n}
        /\ seen' = IF there THEN seen \cup {n} ELSE seen \ {n}
        /\ events' = IF there \/ n \in seen THEN Append(events, event) ELSE events
        /\ quirks' = quirks \cup If("unseen", ~there /\ n \notin seen /\ n \in DOMAIN items)
        /\ UNCHANGED <<disk, memVars, openVars, sess, lists, soon, br, ops>>

IgnoredKnown(n, v) == v \in {Absent, Bad} \/ n \in DOMAIN items
Ignored(n, v) == v \in {Absent, Bad} \/ (n \in DOMAIN items /\ items[n].raw = v)

\* handleSet: the file is read now; the same bytes, a file gone again and one that
\* is not JSON change nothing.  A replaced item reloads the opened project.
HandleSet ==
  LET n == Head(events).name
      v == disk[n]
      known == n \in DOMAIN items
      o == opened[n]
      listed == NotifyList(br, SetNote(n, v))
  IN  /\ events # <<>> /\ Head(events).what = "set"
      /\ events' = Tail(events)
      /\ IF Ignored(n, v)
         THEN UNCHANGED <<memVars, openVars, br, quirks>>
         ELSE /\ CanAllocate
              /\ items' = Put(items, n, [raw |-> v, cell |-> Fresh])
              /\ heap' = Append(heap, v)
              /\ IF known /\ n \in DOMAIN opened
                 THEN /\ objs' = [objs EXCEPT ![o].cell = Fresh]
                      /\ br' = Show(listed, Holders(o), n, v)
                 ELSE UNCHANGED objs /\ br' = listed
              /\ quirks' = quirks \cup If("recreated", ~known /\ n \in DOMAIN opened)
              /\ UNCHANGED opened
      /\ UNCHANGED <<disk, dirty, seen, sess, lists, soon, ops>>

\* handleDelete: whatever the file is now.
HandleDelete ==
  LET n == Head(events).name
  IN  /\ events # <<>> /\ Head(events).what = "unlink"
      /\ events' = Tail(events)
      /\ items' = Drop(items, {n})
      /\ br' = NotifyList(br, ClearNote(n))
      /\ quirks' = quirks \cup If("lateUnlink", n \in DOMAIN items /\ disk[n] # Absent)
      /\ UNCHANGED <<disk, dirty, seen, heap, openVars, sess, lists, soon, ops>>

(***************************************************************************)
(* Sessions.                                                               *)
(***************************************************************************)
Connect ==
  \E s \in Sessions :
    /\ ~sess[s].on /\ br[s].alive
    /\ sess' = [sess EXCEPT ![s].on = TRUE]
    /\ UNCHANGED <<fsVars, memVars, openVars, lists, soon, br, ops, quirks>>

\* SessionNotifierManager: one map for all sessions, by the sessions' own ids.
CreateNotifier(s, i) == Put(lists, i, s)
RemoveNotifiers(ids) == Drop(lists, ids)

\* The browser loses its notifiers with the socket; the tab keeps its name, to open
\* the project again.
Offline(b) == [b EXCEPT !.lid = None, !.list = <<>>, !.pid = None, !.shown = None]

StartNotifyList ==
  \E s \in Sessions :
    LET i == sess[s].gen + 1
    IN  /\ sess[s].on /\ br[s].alive /\ br[s].lid = None /\ s \in ListUsers
        /\ sess' = [sess EXCEPT ![s].gen = i, ![s].lists = @ \cup {i}]
        /\ lists' = CreateNotifier(s, i)
        /\ soon' = soon \cup {[what |-> "list", s |-> s, id |-> i, obj |-> None]}
        /\ br' = [br EXCEPT ![s].lid = i]
        /\ quirks' = quirks \cup If("idCollision", i \in DOMAIN lists)
        /\ UNCHANGED <<fsVars, memVars, openVars, ops>>

StopNotifyList ==
  \E s \in Sessions :
    /\ sess[s].on /\ br[s].lid # None
    /\ Step
    /\ sess' = [sess EXCEPT ![s].lists = @ \ {br[s].lid}]
    /\ lists' = RemoveNotifiers({br[s].lid})
    /\ br' = [br EXCEPT ![s].lid = None, ![s].list = <<>>]
    /\ UNCHANGED <<fsVars, memVars, openVars, soon, quirks>>

EmitList ==
  \E x \in soon :
    /\ x.what = "list"
    /\ soon' = soon \ {x}
    /\ br' = IF br[x.s].lid = x.id /\ br[x.s].alive
             THEN [br EXCEPT ![x.s].list = [n \in DOMAIN items |-> Content(n)] @@ @] ELSE br
    /\ UNCHANGED <<fsVars, memVars, openVars, sess, lists, ops, quirks>>

\* openProject: the opened project is found or created from the item, and given
\* a notifier.
OpenProject ==
  \E s \in Sessions :
    LET i == sess[s].gen + 1
    IN  \E n \in (IF br[s].name = "" THEN DOMAIN items ELSE {br[s].name} \cap (DOMAIN items \cup DOMAIN opened)) :
        LET o == IF n \in DOMAIN opened THEN opened[n] ELSE Len(objs) + 1
            before == IF n \in DOMAIN opened THEN objs
                      ELSE Append(objs, [name |-> n, cell |-> items[n].cell, notifiers |-> <<>>])
        IN  /\ sess[s].on /\ br[s].alive /\ br[s].pid = None
            /\ objs' = [before EXCEPT ![o].notifiers = Put(@, i, s)]
            /\ opened' = Put(opened, n, o)
            /\ sess' = [sess EXCEPT ![s].gen = i, ![s].projects = Put(@, i, o)]
            /\ soon' = soon \cup {[what |-> "project", s |-> s, id |-> i, obj |-> o]}
            /\ br' = [br EXCEPT ![s].pid = i, ![s].name = n]
            /\ quirks' = quirks \cup If("idCollision", i \in DOMAIN before[o].notifiers)
            /\ UNCHANGED <<fsVars, memVars, lists, ops>>

EmitProject ==
  \E x \in soon :
    /\ x.what = "project"
    /\ soon' = soon \ {x}
    /\ br' = IF br[x.s].pid = x.id
             THEN Show(br, {x.s}, objs[x.obj].name, heap[objs[x.obj].cell]) ELSE br
    /\ UNCHANGED <<fsVars, memVars, openVars, sess, lists, ops, quirks>>

\* removeNotifier, then checkCloseProject: an opened project without notifiers is
\* taken out of the map under its name.
Released(o, i) == [objs EXCEPT ![o].notifiers = Drop(@, {i})]
Closed(os, o) == IF DOMAIN os[o].notifiers = {} THEN Drop(opened, {os[o].name}) ELSE opened

CloseProject ==
  \E s \in Sessions :
    LET i == br[s].pid
        o == sess[s].projects[i]
    IN  /\ sess[s].on /\ br[s].alive /\ i # None
        /\ Step
        /\ sess' = [sess EXCEPT ![s].projects = Drop(@, {i})]
        /\ objs' = Released(o, i)
        /\ opened' = Closed(objs', o)
        /\ br' = [br EXCEPT ![s].pid = None, ![s].name = "", ![s].shown = None]
        /\ UNCHANGED <<fsVars, memVars, lists, soon, quirks>>

\* The socket is lost: the session handlers of the list and of the opened projects
\* run, the browser clears what the notifiers gave it and keeps the tab's name.
Disconnect ==
  \E s \in Sessions :
    LET held == sess[s].projects
        one == CHOOSE i \in DOMAIN held : TRUE
    IN  /\ sess[s].on
        /\ Cardinality(DOMAIN held) <= 1
        /\ Step
        /\ lists' = RemoveNotifiers(sess[s].lists)
        /\ IF held = <<>> THEN UNCHANGED openVars
           ELSE objs' = Released(held[one], one) /\ opened' = Closed(objs', held[one])
        /\ sess' = [sess EXCEPT ![s] = NewSession(FALSE)]
        /\ soon' = {x \in soon : x.s # s}
        /\ br' = [br EXCEPT ![s] = Offline(@)]
        /\ UNCHANGED <<fsVars, memVars, quirks>>

\* callProject with an edit: Store.update finds the item by the name, the updater
\* changes the content the opened project refers to, and the item is written.
Edit ==
  \E s \in Sessions :
    LET i == br[s].pid
        o == sess[s].projects[i]
        n == objs[o].name
        c == objs[o].cell
        v == heap[c] + 1
        listed == NotifyList(br, SetNote(n, heap'[items[n].cell]))
    IN  /\ sess[s].on /\ br[s].alive /\ i # None /\ br[s].shown # None
        /\ n \in DOMAIN items
        /\ Step
        /\ heap' = [heap EXCEPT ![c] = v]
        /\ SetItem(n, items[n].cell, heap'[items[n].cell])
        /\ br' = Show(listed, Holders(o), n, v)
        /\ UNCHANGED <<openVars, sess, lists, soon, quirks>>

\* The server is restarted: everything but the files is gone.
Restart ==
  /\ Step
  /\ seen' = {} /\ dirty' = {n \in Names : disk[n] # Absent} /\ events' = <<>>
  /\ items' = <<>> /\ UNCHANGED heap
  /\ objs' = <<>> /\ opened' = <<>>
  /\ sess' = [s \in Sessions |-> NewSession(FALSE)]
  /\ lists' = <<>> /\ soon' = {}
  /\ br' = [s \in Sessions |-> Offline(br[s])]
  /\ UNCHANGED <<disk, quirks>>

Next ==
  \/ CreateNew \/ DeleteProject \/ RenameProject \/ ExternalChange \/ Poll \/ HandleSet \/ HandleDelete
  \/ Connect \/ StartNotifyList \/ StopNotifyList \/ EmitList \/ OpenProject \/ EmitProject
  \/ CloseProject \/ Disconnect \/ Edit \/ Restart

Spec == Init /\ [][Next]_vars

-----------------------------------------------------------------------------
\* Items refer to content objects, opened projects are registered under their own
\* name, and what a session holds is an opened project that exists.
TypeOK ==
  /\ disk \in [Names -> Nat] /\ seen \subseteq Names /\ dirty \subseteq Names
  /\ DOMAIN items \subseteq Names /\ \A n \in DOMAIN items : items[n].cell \in DOMAIN heap
  /\ \A n \in DOMAIN opened : objs[opened[n]].name = n
  /\ \A o \in DOMAIN objs : objs[o].cell \in DOMAIN heap
  /\ \A s \in Sessions : \A i \in DOMAIN sess[s].projects : sess[s].projects[i] \in DOMAIN objs

\* A notifier never outlives its session: every registration in the list manager
\* and in an opened project is of a connected session that still holds it.
NoGhostNotifier ==
  /\ \A i \in DOMAIN lists : sess[lists[i]].on /\ i \in sess[lists[i]].lists
  /\ \A n \in DOMAIN opened : \A i \in DOMAIN objs[opened[n]].notifiers :
       LET s == objs[opened[n]].notifiers[i] IN sess[s].on /\ i \in DOMAIN sess[s].projects

\* Once the watcher has caught up, the collection is the directory: every readable
\* file is an item with its bytes, and nothing else is.
CollectionIsDirectory ==
  (dirty = {} /\ events = <<>> /\ quirks \cap {"lateUnlink", "unseen"} = {}) =>
     \A n \in Names : disk[n] # Bad =>
       IF disk[n] = Absent THEN n \notin DOMAIN items
       ELSE n \in DOMAIN items /\ items[n].raw = disk[n]

\* A browser that subscribed to the list shows exactly the projects of the
\* collection, with their current information.
ListShown ==
  \A s \in Sessions :
    (/\ quirks \cap {"idCollision", "early"} = {} /\ br[s].lid # None
     /\ ~\E x \in soon : x.s = s /\ x.what = "list")
      => br[s].alive /\ br[s].list = [n \in DOMAIN items |-> Content(n)]

\* An open designer tab shows the content that an edit would save: the opened
\* project is the registered one of its name and shares the item's content.
TabCurrent ==
  \A s \in Sessions :
    (quirks \cap {"idCollision", "recreated", "lateUnlink"} = {} /\ br[s].alive /\ br[s].shown # None
       /\ br[s].name \in DOMAIN items)
      => LET o == sess[s].projects[br[s].pid]
         IN  /\ br[s].name \in DOMAIN opened /\ opened[br[s].name] = o
             /\ objs[o].cell = items[br[s].name].cell
             /\ br[s].shown = Content(br[s].name)

=============================================================================
