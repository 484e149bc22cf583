----------------------------- MODULE OnlineFeed -----------------------------
(***************************************************************************)
(* The two feeds of the studio: the history of the online components       *)
(* (services/online/history-notifier.ts) and the aggregated logs           *)
(* (services/logging.ts), each a circular buffer replayed to a browser     *)
(* that opens its tab, followed by the live records; and the store of the  *)
(* browser, which spreads the records in items, links a state change to    *)
(* the previous one and forgets the oldest items.                          *)
(*                                                                         *)
(* The calls that create and remove the notifier are in StudioProjects;    *)
(* here they are atomic.  What the server sends waits in the debounce      *)
(* buffer of the browser's epic until it is flushed to the store.          *)
(***************************************************************************)
EXTENDS Naturals, Sequences, SequencesExt, FiniteSets

CONSTANTS
  Feeds,        \* the feeds to consider, a subset of {"history", "logs"}
  Components,   \* the components that come and go, of one or of several instances
  States,       \* their states, in the order of getStates
  Capacity,     \* of the server's circular buffer, and MAX_LOGS
  MaxItems,     \* MAX_ITEMS of the history store
  MaxRecords,   \* bound: records
  MaxStarts     \* bound: times the browser opens its tab

VARIABLES
  feed,         \* which feed this is
  present,      \* the components in the registry
  all,          \* history: every record, in order
  buffer,       \* the circular buffer
  notifier,     \* "none", "created" (the replay is to come) or "on"
  replay,       \* what the replay will send
  queue,        \* the items that wait in the browser's debounce buffer
  items,        \* the items of the store
  ids,          \* items parsed
  since,        \* history: the records that the browser has to show start after this one
  starts,       \* bound
  quirks        \* history: "early", "late": see FeedComplete

vars == <<feed, present, all, buffer, notifier, replay, queue, items, ids, since, starts, quirks>>

None == 0
LastN(s, n) == SubSeq(s, IF Len(s) > n THEN Len(s) - n + 1 ELSE 1, Len(s))

Init ==
  /\ feed \in Feeds /\ present = {} /\ all = <<>> /\ buffer = <<>>
  /\ notifier = "none" /\ replay = <<>> /\ queue = <<>> /\ items = <<>>
  /\ ids = 0 /\ since = 0 /\ starts = 0 /\ quirks = {}

(***************************************************************************)
(* Records and items.                                                      *)
(***************************************************************************)
\* The time is the server's, one clock for all records; each record has its own.
Record(type, c, state) == [time |-> Len(all) + 1, type |-> type, comp |-> c, state |-> state]
Item(r, type, state, initial) ==
  [id |-> None, time |-> r.time, type |-> type, comp |-> r.comp, state |-> state,
   initial |-> initial, prev |-> None]

\* a component comes with the initial value of its states
Parse(r) ==
  IF r.type = "component-set"
  THEN <<Item(r, r.type, "", FALSE)>> \o [i \in 1..Len(States) |-> Item(r, "state-set", States[i], TRUE)]
  ELSE <<Item(r, r.type, r.state, FALSE)>>
ParseAll(records) == FlattenSeq([i \in 1..Len(records) |-> Parse(records[i])])
Numbered(its) == [i \in 1..Len(its) |-> [its[i] EXCEPT !.id = ids + i]]

Receive(records) ==
  LET its == ParseAll(records)
  IN queue' = queue \o Numbered(its) /\ ids' = ids + Len(its)

(***************************************************************************)
(* The server.                                                             *)
(***************************************************************************)
push(b, r) == Append(IF Len(b) = Capacity THEN Tail(b) ELSE b, r)

addRecord(r) ==
  /\ Len(all) < MaxRecords
  /\ all' = Append(all, r) /\ buffer' = push(buffer, r)
  /\ IF notifier = "none" THEN UNCHANGED <<queue, ids>> ELSE Receive(<<r>>)
  /\ quirks' = quirks \cup IF notifier = "created" /\ replay # <<>> THEN {"early"} ELSE {}
  /\ UNCHANGED <<feed, notifier, replay, items, since, starts>>

onInstanceChange == feed = "history" /\ addRecord(Record("instance", "", "")) /\ UNCHANGED present
onComponentAdd(c) ==
  /\ feed = "history" /\ c \notin present
  /\ addRecord(Record("component-set", c, "")) /\ present' = present \cup {c}
onComponentRemove(c) ==
  /\ feed = "history" /\ c \in present
  /\ addRecord(Record("component-clear", c, "")) /\ present' = present \ {c}
onStateChange(c) ==
  /\ feed = "history" /\ c \in present
  /\ \E i \in 1..Len(States) : addRecord(Record("state-set", c, States[i]))
  /\ UNCHANGED present
onData == feed = "logs" /\ addRecord(Record("log", "", "")) /\ UNCHANGED present

\* the replay is what the buffer holds now, and is sent after the reply
startNotify ==
  /\ notifier = "none" /\ starts < MaxStarts
  /\ notifier' = "created" /\ replay' = buffer /\ starts' = starts + 1
  /\ since' = IF Len(all) > Capacity THEN Len(all) - Capacity ELSE 0
  /\ UNCHANGED <<feed, present, all, buffer, queue, items, ids, quirks>>
sendReplay ==
  /\ notifier = "created"
  /\ Receive(replay)
  /\ notifier' = "on" /\ replay' = <<>>
  /\ UNCHANGED <<feed, present, all, buffer, items, since, starts, quirks>>
\* the notifier is removed and, with the reply, the store is cleared; not the debounce buffer
stopNotify ==
  /\ notifier = "on"
  /\ notifier' = "none" /\ items' = <<>>
  /\ quirks' = quirks \cup IF queue # <<>> THEN {"late"} ELSE {}
  /\ UNCHANGED <<feed, present, all, buffer, replay, queue, ids, since, starts>>

(***************************************************************************)
(* The store.                                                              *)
(***************************************************************************)
SameState(a, b) ==
  a.type = "state-set" /\ b.type = "state-set" /\ a.comp = b.comp /\ a.state = b.state

itemsShiftOnly(its) == Tail(its)
itemsShift(its) ==
  LET removed == Head(its)
  IN [i \in 1..Len(its) - 1 |->
        IF removed.type = "state-set" /\ its[i + 1].prev = removed.id
        THEN [its[i + 1] EXCEPT !.prev = None] ELSE its[i + 1]]

linkPrevState(its, new) ==
  LET matches == {i \in 1..Len(its) : SameState(its[i], new)}
      newest == CHOOSE i \in matches : \A j \in matches : j <= i
  IN IF new.initial \/ matches = {} THEN new ELSE [new EXCEPT !.prev = its[newest].id]

addItem(its, new) ==
  LET kept == IF Len(its) = MaxItems THEN itemsShift(its) ELSE its
  IN Append(kept, IF new.type = "state-set" THEN linkPrevState(kept, new) ELSE new)
addLog(its, new) == Append(IF Len(its) = Capacity THEN Tail(its) ELSE its, new)

flush ==
  /\ queue # <<>>
  /\ items' = IF feed = "history" THEN FoldLeft(addItem, items, queue) ELSE FoldLeft(addLog, items, queue)
  /\ queue' = <<>>
  /\ UNCHANGED <<feed, present, all, buffer, notifier, replay, ids, since, starts, quirks>>

Next == (\E c \in Components : onComponentAdd(c) \/ onComponentRemove(c) \/ onStateChange(c))
        \/ onInstanceChange \/ onData \/ startNotify \/ sendReplay \/ stopNotify \/ flush

Spec == Init /\ [][Next]_vars

(***************************************************************************)
(* Properties.                                                             *)
(***************************************************************************)
\* No list outgrows its bound.
TypeOK ==
  /\ feed \in {"history", "logs"} /\ present \subseteq Components
  /\ notifier \in {"none", "created", "on"}
  /\ Len(buffer) <= Capacity /\ buffer = LastN(all, Capacity)
  /\ Len(items) <= IF feed = "history" THEN MaxItems ELSE Capacity
  /\ quirks \subseteq {"early", "late"}

Shown(its) == [i \in 1..Len(its) |-> [time |-> its[i].time, type |-> its[i].type, comp |-> its[i].comp, state |-> its[i].state]]
Expected == Shown(ParseAll(SubSeq(all, since + 1, Len(all))))

\* What a tab shows once the replay is there and the debounce buffer is empty: the newest of
\* everything that was buffered when it opened and everything since, in order, none lost and none
\* twice (history-notifier.ts and logging.ts startNotify, the store's reducers).  It may not be so
\* when a record comes between the creation of the notifier and its replay (early), or when the
\* tab was closed before its debounce buffer was flushed (late).
FeedComplete ==
  notifier = "on" /\ queue = <<>> /\ quirks = {} =>
    Shown(items) = LastN(Expected, IF feed = "history" THEN MaxItems ELSE Capacity)

\* A state change is linked to the newest change of the same state of the same component that
\* the store holds and that is older than it, and to nothing else (reducer.ts linkPrevState,
\* itemsShift): newest by the time of the records, which the items are ordered by.  When a record
\* came between the creation of the notifier and its replay, or after the tab was closed, the
\* items are not ordered by time; newest is then, as always, in the order in which they came.
Newest(matches) == IF matches = {} THEN None ELSE items[CHOOSE j \in matches : \A k \in matches : k <= j].id
NewestByTime(matches) ==
  IF matches = {} THEN None
  ELSE items[CHOOSE j \in matches : \A k \in matches : items[k].time <= items[j].time].id

LinksSound ==
  \A i \in 1..Len(items) :
    LET same == {j \in 1..Len(items) : SameState(items[j], items[i])}
    IN  IF items[i].initial \/ items[i].type # "state-set" THEN items[i].prev = None
        ELSE /\ items[i].prev = Newest({j \in same : j < i})
             /\ quirks = {} => items[i].prev = NewestByTime({j \in same : items[j].time < items[i].time})
=============================================================================
