----------------------------- MODULE Collector -----------------------------
(***************************************************************************)
(* The collector, mylife-home-collector: it writes to a database what it   *)
(* sees of the bus, itself online, the instances, their components and     *)
(* their states (manager/history.ts), and the log records of the others    *)
(* (manager/logging.ts), each record with a sequence number                *)
(* (database/sequence.ts), and on a clean exit it waits for the writes     *)
(* (database/writer.ts, database/completion-bag.ts).                       *)
(*                                                                         *)
(* The bus and the registry are modelled by the events they emit           *)
(* (BusClient, RemoteMirror); the database is external: an insertion ends  *)
(* at any time, or fails, which ends the process.                          *)
(***************************************************************************)
EXTENDS Naturals, Sequences, SequencesExt, FiniteSets

CONSTANTS
  Instances, Components, Values,
  Owner,            \* the instance of each component
  MaxEvents,        \* bound: events of the bus in a life of the process
  MaxLogs,          \* bound: log records received in a life
  MaxLives          \* bound: lives of the process

VARIABLES
  phase,            \* "connecting": awaits the database; "running"; "logs", "history": terminate awaits; "down"
  online, insts, comps,     \* the bus as the registry sees it: comps maps a component to its state
  known,            \* History.components
  issued,           \* the records of this life, in the order of write()
  pendings,         \* the insertions that are not done: the completion bags of both writers
  stored,           \* the records of this life that the database has
  past,             \* the highest sequence number it has of earlier lives
  events, logs, life,
  second            \* the clock, in the unit of the sequence

vars == <<phase, online, insts, comps, known, issued, pendings, stored, past, events, logs, life, second>>

NoState == "null"
Width == MaxEvents * 8 + MaxLogs + 16     \* 2^32 in the code: more than the records of a life

Rec(t, k, v) == [t |-> t, k |-> k, v |-> v]

Init ==
  /\ phase = "connecting" /\ online = FALSE /\ insts = {} /\ comps = [c \in {} |-> NoState] /\ known = {}
  /\ issued = <<>> /\ pendings = {} /\ stored = {} /\ past = 0 /\ events = 0 /\ logs = 0 /\ life = 1 /\ second = 1

(***************************************************************************)
(* Writer.write: a sequence number, an insertion, a task of the bag.       *)
(***************************************************************************)
Seqnum(n) == second * Width + n
Write(recs) ==
  /\ issued' = issued \o recs
  /\ pendings' = pendings \cup {Len(issued) + i : i \in 1..Len(recs)}

\* records of a component that appears, and of its states that are known
NotifierRecords(c, v) ==
  <<Rec("comp", c, TRUE)>> \o (IF v = NoState THEN <<>> ELSE <<Rec("state", c, v)>>)
CloseRecords(c) == <<Rec("comp", c, FALSE)>>
InstanceRecords(S, on) == [i \in 1..Cardinality(S) |-> Rec("inst", SetToSeq(S)[i], on)]
RECURSIVE Flat(_, _)
Flat(op, S) ==
  IF S = {} THEN <<>>
  ELSE LET c == CHOOSE x \in S : TRUE
       IN (IF op = "add" THEN NotifierRecords(c, comps[c]) ELSE CloseRecords(c)) \o Flat(op, S \ {c})

(***************************************************************************)
(* History.init, once its writer is connected: what is there already, then *)
(* the events.  Before that the events have no listener.                   *)
(***************************************************************************)
InitDone ==
  /\ phase = "connecting" /\ phase' = "running"
  /\ IF online
     THEN /\ Write(<<Rec("self", "self", TRUE)>> \o InstanceRecords(insts, TRUE) \o Flat("add", DOMAIN comps))
          /\ known' = DOMAIN comps
     ELSE UNCHANGED <<issued, pendings, known>>
  /\ UNCHANGED <<online, insts, comps, stored, past, events, logs, life, second>>

Listening == phase \in {"running", "logs"}
Event == phase \in {"connecting", "running", "logs"} /\ events < MaxEvents /\ events' = events + 1
Listen(recs) == IF Listening THEN Write(recs) ELSE UNCHANGED <<issued, pendings>>

onlineChangeSet ==
  /\ Event /\ ~online /\ online' = TRUE /\ Listen(<<Rec("self", "self", TRUE)>>)
  /\ UNCHANGED <<phase, insts, comps, known, stored, past, logs, life, second>>

\* the registry removes the components of an instance before History hears of the instance
Gone(S) == Flat("remove", {c \in DOMAIN comps : Owner[c] \in S}) \o InstanceRecords(S, FALSE)
Leave(S) ==
  /\ insts' = insts \ S /\ comps' = [c \in {d \in DOMAIN comps : Owner[d] \notin S} |-> comps[c]]
  /\ known' = {c \in known : Owner[c] \notin S}

\* the transport tells its listeners first, the presence afterwards
onlineChangeClear ==
  /\ Event /\ online /\ online' = FALSE
  /\ Leave(insts) /\ Listen(<<Rec("self", "self", FALSE)>> \o Gone(insts))
  /\ UNCHANGED <<phase, stored, past, logs, life, second>>

onInstanceSet ==
  /\ Event /\ online
  /\ \E i \in Instances \ insts : insts' = insts \cup {i} /\ Listen(<<Rec("inst", i, TRUE)>>)
  /\ UNCHANGED <<phase, online, comps, known, stored, past, logs, life, second>>

onInstanceClear ==
  /\ Event /\ \E i \in insts : Leave({i}) /\ Listen(Gone({i}))
  /\ UNCHANGED <<phase, online, stored, past, logs, life, second>>

onComponentAdd ==
  /\ Event
  /\ \E c \in Components \ DOMAIN comps :
       /\ Owner[c] \in insts
       /\ comps' = [d \in DOMAIN comps \cup {c} |-> IF d = c THEN NoState ELSE comps[d]]
       /\ Listen(NotifierRecords(c, NoState)) /\ known' = IF Listening THEN known \cup {c} ELSE known
  /\ UNCHANGED <<phase, online, insts, stored, past, logs, life, second>>

onComponentRemoveSilent ==
  /\ Event
  /\ \E c \in DOMAIN comps :
       /\ comps' = [d \in DOMAIN comps \ {c} |-> comps[d]] /\ known' = known \ {c}
       /\ UNCHANGED <<issued, pendings>>
  /\ UNCHANGED <<phase, online, insts, stored, past, logs, life, second>>

onComponentRemove ==
  /\ Event
  /\ \E c \in DOMAIN comps :
       /\ comps' = [d \in DOMAIN comps \ {c} |-> comps[d]] /\ known' = known \ {c}
       /\ Listen(CloseRecords(c))
  /\ UNCHANGED <<phase, online, insts, stored, past, logs, life, second>>

onStateChange ==
  /\ Event
  /\ \E c \in DOMAIN comps, v \in Values :
       /\ comps' = [comps EXCEPT ![c] = v]
       /\ IF c \in known THEN Write(<<Rec("state", c, v)>>) ELSE UNCHANGED <<issued, pendings>>
  /\ UNCHANGED <<phase, online, insts, known, stored, past, logs, life, second>>

\* the logging is initialised first; a chunk of the log stream that does not parse is ignored: it is no step
onStreamData ==
  /\ phase \in {"connecting", "running"} /\ logs < MaxLogs /\ logs' = logs + 1 /\ Write(<<Rec("log", "log", logs')>>)
  /\ UNCHANGED <<phase, online, insts, comps, known, stored, past, events, life, second>>

(***************************************************************************)
(* The insertions, in the order the database likes.                        *)
(***************************************************************************)
Inserted ==
  /\ \E n \in pendings :
       /\ pendings' = pendings \ {n}
       /\ stored' = stored \cup {n}
  /\ UNCHANGED <<phase, online, insts, comps, known, issued, past, events, logs, life, second>>

(***************************************************************************)
(* Manager.terminate: the logging, then the history; each awaits the       *)
(* completion of its writes.                                               *)
(***************************************************************************)
OfLogs == {n \in pendings : issued[n].t = "log"}

terminate ==
  /\ phase = "running" /\ phase' = "logs"
  /\ UNCHANGED <<online, insts, comps, known, issued, pendings, stored, past, events, logs, life, second>>

historyTerminate ==
  /\ phase = "logs" /\ OfLogs = {} /\ phase' = "history"
  /\ IF online
     THEN /\ Write(InstanceRecords(insts, FALSE) \o Flat("remove", DOMAIN comps) \o <<Rec("self", "self", FALSE)>>)
          /\ known' = {}
     ELSE UNCHANGED <<issued, pendings, known>>
  /\ UNCHANGED <<online, insts, comps, stored, past, events, logs, life, second>>

\* the waits: wait() of the completion bag, then the client closes
wait == phase = "history" /\ pendings = {}

Terminated ==
  /\ wait /\ phase' = "down"
  /\ UNCHANGED <<online, insts, comps, known, issued, pendings, stored, past, events, logs, life, second>>

\* the process dies, or an insertion fails; and starts again, a second later at least
Restart ==
  /\ life < MaxLives /\ life' = life + 1 /\ second' = second + 1 /\ phase' = "connecting"
  /\ online' = FALSE /\ insts' = {} /\ comps' = [c \in {} |-> NoState] /\ known' = {} /\ issued' = <<>>
  /\ pendings' = {} /\ events' = 0 /\ logs' = 0 /\ stored' = {}
  /\ past' = Max({past} \cup {Seqnum(n) : n \in stored})

Next ==
  \/ InitDone \/ onlineChangeSet \/ onlineChangeClear \/ onInstanceSet \/ onInstanceClear \/ onComponentAdd
  \/ onComponentRemove \/ onStateChange \/ onStreamData \/ Inserted \/ terminate \/ historyTerminate \/ Terminated
  \/ Restart

Spec == Init /\ [][Next]_vars

(***************************************************************************)
(* Properties.                                                             *)
(***************************************************************************)
TypeOK ==
  /\ phase \in {"connecting", "running", "logs", "history", "down"} /\ insts \subseteq Instances
  /\ DOMAIN comps \subseteq Components /\ pendings \subseteq 1..Len(issued) /\ Len(issued) < Width
  /\ (Listening => known = DOMAIN comps)

\* what a reader of the history makes of the records, in their order
Apply(h, r) ==
  CASE r.t = "self"  -> [h EXCEPT !.self = r.v]
    [] r.t = "inst"  -> [h EXCEPT !.insts = IF r.v THEN @ \cup {r.k} ELSE @ \ {r.k}]
    [] r.t = "comp"  -> IF r.v THEN [h EXCEPT !.comps = @ \cup {<<r.k, NoState>>}]
                        ELSE [h EXCEPT !.comps = {x \in @ : x[1] # r.k}]
    [] r.t = "state" -> [h EXCEPT !.comps = {x \in @ : x[1] # r.k} \cup {<<r.k, r.v>>}]
    [] OTHER -> h
Nobody == [self |-> FALSE, insts |-> {}, comps |-> {}]
Replay(recs) == FoldLeft(Apply, Nobody, recs)

\* The history replays the bus: the records of a life of the collector, in the order of their
\* sequence numbers, rebuild at every moment what the collector sees, itself online, the instances,
\* the components and their last states, and after a terminate they end with nothing left.
ReplayExact ==
  /\ Listening => Replay(issued) = [self |-> online, insts |-> insts, comps |-> {<<c, comps[c]>> : c \in DOMAIN comps}]
  /\ phase \in {"history", "down"} => Replay(issued) = Nobody

\* A clean exit loses no record: when the database client closes, every record of that life is
\* stored; and the sequence numbers of the database order the records as they were written, those
\* of a later life after those of an earlier one.
ExitStored ==
  /\ phase = "down" => stored = 1..Len(issued)
  /\ \A n \in stored : Seqnum(n) > past
=============================================================================
