----------------------------- MODULE BusLogger -----------------------------
(***************************************************************************)
(* The log stream of an instance over the bus, mylife-home-common          *)
(* src/bus/logger.ts: a stream writes one chunk at a time, published when  *)
(* the client is online, kept in a bounded queue when it is not, and the   *)
(* queue is emptied by a loop that starts every time the client comes      *)
(* online.                                                                 *)
(*                                                                         *)
(* The stream (one _write at a time) and the mqtt client (publishes leave  *)
(* in order; those under way when the connection is lost may be lost) are  *)
(* external.                                                               *)
(***************************************************************************)
EXTENDS Naturals, Sequences, SequencesExt, FiniteSets

CONSTANTS
  Retention,        \* offlineRetention, in chunks
  MaxChunks,        \* bound: chunks logged
  MaxConnections    \* bound: times the client comes online

VARIABLES
  up,               \* client.online
  buffer,           \* chunks in the stream's own buffer
  writing,          \* the chunk whose _write awaits its publish, 0 for none
  offlineQueue,
  loops,            \* the emptying loops: the chunk that each awaits
  flight,           \* the publishes under way, in order
  arrived,          \* what subscribers received
  dropped, lost,    \* history: refused by the queue; under way when the connection was lost
  chunks, connections,
  overtaken         \* history: a chunk was published while the queue held older ones

vars == <<up, buffer, writing, offlineQueue, loops, flight, arrived, dropped, lost, chunks, connections, overtaken>>

Init ==
  /\ up = FALSE /\ buffer = <<>> /\ writing = 0 /\ offlineQueue = <<>> /\ loops = {} /\ flight = <<>> /\ arrived = <<>>
  /\ dropped = {} /\ lost = {} /\ chunks = 0 /\ connections = 0 /\ overtaken = FALSE

Logged ==
  /\ chunks < MaxChunks /\ chunks' = chunks + 1 /\ buffer' = Append(buffer, chunks')
  /\ UNCHANGED <<up, writing, offlineQueue, loops, flight, arrived, dropped, lost, connections, overtaken>>

enqueue(chunk) ==
  IF Len(offlineQueue) > Retention THEN dropped' = dropped \cup {chunk} /\ UNCHANGED offlineQueue
  ELSE offlineQueue' = Append(offlineQueue, chunk) /\ UNCHANGED dropped

\* _write, send
send ==
  /\ writing = 0 /\ buffer # <<>> /\ buffer' = Tail(buffer)
  /\ LET chunk == Head(buffer)
     IN IF up
        THEN /\ writing' = chunk /\ flight' = Append(flight, chunk) /\ UNCHANGED <<offlineQueue, dropped>>
             /\ overtaken' = (overtaken \/ offlineQueue # <<>>)
        ELSE enqueue(chunk) /\ UNCHANGED <<writing, flight, overtaken>>
  /\ UNCHANGED <<up, loops, arrived, lost, chunks, connections>>

\* one turn of an emptying loop; a loop between two turns is in no state of its own
TurnPeeks(from) ==
  IF up' /\ offlineQueue # <<>>
  THEN /\ UNCHANGED offlineQueue /\ flight' = Append(from, Head(offlineQueue))
       /\ loops' = (loops \cap Range(from)) \cup {Head(offlineQueue)}
  ELSE UNCHANGED offlineQueue /\ flight' = from /\ loops' = loops \cap Range(from)
Turn(from) ==
  IF up' /\ offlineQueue # <<>>
  THEN /\ offlineQueue' = Tail(offlineQueue) /\ flight' = Append(from, Head(offlineQueue))
       /\ loops' = (loops \cap Range(from)) \cup {Head(offlineQueue)}
  ELSE UNCHANGED offlineQueue /\ flight' = from /\ loops' = loops \cap Range(from)

onOnlineChange ==
  /\ ~up /\ connections < MaxConnections /\ connections' = connections + 1 /\ up' = TRUE /\ Turn(flight)
  /\ UNCHANGED <<buffer, writing, arrived, dropped, lost, chunks, overtaken>>

Released(chunk) == writing' = IF writing = chunk THEN 0 ELSE writing

\* the oldest publish is acknowledged: its _write ends, or its loop goes on
Published ==
  /\ up /\ flight # <<>> /\ arrived' = Append(arrived, Head(flight)) /\ Released(Head(flight)) /\ UNCHANGED up
  /\ IF Head(flight) \in loops THEN Turn(Tail(flight)) ELSE flight' = Tail(flight) /\ UNCHANGED <<offlineQueue, loops>>
  /\ UNCHANGED <<buffer, dropped, lost, chunks, connections, overtaken>>

\* the connection is lost: publishes under way are lost (and end), or kept by the client for later
Disconnected ==
  /\ up /\ up' = FALSE
  /\ \E keep \in BOOLEAN :
       /\ flight' = IF keep THEN flight ELSE <<>>
       /\ lost' = IF keep THEN lost ELSE lost \cup Range(flight)
       /\ loops' = IF keep THEN loops ELSE {}
       /\ writing' = IF keep THEN writing ELSE 0
  /\ UNCHANGED <<buffer, offlineQueue, arrived, dropped, chunks, connections, overtaken>>

Next == Logged \/ send \/ onOnlineChange \/ Published \/ Disconnected

Spec == Init /\ [][Next]_vars

TypeOK ==
  /\ writing \in 0..MaxChunks /\ loops \subseteq 1..MaxChunks /\ Len(offlineQueue) <= Retention + 1
  /\ (writing # 0 => writing \in Range(flight))

\* Every log record goes one way: it waits in the stream, waits in the queue, is under way, was
\* received, or was given up (refused by a full queue, or under way when the connection was lost);
\* never two of these, so none is received twice, and none disappears between the queue and the
\* publishes, however often the connection comes and goes while a loop empties the queue.
LogsAccounted ==
  LET places == <<buffer, offlineQueue, flight, arrived>>
  IN \A c \in 1..chunks :
       Cardinality({<<p, i>> \in (1..4) \X (1..MaxChunks) : i <= Len(places[p]) /\ places[p][i] = c})
         = IF c \in dropped \cup lost THEN 0 ELSE 1

\* Log records are received in the order they were logged, unless one was published while the queue
\* still held older ones.
LogsOrdered == ~overtaken => \A i, j \in 1..Len(arrived) : i < j => arrived[i] < arrived[j]
=============================================================================
