-------------------------------- MODULE Lirc --------------------------------
(***************************************************************************)
(* The infrared driver, mylife-home-core-plugins-driver-lirc: one          *)
(* controller (engine/controller.ts) shared by the Send and Receive        *)
(* components, which queues the commands, sends them one at a time, and    *)
(* not while it receives.  The lirc client and its daemon are external.    *)
(***************************************************************************)
EXTENDS Naturals, Sequences, SequencesExt, FiniteSets

CONSTANTS
  Users,            \* the components; one remote button each
  MaxCommands,      \* bound: commands
  MaxReceived,      \* bound: codes received
  MaxDrops,         \* bound: disconnections and errors
  MaxLives          \* bound: creations and removals of components

VARIABLES
  instance,         \* controllerInstance: "none", "open" or "closed"
  alive,            \* the components that exist: refCount is their number
  online, pulses,   \* per component: the state online, and the pulses of value
  link,             \* the lirc client is connected to its daemon
  connected, sending, receiving, armed,
  queue,            \* sendQueue
  flights,          \* the calls of sendOnce in flight, oldest first
  sent,             \* history: the commands the daemon was given, in order
  commands, received, drops, lives,
  quirks            \* history: see the properties

vars == <<instance, alive, online, pulses, link, connected, sending, receiving, armed, queue, flights, sent, commands,
          received, drops, lives, quirks>>

Init ==
  /\ instance = "none" /\ alive = {} /\ online = [u \in Users |-> FALSE] /\ pulses = [u \in Users |-> 0]
  /\ link = FALSE /\ connected = FALSE /\ sending = FALSE /\ receiving = FALSE /\ armed = FALSE
  /\ queue = <<>> /\ flights = <<>> /\ sent = <<>>
  /\ commands = 0 /\ received = 0 /\ drops = 0 /\ lives = 0 /\ quirks = {}

(***************************************************************************)
(* processSendQueue, up to its next await: a command goes out when nothing *)
(* stops it.                                                               *)
(***************************************************************************)
Blocked(conn, send, rec) == ~conn \/ instance = "closed" \/ send \/ rec
processSendQueue(conn, send, rec, q, fl) ==
  IF q = <<>> \/ Blocked(conn, send, rec)
  THEN sending' = send /\ queue' = q /\ flights' = fl /\ UNCHANGED sent
  ELSE sending' = TRUE /\ queue' = Tail(q) /\ flights' = Append(fl, Head(q)) /\ sent' = Append(sent, Head(q))

send ==
  \E u \in alive :
    /\ commands < MaxCommands /\ commands' = commands + 1
    /\ processSendQueue(connected, sending, receiving, Append(queue, commands'), flights)
    /\ UNCHANGED <<link, instance, alive, online, pulses, connected, receiving, armed, received, drops, lives, quirks>>

\* the loop goes on after its await, whether the command was sent or not
SendEnds ==
  /\ flights # <<>>
  /\ \E i \in 1..Len(flights) : processSendQueue(connected, FALSE, receiving, queue, RemoveAt(flights, i))
  /\ UNCHANGED <<link, instance, alive, online, pulses, connected, receiving, armed, commands, received, drops, lives, quirks>>

(***************************************************************************)
(* Receiving: the pulse of the components of that button, then 300 ms      *)
(* without sending, counted from the last code.                            *)
(***************************************************************************)
onReceive ==
  /\ link /\ instance = "open" /\ received < MaxReceived /\ received' = received + 1
  /\ \E u \in Users : pulses' = IF u \in alive THEN [pulses EXCEPT ![u] = @ + 1] ELSE pulses
  /\ receiving' = TRUE /\ armed' = TRUE
  /\ UNCHANGED <<link, instance, alive, online, connected, sending, queue, flights, sent, commands, drops, lives, quirks>>

receiveTimeoutStuck ==
  /\ armed /\ armed' = FALSE /\ receiving' = FALSE
  /\ UNCHANGED <<link, instance, alive, online, pulses, connected, sending, queue, flights, sent, commands, received, drops, lives,
                 quirks>>
receiveTimeout ==
  /\ armed /\ armed' = FALSE /\ receiving' = FALSE
  /\ processSendQueue(connected, sending, FALSE, queue, flights)
  /\ UNCHANGED <<link, instance, alive, online, pulses, connected, commands, received, drops, lives, quirks>>

(***************************************************************************)
(* changeOnline.  A call of sendOnce that is in flight is forgotten by the *)
(* disconnection, but goes on.                                             *)
(***************************************************************************)
Told(v) == online' = [u \in Users |-> IF u \in alive THEN v ELSE online[u]]

onConnect ==
  /\ instance = "open" /\ ~link /\ link' = TRUE /\ connected' = TRUE /\ Told(TRUE)
  /\ processSendQueue(TRUE, sending, receiving, queue, flights)
  /\ quirks' = quirks \ {"unnoticed"}
  /\ UNCHANGED <<instance, alive, pulses, receiving, armed, commands, received, drops, lives>>

onDisconnect ==
  /\ connected /\ (instance = "closed" \/ drops < MaxDrops)
  /\ drops' = IF instance = "closed" THEN drops ELSE drops + 1
  /\ link' = FALSE
  /\ connected' = FALSE /\ Told(FALSE) /\ sending' = FALSE /\ receiving' = FALSE /\ armed' = FALSE
  /\ quirks' = (quirks \ {"unnoticed"}) \cup (IF flights # <<>> THEN {"forgotten"} ELSE {})
  /\ UNCHANGED <<instance, alive, pulses, queue, flights, sent, commands, received, lives>>

\* The reasons "end" and "timeout": the daemon is lost.  The handler is registered unbound, so that its
\* call of changeOnline throws, in the socket of the client, and nothing is changed ("unnoticed").
\* A throw that nobody catches ends the process, and the next one starts afresh.  Other reasons are
\* logged.
onErrorThrows ==
  /\ UNCHANGED <<instance, alive, online, pulses, connected, sending, receiving, armed, queue, flights>>
  /\ quirks' = quirks \cup (IF connected THEN {"unnoticed"} ELSE {})
ProcessEnds ==
  /\ instance' = "none" /\ alive' = {} /\ online' = [u \in Users |-> FALSE] /\ pulses' = [u \in Users |-> 0]
  /\ connected' = FALSE /\ sending' = FALSE /\ receiving' = FALSE /\ armed' = FALSE
  /\ queue' = <<>> /\ flights' = <<>> /\ quirks' = {}
onError ==
  /\ instance # "none" /\ drops < MaxDrops /\ drops' = drops + 1 /\ link' = FALSE
  /\ onErrorThrows \/ ProcessEnds
  /\ UNCHANGED <<sent, commands, received, lives>>

(***************************************************************************)
(* open and close: the controller is made once, and closed by the last     *)
(* component that leaves; a component that comes later gets it closed.     *)
(***************************************************************************)
open ==
  \E u \in Users \ alive :
    /\ lives < MaxLives /\ lives' = lives + 1
    /\ alive' = alive \cup {u} /\ online' = [online EXCEPT ![u] = FALSE]
    /\ instance' = IF instance = "none" THEN "open" ELSE instance
    /\ quirks' = quirks \cup (IF connected THEN {"late"} ELSE {}) \cup (IF instance = "closed" THEN {"reopened"} ELSE {})
    /\ UNCHANGED <<link, pulses, connected, sending, receiving, armed, queue, flights, sent, commands, received, drops>>

close ==
  \E u \in alive :
    /\ lives < MaxLives /\ lives' = lives + 1
    /\ alive' = alive \ {u} /\ online' = [online EXCEPT ![u] = FALSE]
    /\ IF alive' = {} THEN instance' = "closed" /\ armed' = FALSE ELSE UNCHANGED <<instance, armed>>
    /\ UNCHANGED <<link, pulses, connected, sending, receiving, queue, flights, sent, commands, received, drops, quirks>>

Next ==
  send \/ SendEnds \/ onReceive \/ receiveTimeout \/ onConnect \/ onDisconnect \/ onError \/ open \/ close

Spec == Init /\ [][Next]_vars

(***************************************************************************)
(* Properties.                                                             *)
(***************************************************************************)
TypeOK ==
  /\ instance \in {"none", "open", "closed"} /\ alive \subseteq Users /\ online \in [Users -> BOOLEAN]
  /\ sending \in BOOLEAN /\ receiving \in BOOLEAN /\ quirks \subseteq {"forgotten", "late", "reopened", "unnoticed"}

\* Commands are sent in the order they were given, each once, and one at a time: a second loop never
\* runs beside the one that waits for its sendOnce.  A disconnection during a send forgets it
\* (changeOnline), and the two may overlap after a reconnection.
SendsInTurn ==
  /\ \A i, j \in 1..Len(sent) : i < j => sent[i] < sent[j]
  /\ \A i \in 1..Len(sent), j \in 1..Len(queue) : sent[i] < queue[j]
  /\ "forgotten" \notin quirks => Len(flights) <= 1 /\ (sending = (flights # <<>>))

\* A command never waits for nothing: while the controller is connected, either a send is in flight or
\* the end of the reception will start the next one (the timer of 300 ms).  The components show
\* whether the daemon is connected; one created later ("late") learns it from the next change, and
\* the loss that an error tells of is not shown before the next event ("unnoticed").
NeverStalled ==
  /\ queue # <<>> /\ connected /\ instance = "open" => flights # <<>> \/ (receiving /\ armed)
  /\ quirks \cap {"late", "unnoticed"} = {} => \A u \in alive : online[u] = link
=============================================================================
