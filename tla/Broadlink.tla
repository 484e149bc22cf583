----------------------------- MODULE Broadlink -----------------------------
(***************************************************************************)
(* The switch driver, mylife-home-core-plugins-driver-broadlink: an MP1    *)
(* with its four outputs (mp1.ts; an SP3 is an MP1 with one), over a       *)
(* device (engine/device.ts, engine/devices.ts) and a connection of        *)
(* datagrams (engine/connection.ts).                                       *)
(*                                                                         *)
(* The states of the component are what is wanted; an enforcement asks the *)
(* device for its outputs, and changes those that differ, one at a time.   *)
(* The network loses, delays and duplicates datagrams; the device is       *)
(* external.                                                               *)
(***************************************************************************)
EXTENDS Naturals, Sequences, SequencesExt, FiniteSets

CONSTANTS
  Outputs,          \* 1..4 for an MP1, {1} for an SP3
  MaxQueries,       \* bound: packets of one connection
  MaxActions,       \* bound: actions of the component, and buttons pressed on the device
  MaxFaults,        \* bound: errors of the connection and timeouts
  MaxLost           \* bound: datagrams lost or duplicated

VARIABLES
  wanted,           \* the states output1 to output4
  online,           \* the state online
  closed, attempt, socket, timer,   \* Device: connect() in progress, its socket, the reconnection timer
  counter, pending, \* sendCounter, and the query that waits: [id, what] or NoQuery
  net, answers,     \* datagrams on their way
  task,             \* doEnforceState
  device,           \* the outputs of the device, as a mask
  fresh,            \* history: the outputs that the last whole enforcement left as wanted
  actions, faults, lost,
  quirks            \* history: see KeepsTrying

vars == <<wanted, online, closed, attempt, socket, timer, counter, pending, net, answers, task, device, fresh, actions,
          faults, lost, quirks>>

Bit(i) == 2 ^ (i - 1)
IsSet(mask, i) == (mask \div Bit(i)) % 2 = 1

(***************************************************************************)
(* The messages of engine/devices.ts.                                      *)
(***************************************************************************)
checkMessage == [change |-> FALSE, mask |-> 0, value |-> 0]
createMessage(i, v) == [change |-> TRUE, mask |-> Bit(i), value |-> IF v THEN Bit(i) ELSE 0]
parseShifted(payload) == [i \in Outputs |-> IsSet(payload, i + 1)]
parseMessage(payload) == [i \in Outputs |-> IsSet(payload, i)]

\* what the device makes of a message
Applied(mask, msg) ==
  IF ~msg.change THEN mask
  ELSE IF IsSet(mask, CHOOSE i \in Outputs : Bit(i) = msg.mask) THEN mask - msg.mask + msg.value ELSE mask + msg.value

NoQuery == [id |-> 0, what |-> "none", msg |-> checkMessage]
NoTask == [phase |-> "idle", state |-> [i \in Outputs |-> FALSE], i |-> 0, touched |-> {}]

Init ==
  /\ wanted = [i \in Outputs |-> FALSE] /\ online = FALSE /\ closed = FALSE /\ attempt = "resolving"
  /\ socket = FALSE /\ timer = FALSE /\ counter = 0 /\ pending = NoQuery /\ net = {} /\ answers = {} /\ task = NoTask
  /\ device = 0 /\ fresh = {} /\ actions = 0 /\ faults = 0 /\ lost = 0 /\ quirks = {}

(***************************************************************************)
(* Connection.query: the datagram leaves with the send counter as its id.  *)
(***************************************************************************)
Query(what, msg) ==
  LET q == [id |-> counter + 1, what |-> what, msg |-> msg]
  IN counter < MaxQueries /\ counter' = counter + 1 /\ pending' = q /\ net' = net \cup {q}

(***************************************************************************)
(* Device.connect: dns and arp, the socket, then the authentication.       *)
(***************************************************************************)
Resolved ==
  /\ attempt = "resolving" /\ attempt' = "opening" /\ socket' = TRUE
  /\ quirks' = quirks \cup (IF closed THEN {"early"} ELSE {})
  /\ UNCHANGED <<wanted, online, closed, timer, counter, pending, net, answers, task, device, fresh, actions, faults, lost>>

Bound ==
  /\ attempt = "opening" /\ socket /\ attempt' = "auth" /\ Query("auth", checkMessage)
  /\ UNCHANGED <<wanted, online, closed, socket, timer, answers, task, device, fresh, actions, faults, lost, quirks>>

\* disconnect, which resets the device: a query that waits is cancelled, and its function goes on later
disconnect ==
  /\ socket' = FALSE /\ net' = {} /\ answers' = {} /\ counter' = 0 /\ online' = FALSE
  /\ pending' = NoQuery
\* onError of the socket, and what the cancellation makes of the functions that wait
Torn(t) == IF t.phase \in {"check", "set"} THEN [t EXCEPT !.phase = "cancelled"] ELSE t

onError ==
  /\ disconnect /\ timer' = ~closed /\ task' = Torn(task)

Fault == faults < MaxFaults /\ faults' = faults + 1

\* a connect() that awaits its bind is never called back; one that authenticates is rejected
SocketError ==
  /\ socket /\ ~closed /\ Fault /\ onError
  /\ attempt' = CASE attempt = "auth" -> "rejected" [] attempt = "opening" -> "none" [] OTHER -> attempt
  /\ UNCHANGED <<wanted, closed, device, fresh, actions, lost, quirks>>

\* the catch of connect
ConnectFails ==
  /\ \/ attempt = "resolving" /\ Fault
     \/ attempt = "rejected" /\ UNCHANGED faults
  /\ attempt' = "none" /\ onError
  /\ UNCHANGED <<wanted, closed, device, fresh, actions, lost, quirks>>

reconnect ==
  /\ timer /\ timer' = FALSE /\ attempt' = "resolving"
  /\ UNCHANGED <<wanted, online, closed, socket, counter, pending, net, answers, task, device, fresh, actions, faults,
                 lost, quirks>>

(***************************************************************************)
(* Enforcement: of every action, of a change of online, and every ten      *)
(* seconds; one at a time.                                                 *)
(***************************************************************************)
Check(conn, t) == conn /\ t.phase = "idle"

doEnforceState ==
  /\ Check(online, task) /\ ~closed /\ Query("check", checkMessage) /\ task' = [NoTask EXCEPT !.phase = "check"]
  /\ UNCHANGED <<wanted, online, closed, attempt, socket, timer, answers, device, fresh, actions, faults, lost, quirks>>

setOutput ==
  /\ ~closed /\ actions < MaxActions /\ actions' = actions + 1
  /\ \E i \in Outputs, v \in BOOLEAN :
       /\ wanted' = [wanted EXCEPT ![i] = v]
       /\ fresh' = IF v = wanted[i] THEN fresh ELSE fresh \ {i}
       /\ IF Check(online, task) THEN Query("check", checkMessage) /\ task' = [NoTask EXCEPT !.phase = "check"]
          ELSE /\ task' = IF v = wanted[i] \/ i > task.i THEN task ELSE [task EXCEPT !.touched = @ \cup {i}]
               /\ UNCHANGED <<counter, pending, net>>
  /\ UNCHANGED <<online, closed, attempt, socket, timer, answers, device, faults, lost, quirks>>

\* the loop over the outputs, from i on, with the states the device answered: the next that differs
Differs(t, i) == {j \in Outputs : j >= i /\ t.state[j] # wanted[j]}
Step(t, i) ==
  IF Differs(t, i) = {}
  THEN /\ task' = NoTask /\ UNCHANGED <<counter, net>> /\ pending' = NoQuery
       /\ fresh' = Outputs \ t.touched
  ELSE LET j == CHOOSE k \in Differs(t, i) : \A l \in Differs(t, i) : k <= l
       IN /\ Query("set", createMessage(j, wanted[j])) /\ UNCHANGED fresh
          /\ task' = [t EXCEPT !.phase = "set", !.i = j]

Answered ==
  \E a \in answers :
    /\ answers' = answers \ {a}
    /\ IF a.id # pending.id THEN UNCHANGED <<pending, counter, net, task, online, attempt, fresh, quirks>>   \* ignored
       ELSE CASE a.what = "auth" ->
                   \* online; onOnline enforces, unless the component is gone
                   /\ attempt' = "none" /\ online' = TRUE /\ UNCHANGED <<fresh, quirks>>
                   /\ IF closed \/ ~Check(TRUE, task) THEN pending' = NoQuery /\ UNCHANGED <<counter, net, task>>
                      ELSE Query("check", checkMessage) /\ task' = [NoTask EXCEPT !.phase = "check"]
              [] a.what = "check" ->
                   /\ Step([task EXCEPT !.state = parseMessage(a.mask)], 1) /\ UNCHANGED <<online, attempt, quirks>>
              [] a.what = "set" ->
                   /\ Step(task, task.i + 1) /\ UNCHANGED <<online, attempt, quirks>>
    /\ UNCHANGED <<wanted, closed, socket, timer, device, actions, faults, lost>>

\* no answer within three seconds: of an authentication, connect fails; of an enforcement, it is logged
queryTimeout ==
  /\ pending # NoQuery /\ Fault /\ pending' = NoQuery
  /\ attempt' = IF pending.what = "auth" THEN "rejected" ELSE attempt
  /\ task' = IF pending.what = "auth" THEN task ELSE NoTask
  /\ UNCHANGED <<wanted, online, closed, socket, timer, counter, net, answers, device, fresh, actions, lost, quirks>>

EnforcementCancelled ==
  /\ task.phase = "cancelled" /\ task' = NoTask
  /\ UNCHANGED <<wanted, online, closed, attempt, socket, timer, counter, pending, net, answers, device, fresh, actions,
                 faults, lost, quirks>>

(***************************************************************************)
(* The device and the network.  A message that arrives after its query     *)
(* ended still changes the outputs.                                        *)
(***************************************************************************)
Serve ==
  \E q \in net :
    /\ net' = net \ {q} /\ device' = Applied(device, q.msg)
    /\ answers' = answers \cup {[id |-> q.id, what |-> q.what, mask |-> device']}
    /\ LET turned == {i \in Outputs : IsSet(device', i) # IsSet(device, i)}
       IN fresh' = fresh \ turned /\ task' = [task EXCEPT !.touched = IF q = pending THEN @ ELSE @ \cup turned]
    /\ UNCHANGED <<wanted, online, closed, attempt, socket, timer, counter, pending, actions, faults, lost, quirks>>

\* a datagram is lost, or an answer comes twice
NetworkFault ==
  /\ lost < MaxLost /\ lost' = lost + 1
  /\ \/ \E q \in net : net' = net \ {q} /\ UNCHANGED answers
     \/ \E a \in answers : answers' = answers \ {a} /\ UNCHANGED net
     \/ /\ \E i \in 1..counter \ {pending.id} :
             answers' = answers \cup {[id |-> i, what |-> "check", mask |-> device]}
        /\ UNCHANGED net
  /\ UNCHANGED <<wanted, online, closed, attempt, socket, timer, counter, pending, task, device, fresh, actions, faults,
                 quirks>>

\* somebody presses a button of the device
Pressed ==
  /\ actions < MaxActions /\ actions' = actions + 1
  /\ \E i \in Outputs : device' = (IF IsSet(device, i) THEN device - Bit(i) ELSE device + Bit(i)) /\ fresh' = fresh \ {i}
                        /\ task' = [task EXCEPT !.touched = @ \cup {i}]
  /\ UNCHANGED <<wanted, online, closed, attempt, socket, timer, counter, pending, net, answers, faults, lost, quirks>>

destroy ==
  /\ ~closed /\ closed' = TRUE /\ disconnect /\ timer' = FALSE /\ task' = Torn(task)
  /\ attempt' = CASE attempt = "auth" -> "rejected" [] attempt = "opening" -> "none" [] OTHER -> attempt
  /\ UNCHANGED <<wanted, device, fresh, actions, faults, lost, quirks>>

Next ==
  \/ Resolved \/ Bound \/ SocketError \/ ConnectFails \/ reconnect \/ doEnforceState \/ setOutput \/ Answered
  \/ queryTimeout \/ EnforcementCancelled \/ Serve \/ NetworkFault \/ Pressed \/ destroy

Spec == Init /\ [][Next]_vars

(***************************************************************************)
(* Properties.                                                             *)
(***************************************************************************)
TypeOK ==
  /\ wanted \in [Outputs -> BOOLEAN] /\ attempt \in {"none", "resolving", "opening", "auth", "rejected"}
  /\ task.phase \in {"idle", "check", "set", "cancelled"} /\ fresh \subseteq Outputs /\ (online => socket)
  /\ quirks \subseteq {"early"}

\* A device never gives up and never connects twice: as long as the component exists, either it is
\* online, or one connect() is in progress, or the timer of the next one is armed, never two of them
\* (onError of the socket and of connect follow each other).  A component that is gone is none of
\* these for long, unless it went during the name resolution ("early"), which then connects for good.
KeepsTrying ==
  /\ ~closed => Cardinality({x \in {"online", "timer", "attempt"} :
                               CASE x = "online" -> online [] x = "timer" -> timer /\ attempt # "rejected"
                                 [] x = "attempt" -> attempt # "none"}) = 1
  /\ closed => ~timer /\ (online => "early" \in quirks)

\* An enforcement that came to its end left the device as wanted: of the outputs that nobody changed
\* since it read them, each is as the component shows it, whatever was lost, late or came twice, and
\* whatever was asked while it waited for the device.
Enforced == \A i \in fresh : IsSet(device, i) = wanted[i]
=============================================================================
