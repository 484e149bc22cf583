-------------------------------- MODULE Mpd --------------------------------
(***************************************************************************)
(* The music driver, mylife-home-core-plugins-driver-mpd: the component    *)
(* (mpd.ts) over a client of the MPD protocol (engine/client.ts).  The     *)
(* protocol has no identifiers: answers come in the order of the commands, *)
(* and the client keeps a queue of handlers.  Between commands the client  *)
(* idles: `idle' is answered when something changes on the server, or by a *)
(* `noidle', which a server that does not idle ignores.                    *)
(***************************************************************************)
EXTENDS Integers, Sequences, SequencesExt, FiniteSets

CONSTANTS
  Volumes,          \* volumes used
  MaxActions,       \* bound: actions of the component
  MaxChanges,       \* bound: changes made on the server by others
  MaxFaults,        \* bound: errors and ends of connections
  MaxSetups         \* bound: clients

VARIABLES
  \* the component
  alive, online, playing, volume, delayed,
  \* its client: "none", "connecting", "ready" or "gone" (the server ended the connection)
  client, idling, handlers,
  \* the wires, and the server
  toServer, toClient, idle, pending, srv,
  setups, actions, changes, faults,
  threw,            \* history: an assertion of the client failed, or there was no client
  quirks            \* history: see MpdShows

vars == <<alive, online, playing, volume, delayed, client, idling, handlers, toServer, toClient, idle, pending, srv,
          setups, actions, changes, faults, threw, quirks>>
comp == <<alive, online, playing, volume>>
Init ==
  /\ alive = TRUE /\ online = FALSE /\ playing = FALSE /\ volume = 0 /\ delayed = FALSE
  /\ client = "connecting" /\ idling = FALSE /\ handlers = <<>> /\ toServer = <<>> /\ toClient = <<>>
  /\ idle = FALSE /\ pending = FALSE /\ srv = [playing |-> FALSE, volume |-> 0]
  /\ setups = 1 /\ actions = 0 /\ changes = 0 /\ faults = 0 /\ threw = FALSE /\ quirks = {}

(***************************************************************************)
(* The client of the protocol.  Handlers: "idle", "status", and "cmd" for  *)
(* a command that is followed by a refresh.                                *)
(***************************************************************************)
\* sendCommand, after the handlers hs and the requests out
sendCommand(cmd, handler, hs, out) ==
  [handlers |-> hs \o <<handler, "idle">>, out |-> out \o <<[op |-> "noidle"], cmd, [op |-> "idle"]>>]
Status == [op |-> "status"]
refresh(hs, out) == sendCommand(Status, "status", hs, out)

idleResultTwice(changed, hs, out) ==
  LET r == IF changed THEN refresh(hs, out) ELSE [handlers |-> hs, out |-> out]
  IN [handlers |-> Append(r.handlers, "idle"), out |-> Append(r.out, [op |-> "idle"])]
\* handleIdleResultsLoop: 'system' events refresh first; then the client idles again if it has nothing to wait for
idleResult(changed, hs, out) ==
  LET r == IF changed THEN refresh(hs, out) ELSE [handlers |-> hs, out |-> out]
  IN IF r.handlers = <<>> THEN [handlers |-> <<"idle">>, out |-> Append(r.out, [op |-> "idle"])] ELSE r

NoClient == idling' = FALSE /\ handlers' = <<>> /\ toServer' = <<>> /\ toClient' = <<>> /\ idle' = FALSE
\* setup: offline, with a new client
setup ==
  /\ online' = FALSE /\ playing' = FALSE /\ volume' = 0 /\ client' = "connecting" /\ setups' = setups + 1 /\ NoClient

(***************************************************************************)
(* receive: the answers, one at a time.                                    *)
(***************************************************************************)
onWelcome ==
  /\ client = "connecting" /\ client' = "ready"
  \* setupIdling, then 'ready': refresh
  /\ idling' = TRUE
  /\ LET r == refresh(<<"idle">>, <<[op |-> "idle"]>>) IN handlers' = r.handlers /\ toServer' = r.out
  /\ UNCHANGED <<alive, online, playing, volume, delayed, toClient, idle, pending, srv, setups, actions, changes, faults,
                 threw, quirks>>

receive ==
  /\ client = "ready" /\ toClient # <<>> /\ toClient' = Tail(toClient)
  /\ LET msg == Head(toClient)
         hs == Tail(handlers)
     IN CASE Head(handlers) = "idle" ->
               /\ LET r == idleResult(msg.changed, hs, toServer) IN handlers' = r.handlers /\ toServer' = r.out
               /\ UNCHANGED <<online, playing, volume>>
          [] Head(handlers) = "cmd" ->
               /\ LET r == refresh(hs, toServer) IN handlers' = r.handlers /\ toServer' = r.out
               /\ UNCHANGED <<online, playing, volume>>
          [] Head(handlers) = "status" ->
               /\ handlers' = hs /\ online' = TRUE /\ playing' = msg.playing /\ volume' = msg.volume
               /\ UNCHANGED toServer
  /\ UNCHANGED <<alive, delayed, client, idling, idle, pending, srv, setups, actions, changes, faults, threw, quirks>>

(***************************************************************************)
(* The server: it answers the commands in order; while it idles it only    *)
(* listens to noidle.                                                      *)
(***************************************************************************)
Answer(of, changed) == [of |-> of, changed |-> changed, playing |-> srv.playing, volume |-> srv.volume]
Apply(op) ==
  CASE op = "play" -> [srv EXCEPT !.playing = TRUE]
    [] op = "pause" -> [srv EXCEPT !.playing = FALSE]
    [] op = "next" -> srv

Serve ==
  /\ client = "ready" /\ toServer # <<>> /\ toServer' = Tail(toServer)
  /\ LET req == Head(toServer)
     IN CASE req.op = "noidle" ->
               /\ toClient' = IF idle THEN Append(toClient, Answer("idle", FALSE)) ELSE toClient
               /\ idle' = FALSE /\ UNCHANGED <<srv, pending>>
          [] req.op = "idle" ->
               /\ IF pending THEN toClient' = Append(toClient, Answer("idle", TRUE)) /\ idle' = FALSE
                  ELSE idle' = TRUE /\ UNCHANGED toClient
               /\ pending' = FALSE /\ UNCHANGED srv
          [] req.op = "status" ->
               toClient' = Append(toClient, Answer("status", FALSE)) /\ UNCHANGED <<idle, srv, pending>>
          [] req.op = "setvol" ->
               /\ toClient' = Append(toClient, Answer("cmd", FALSE)) /\ srv' = [srv EXCEPT !.volume = req.arg]
               /\ pending' = TRUE /\ UNCHANGED idle
          [] req.op \in {"play", "pause", "next"} ->
               /\ toClient' = Append(toClient, Answer("cmd", FALSE)) /\ srv' = Apply(req.op)
               /\ pending' = TRUE /\ UNCHANGED idle
  /\ UNCHANGED <<alive, online, playing, volume, delayed, client, idling, handlers, setups, actions, changes, faults, threw,
                 quirks>>

ServerChanges ==
  /\ changes < MaxChanges /\ changes' = changes + 1
  /\ \E p \in BOOLEAN, v \in Volumes : srv' = [playing |-> p, volume |-> v] /\ srv' # srv
  /\ IF idle THEN toClient' = Append(toClient, [of |-> "idle", changed |-> TRUE, playing |-> srv'.playing, volume |-> srv'.volume])
                  /\ idle' = FALSE /\ UNCHANGED pending
     ELSE pending' = TRUE /\ UNCHANGED <<toClient, idle>>
  /\ UNCHANGED <<alive, online, playing, volume, delayed, client, idling, handlers, toServer, setups, actions, faults, threw,
                 quirks>>

(***************************************************************************)
(* Faults: an error destroys the client and tries again after a while; a   *)
(* connection that the server ends is only logged; a status that is        *)
(* refused starts over at once.                                            *)
(***************************************************************************)
Fault == faults < MaxFaults /\ faults' = faults + 1 /\ UNCHANGED <<alive, srv, pending, actions, changes, threw>>

onError ==
  /\ client # "none" /\ Fault /\ client' = "none" /\ delayed' = TRUE /\ NoClient
  /\ quirks' = quirks \cup (IF online THEN {"unplugged"} ELSE {})
  /\ UNCHANGED <<online, playing, volume, setups>>
onClose ==
  /\ client \in {"connecting", "ready"} /\ Fault /\ client' = "gone"
  /\ toServer' = <<>> /\ toClient' = <<>> /\ idle' = FALSE /\ quirks' = quirks \cup {"closed"}
  /\ UNCHANGED <<online, playing, volume, delayed, idling, handlers, setups>>
statusRefused ==
  /\ client = "ready" /\ handlers # <<>> /\ Head(handlers) = "status" /\ toClient # <<>> /\ setups < MaxSetups
  /\ Fault /\ setup /\ UNCHANGED <<delayed, quirks>>

setupTimeout ==
  /\ delayed /\ alive /\ setups < MaxSetups /\ delayed' = FALSE /\ setup
  /\ UNCHANGED <<alive, pending, srv, actions, changes, faults, threw, quirks>>

(***************************************************************************)
(* The actions of the component.                                           *)
(***************************************************************************)
\* without a client, or against the assertion of sendCommand
sendAndRefresh(cmd) ==
  IF ~idling THEN threw' = TRUE /\ UNCHANGED <<handlers, toServer>>
  ELSE LET r == sendCommand(cmd, "cmd", handlers, toServer)
       IN /\ handlers' = r.handlers /\ toServer' = IF client = "gone" THEN toServer ELSE r.out
          /\ UNCHANGED threw

Act ==
  /\ alive /\ online /\ actions < MaxActions /\ actions' = actions + 1
  /\ UNCHANGED <<alive, online, playing, volume, delayed, client, idling, toClient, idle, pending, srv, setups, changes,
                 faults, quirks>>
toggle == Act /\ sendAndRefresh([op |-> IF playing THEN "pause" ELSE "play"])
command == Act /\ \E op \in {"play", "pause", "next"} : sendAndRefresh([op |-> op])
setVolume == Act /\ \E v \in Volumes : sendAndRefresh([op |-> "setvol", arg |-> v])

destroy ==
  /\ alive /\ alive' = FALSE /\ client' = "none" /\ delayed' = FALSE /\ NoClient
  /\ UNCHANGED <<online, playing, volume, pending, srv, setups, actions, changes, faults, threw, quirks>>

Next ==
  \/ onWelcome \/ receive \/ Serve \/ ServerChanges \/ onError \/ onClose \/ statusRefused \/ setupTimeout
  \/ toggle \/ command \/ setVolume \/ destroy

Spec == Init /\ [][Next]_vars

(***************************************************************************)
(* Properties.                                                             *)
(***************************************************************************)
TypeOK ==
  /\ client \in {"none", "connecting", "ready", "gone"} /\ online \in BOOLEAN /\ playing \in BOOLEAN
  /\ volume \in Volumes \cup {0} /\ (idling => client \in {"ready", "gone"})
  /\ quirks \subseteq {"unplugged", "closed"}

Expected == SelectSeq(toServer, LAMBDA req : req.op # "noidle")
KindOf(op) == IF op \in {"idle", "status"} THEN op ELSE "cmd"

\* The protocol has no identifiers: every answer reaches the handler of its own command, whatever the
\* order of commands, changes of the server and noidle (handleMessage, handleIdleResultsLoop).
AnswersMatched ==
  client = "ready" =>
    LET answered == [i \in 1..Len(toClient) |-> toClient[i].of]
        asked == [i \in 1..Len(Expected) |-> KindOf(Expected[i].op)]
    IN handlers = answered \o (IF idle THEN <<"idle">> ELSE <<>>) \o asked

\* A component that waits for nothing but a change shows what the server plays, and is online; no action
\* fails.  An error leaves the component online without a client until the next attempt ("unplugged"),
\* and a connection that the server ends is never made again ("closed").
MpdShows ==
  /\ threw => "unplugged" \in quirks
  /\ client = "ready" /\ idle /\ toServer = <<>> /\ toClient = <<>> =>
       online /\ playing = srv.playing /\ volume = srv.volume
=============================================================================
