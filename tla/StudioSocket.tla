---------------------------- MODULE StudioSocket ----------------------------
(***************************************************************************)
(* The calls of the studio front end to its server, over a socket that is  *)
(* lost and comes back (rx-socket.ts, the session manager), and the first  *)
(* thing that rides on them: the status bar, which asks for a notifier as  *)
(* soon as it is online and shows what the notifier says                   *)
(* (online-status, status-notifier.ts).                                    *)
(*                                                                         *)
(* The server learns of a loss after the browser, perhaps after it is back *)
(* with a new session.  The identifiers of notifiers are unique in a       *)
(* session only, and the table of the status notifiers is keyed by them.   *)
(***************************************************************************)
EXTENDS Naturals, Sequences, SequencesExt, FiniteSets, TLC

CONSTANTS
  MaxConnections,  \* bound: connections of the browser
  MaxCalls,        \* bound: calls of the browser
  MaxEvents        \* bound: calls that time out and changes of the state of the bus

VARIABLES
  connected,    \* socket.connected, which is also status.online of the store
  calls,        \* the calls that listen for their response: id -> service
  running,      \* status.runningRequests of the store
  error,        \* status.error of the store
  notifierId,   \* onlineStatus.notifierId of the store; 0: none
  status,       \* onlineStatus.status of the store
  posted,       \* notifications on their way through asyncScheduler
  buffered,     \* notifications in bufferDebounceTime
  nextId,       \* requestIdGenerator
  toServer, toClient,   \* the messages on the socket
  session,      \* the session of the browser; 0: the other browser's, never ours
  sessions,     \* the sessions the server knows: session -> [generator, ids]
  notifiers,    \* StatusNotifier.notifiers: notifier id -> session
  serving,      \* requests of the session whose handler is not done
  immediate,    \* notifiers whose first status waits for setImmediate
  transport,    \* transport.online
  ended,        \* how the calls ended: id -> outcomes
  startTimedOut,      \* a start call of this connection timed out
  collided,     \* a notifier took the place of another in the table
  timeouts, flips

vars == <<connected, calls, running, error, notifierId, status, posted, buffered, nextId, toServer,
          toClient, session, sessions, notifiers, serving, immediate, transport, ended, startTimedOut,
          collided, timeouts, flips>>

Outcomes == {"result", "error", "refused", "disconnected", "timeout"}
Unknown == "unknown"
Flip(value) == IF value = "online" THEN "offline" ELSE "online"
Without(f, S) == [x \in DOMAIN f \ S |-> f[x]]
With(f, x, v) == (x :> v) @@ f

(* wrapServiceCall and serviceCall: refused while disconnected, else the   *)
(* request is sent and the call listens.                                   *)
call(service) ==
  /\ nextId' = nextId + 1
  /\ calls' = With(calls, nextId, service)
  /\ running' = running \cup {nextId}
  /\ toServer' = Append(toServer, [id |-> nextId, service |-> service])
  /\ ended' = With(ended, nextId, <<>>)

(* The end of calls: the listeners are taken off, the running requests     *)
(* forget them; an error is shown.                                         *)
cleanup(ids, outcome) ==
  /\ calls' = Without(calls, ids)
  /\ running' = running \ ids
  /\ ended' = [id \in DOMAIN ended |-> IF id \in ids THEN Append(ended[id], outcome) ELSE ended[id]]
  /\ error' = (error \/ (ids # {} /\ outcome # "result"))

(* startNotifyEpic of the status bar, on NEW tab and on ONLINE: its tab is *)
(* always there.                                                           *)
startNotify == notifierId = 0 /\ call("start")

(* The connection: a session on the server, online in the store, a call to *)
(* start the notifier.                                                     *)
Connect ==
  /\ ~connected /\ session < MaxConnections /\ nextId <= MaxCalls
  /\ connected' = TRUE
  /\ session' = session + 1
  /\ sessions' = With(sessions, session + 1, [generator |-> 0, ids |-> {}])
  /\ startTimedOut' = FALSE
  /\ startNotify
  /\ UNCHANGED <<error, notifierId, status, posted, buffered, toClient, notifiers, serving,
                 immediate, transport, collided, timeouts, flips>>

(* The loss, seen by the browser: offline in the store, which forgets the  *)
(* notifier and the status; every open call is rejected.                   *)
Disconnect ==
  /\ connected
  /\ connected' = FALSE
  /\ notifierId' = 0
  /\ status' = IF notifierId # 0 THEN Unknown ELSE status
  /\ toServer' = <<>> /\ toClient' = <<>> /\ serving' = {} /\ immediate' = <<>>
  /\ cleanup(DOMAIN calls, "disconnected")
  /\ UNCHANGED <<posted, buffered, nextId, session, sessions, notifiers, transport, startTimedOut, collided,
                 timeouts, flips>>

(* The same, seen by the server: the session and its notifiers go, by id.  *)
SessionClose(s) ==
  /\ s \in DOMAIN sessions /\ (s = session => ~connected)
  /\ sessions' = Without(sessions, {s})
  /\ notifiers' = Without(notifiers, sessions[s].ids)
  /\ UNCHANGED <<connected, calls, running, error, notifierId, status, posted, buffered, nextId,
                 toServer, toClient, session, serving, immediate, transport, ended, startTimedOut, collided,
                 timeouts, flips>>

(* SessionNotifierManager.createNotifier.                                  *)
createNotifier(s) ==
  LET id == sessions[s].generator + 1 IN
  /\ sessions' = [sessions EXCEPT ![s] = [generator |-> id, ids |-> @.ids \cup {id}]]
  /\ notifiers' = With(notifiers, id, s)
  /\ collided' = (collided \/ id \in DOMAIN notifiers)

(* Another browser opens and gets its status notifier.                     *)
OtherStarts ==
  /\ 0 \in DOMAIN sessions /\ sessions[0].generator = 0
  /\ createNotifier(0)
  /\ UNCHANGED <<connected, calls, running, error, notifierId, status, posted, buffered, nextId,
                 toServer, toClient, session, serving, immediate, transport, ended, startTimedOut, timeouts,
                 flips>>

Response(id, outcome, notifier) ==
  [type |-> "response", id |-> id, outcome |-> outcome, notifier |-> notifier]
Notification(notifier, value) == [type |-> "notification", notifier |-> notifier, status |-> value]

(* runServiceHandler: the response leaves when the handler is done.        *)
(* startNotify of StatusNotifier answers at once, and sends the status     *)
(* after that (setImmediate).                                              *)
startHandlerEager(request) ==
  LET id == sessions[session].generator + 1 IN
  /\ createNotifier(session)
  /\ toClient' = toClient \o <<Notification(id, transport), Response(request.id, "result", id)>>
  /\ UNCHANGED <<serving, immediate>>
startHandler(request) ==
  LET id == sessions[session].generator + 1 IN
  /\ createNotifier(session)
  /\ immediate' = Append(immediate, id)
  /\ toClient' = Append(toClient, Response(request.id, "result", id))
  /\ UNCHANGED serving
runServiceHandler ==
  /\ connected /\ toServer # <<>>
  /\ toServer' = Tail(toServer)
  /\ IF Head(toServer).service = "start"
     THEN startHandler(Head(toServer))
     ELSE /\ serving' = serving \cup {Head(toServer).id}
          /\ UNCHANGED <<sessions, notifiers, immediate, toClient, collided>>
  /\ UNCHANGED <<connected, calls, running, error, notifierId, status, posted, buffered, nextId, session,
                 transport, ended, startTimedOut, timeouts, flips>>

(* A slow handler ends, or throws; handlers run side by side.              *)
executeServiceHandler(id, outcome) ==
  /\ id \in serving
  /\ serving' = serving \ {id}
  /\ toClient' = Append(toClient, Response(id, outcome, 0))
  /\ UNCHANGED <<connected, calls, running, error, notifierId, status, posted, buffered, nextId, toServer,
                 session, sessions, notifiers, immediate, transport, ended, startTimedOut, collided,
                 timeouts, flips>>

(* setImmediate of startNotify.                                            *)
FirstStatus ==
  /\ immediate # <<>>
  /\ immediate' = Tail(immediate)
  /\ toClient' = Append(toClient, Notification(Head(immediate), transport))
  /\ UNCHANGED <<connected, calls, running, error, notifierId, status, posted, buffered, nextId, toServer,
                 session, sessions, notifiers, serving, transport, ended, startTimedOut, collided,
                 timeouts, flips>>

(* onOnlineChange: notifyAll, each notifier to the session it has kept.    *)
onOnlineChange ==
  /\ flips + timeouts < MaxEvents
  /\ flips' = flips + 1
  /\ transport' = Flip(transport)
  /\ LET ours == {n \in DOMAIN notifiers : notifiers[n] = session /\ connected}
         sorted == SetToSortSeq(ours, <)
     IN toClient' = toClient \o [k \in DOMAIN sorted |-> Notification(sorted[k], Flip(transport))]
  /\ UNCHANGED <<connected, calls, running, error, notifierId, status, posted, buffered, nextId, toServer,
                 session, sessions, notifiers, serving, immediate, ended, startTimedOut, collided, timeouts>>

(* A message reaches the browser: a response that no call listens for is   *)
(* ignored, a notification goes through asyncScheduler.                    *)
onMessage ==
  /\ toClient # <<>>
  /\ toClient' = Tail(toClient)
  /\ LET message == Head(toClient) IN
     IF message.type = "notification"
     THEN posted' = Append(posted, message) /\ UNCHANGED <<calls, running, error, ended, notifierId>>
     ELSE IF message.id \in DOMAIN calls
     THEN /\ cleanup({message.id}, message.outcome)
          /\ notifierId' = IF calls[message.id] = "start" THEN message.notifier ELSE notifierId
          /\ UNCHANGED posted
     ELSE UNCHANGED <<calls, running, error, ended, posted, notifierId>>
  /\ UNCHANGED <<connected, status, buffered, nextId, toServer, session, sessions, notifiers, serving,
                 immediate, transport, startTimedOut, collided, timeouts, flips>>

(* fetchEpic: the notifications of the current notifier are kept, and the  *)
(* last of those of 100 ms is shown.                                       *)
fetch ==
  /\ posted # <<>>
  /\ posted' = Tail(posted)
  /\ buffered' = IF Head(posted).notifier = notifierId THEN Append(buffered, Head(posted).status) ELSE buffered
  /\ UNCHANGED <<connected, calls, running, error, notifierId, status, nextId, toServer, toClient, session,
                 sessions, notifiers, serving, immediate, transport, ended, startTimedOut, collided,
                 timeouts, flips>>
applyUpdates ==
  /\ buffered # <<>>
  /\ status' = Last(buffered)
  /\ buffered' = <<>>
  /\ UNCHANGED <<connected, calls, running, error, notifierId, posted, nextId, toServer, toClient, session,
                 sessions, notifiers, serving, immediate, transport, ended, startTimedOut, collided,
                 timeouts, flips>>

(* 60 s without a response.                                                *)
onTimeout(id) ==
  /\ id \in DOMAIN calls /\ flips + timeouts < MaxEvents
  /\ timeouts' = timeouts + 1
  /\ startTimedOut' = (startTimedOut \/ calls[id] = "start")
  /\ cleanup({id}, "timeout")
  /\ UNCHANGED <<connected, notifierId, status, posted, buffered, nextId, toServer, toClient, session,
                 sessions, notifiers, serving, immediate, transport, collided, flips>>

(* Another call of the front end, refused while disconnected.              *)
Request ==
  /\ nextId <= MaxCalls
  /\ IF connected
     THEN call("slow") /\ UNCHANGED error
     ELSE /\ nextId' = nextId + 1
          /\ ended' = With(ended, nextId, <<"refused">>)
          /\ error' = TRUE
          /\ UNCHANGED <<calls, running, toServer>>
  /\ UNCHANGED <<connected, notifierId, status, posted, buffered, toClient, session, sessions, notifiers,
                 serving, immediate, transport, startTimedOut, collided, timeouts, flips>>

(* The user opens a tab.                                                   *)
NewTab ==
  /\ connected /\ nextId <= MaxCalls
  /\ startNotify
  /\ UNCHANGED <<connected, error, notifierId, status, posted, buffered, toClient, session, sessions,
                 notifiers, serving, immediate, transport, startTimedOut, collided, timeouts, flips>>

(* The user dismisses the error.                                           *)
clearError ==
  /\ error
  /\ error' = FALSE
  /\ UNCHANGED <<connected, calls, running, notifierId, status, posted, buffered, nextId, toServer, toClient,
                 session, sessions, notifiers, serving, immediate, transport, ended, startTimedOut,
                 collided, timeouts, flips>>

Init ==
  /\ connected = FALSE /\ calls = <<>> /\ running = {} /\ error = FALSE
  /\ notifierId = 0 /\ status = Unknown /\ posted = <<>> /\ buffered = <<>> /\ nextId = 1
  /\ toServer = <<>> /\ toClient = <<>> /\ session = 0
  /\ sessions \in {<<>>, 0 :> [generator |-> 0, ids |-> {}]}
  /\ notifiers = <<>> /\ serving = {} /\ immediate = <<>>
  /\ transport = "online" /\ ended = <<>> /\ startTimedOut = FALSE /\ collided = FALSE
  /\ timeouts = 0 /\ flips = 0

Next ==
  \/ Connect \/ Disconnect
  \/ \E s \in DOMAIN sessions : SessionClose(s)
  \/ OtherStarts
  \/ runServiceHandler
  \/ \E id \in serving, outcome \in {"result", "error"} : executeServiceHandler(id, outcome)
  \/ FirstStatus \/ onOnlineChange \/ onMessage \/ fetch \/ applyUpdates
  \/ \E id \in DOMAIN calls : onTimeout(id)
  \/ Request \/ NewTab \/ clearError

Spec == Init /\ [][Next]_vars

(***************************************************************************)
(* Properties                                                              *)
(***************************************************************************)
TypeOK ==
  /\ connected \in BOOLEAN /\ error \in BOOLEAN
  /\ status \in {"online", "offline", Unknown}
  /\ \A id \in DOMAIN ended : \A k \in DOMAIN ended[id] : ended[id][k] \in Outcomes
  /\ session \in 0 .. MaxConnections

(* A call ends once, whatever comes first of the response, the loss and    *)
(* the timeout, and a late response changes nothing; the requests shown as *)
(* running are the calls still open; none is open while disconnected.      *)
CallsEndOnce ==
  /\ running = DOMAIN calls
  /\ \A id \in DOMAIN ended : Len(ended[id]) = IF id \in DOMAIN calls THEN 0 ELSE 1
  /\ ~connected => calls = <<>>

(* Once nothing is on its way, the status bar shows the state of the bus,  *)
(* as long as no notifier took the place of another in the table of the    *)
(* server; it is blind only after a start call that timed out.             *)
Quiescent ==
  /\ connected /\ calls = <<>> /\ toClient = <<>> /\ immediate = <<>> /\ posted = <<>>
  /\ buffered = <<>>
StatusShown ==
  Quiescent /\ ~collided =>
    \/ notifierId # 0 /\ notifiers[notifierId] = session /\ status = transport
    \/ notifierId = 0 /\ startTimedOut
====
