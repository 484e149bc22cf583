------------------------------- MODULE MCBus -------------------------------
(* The bus from the side of an instance: its client against the broker, or *)
(* two remote calls over two clients that come and go.  One of the two     *)
(* moves in a behaviour (focus), the other stays in its initial state.     *)
EXTENDS BusClient

CONSTANTS call1, call2           \* remote calls

VARIABLES
  focus,
  callerConn, serverConn, phase, result, replies, brokerReplies, callerQueue, callerUp,
  callerDown, service, listening, created, unserving, served, brokerServed, serverQueue,
  serverUp, serverDown, running, executed, outcome, disturbed, early, drops, crashes

(* Two calls of a service that may be unserved, with a connection loss.    *)
R == INSTANCE Rpc WITH
       Calls <- {call1, call2}, MaxServices <- 1, MaxDrops <- 1, MaxCrashes <- 0,
       subscriptions <- replies

rpcVars == <<callerConn, serverConn, phase, result, replies, brokerReplies, callerQueue, callerUp,
  callerDown, service, listening, created, unserving, served, brokerServed, serverQueue, serverUp,
  serverDown, running, executed, outcome, disturbed, early, drops, crashes>>

BusInit == Init /\ R!Init /\ focus \in {"client", "calls"}

BusNext ==
  \/ focus = "client" /\ Next /\ UNCHANGED <<focus, rpcVars>>
  \/ focus = "calls" /\ R!Next /\ UNCHANGED <<focus, vars>>

(* The fairness of BusClient and of Rpc, each when it moves.               *)
BusFairness ==
  /\ \A h \in Handlers : WF_vars(focus = "client" /\ HandlerStep(h)) /\ WF_vars(focus = "client" /\ SleepOver(h))
  /\ WF_vars(focus = "client" /\ Receive)
  /\ WF_vars(focus = "client" /\ BrokerReceive)
  /\ WF_vars(focus = "client" /\ BrokerNotice)
  /\ WF_vars(focus = "client" /\ terminateSleepOver)
  /\ \A c \in {call1, call2} : WF_rpcVars(focus = "calls" /\ R!Timeout(c))
  /\ WF_rpcVars(focus = "calls" /\ R!CallerReceive)
  /\ WF_rpcVars(focus = "calls" /\ R!CallerToBroker)
  /\ WF_rpcVars(focus = "calls" /\ R!CallerConnect)

BusSpec == BusInit /\ [][BusNext]_<<focus, vars, rpcVars>> /\ BusFairness

-----------------------------------------------------------------------------
(* What is retained: the presence flag of an online client, the topics of  *)
(* its program unless a connection closed under its connect function, and  *)
(* nothing after a clean exit (client.ts clearResidentState, terminate;    *)
(* transport.ts; bus-publisher.ts).                                        *)
RetainedSound == focus = "client" => PresenceTrue /\ StatePublished /\ CleanExit

(* A client that stays connected comes online, and a dead process is seen  *)
(* offline unless it is started again (client.ts connect handler and       *)
(* will); every remote call ends, also one made while disconnected         *)
(* (rpc.ts).                                                               *)
PresenceSettles ==
  /\ focus = "client" => ComesOnline /\ WillClears
  /\ focus = "calls" => R!CallEnds
=============================================================================
