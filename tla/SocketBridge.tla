---------------------------- MODULE SocketBridge ----------------------------
(***************************************************************************)
(* A Client over a socket bridge: ClientRecovery and SocketWorker on their *)
(* shared channels.  The client sends initialize when it is built, before  *)
(* there is a connection, and the first connection carries it.             *)
(***************************************************************************)
EXTENDS ClientRecovery, SocketWorker

CONSTANT MaxUpsets    \* bound: restart() calls and faults together

ASSUME UpsetsAssumption == MaxUpsets \in Nat

vars == <<clientVars, workerVars, peerVars, channelVars, mode>>

Init ==
  /\ ClientInit /\ WorkerInit
  /\ notices = <<>> /\ events = <<>> /\ sent = {<<0, "initialize">>}

\* Client::restart returns Unrestartable for a listen client.
HostNext ==
  \/ mode = "Connect" /\ RestartCall
  \/ RestartReturn \/ ShutdownCall \/ DropClient \/ Poll \/ Receive

Next ==
  /\ \/ HostNext /\ UNCHANGED <<workerVars, peerVars, mode>>
     \/ (WorkerNext \/ PeerNext) /\ UNCHANGED clientVars
  /\ calls' + faults' <= MaxUpsets

Spec == Init /\ [][Next]_vars

----------------------------------------------------------------------------
\* Every variable has its type.
TypeOK == ChannelTypes /\ ClientTypes /\ WorkerTypes /\ PeerTypes

\* The debug_assert of Worker::control: a Restart is never behind the generation the worker
\* reached by the time it reads it, whatever dials ran out of budget, connections were lost and
\* stops were acted on meanwhile.
NeverBehind ==
  \A i \in 1..Len(notices) : notices[i].type = "Restart" => notices[i].gen >= workerGen

\* A server that never answered initialize gets no shutdown request, although the worker acts on
\* what the client believed of a connection that may have been replaced since.
PoliteGoodbye == \A g \in {pair[1] : pair \in sent} : <<g, "shutdown">> \in sent => g \in acked

\* What no step may break: the types, the order of generations and the manners of a shutdown.
SocketSafety == TypeOK /\ NeverBehind /\ PoliteGoodbye

\* Nothing is on its way between the client and its worker.
Quiet ==
  notices = <<>> /\ events = <<>> /\ local = <<>> /\ inbox = <<>> /\ ~calling /\ ~dropped

\* The two halves never wait for each other: once every message is delivered, a client that
\* expects a server has it, or waits for a dial, an accept or a backoff under the generation it
\* will accept; a client that gave up has a worker that still hears restart(); a client that is
\* shut has a worker on its way out, and one whose worker stopped knows it.
NoStandoff ==
  Quiet =>
    CASE conn = "Live"         -> \/ worker \in {"Live", "Draining"} /\ socket = link
                                  \/ worker \in {"Dialing", "Accepting"} /\ queued /\ workerGen = link
      [] conn = "Reconnecting" -> worker \in {"Dialing", "Backoff"} /\ ~queued /\ workerGen = clientGen
      [] conn = "Stopped"      -> \/ worker \in {"Idle", "Waiting"} /\ workerGen = clientGen
                                  \/ worker = "Closing" /\ ending = "Idle" /\ workerGen = clientGen
      [] OTHER                 -> \/ worker = "Closing" /\ ending = "Stopped"
                                  \/ mode = "Listen" /\ worker = "Draining"
                                  \/ worker = "Done" /\ status.kind = "Stopped"
----------------------------------------------------------------------------
\* Why SocketSafety holds, as an inductive invariant.

\* The last connection was opened under the worker's generation or an older one, and there is one
\* to close; a worker that may open another without being told the generation has moved past it.
SocketIsBehind ==
  /\ socket <= workerGen
  /\ worker = "Live" => socket = workerGen
  /\ worker = "Closing" => socket # -1
  /\ worker \in {"Dialing", "Accepting", "Waiting", "Backoff"} => socket < workerGen

\* No socket is open that the worker does not hold.
OneSocket == open \subseteq (IF worker \in {"Live", "Closing"} THEN {socket} ELSE {})

\* Whoever believes that a server answered initialize heard it from that server.
HandshakeIsTrue ==
  /\ \A reply \in pipe : reply[2] = "initialized" => reply[1] \in acked
  /\ \A e \in InFlight : e.type = "Message" /\ e.arg = "initialized" => e.gen \in acked
  /\ \A e \in Carried(local) : e.type = "Status"
  /\ session = "Running" => link \in acked
  /\ \A n \in Carried(notices) : n.type = "Shutdown" /\ n.done => n.gen \in acked

SocketInv ==
  /\ TypeOK
  /\ WorkerInOrder(workerGen, worker \in {"Waiting", "Done"})
  /\ SocketIsBehind /\ OneSocket
  /\ HandshakeIsTrue /\ PoliteGoodbye
----------------------------------------------------------------------------
\* Why NoStandoff holds, as an inductive invariant on top of SocketInv.

\* The part the worker plays for the client.
WorkerPart ==
  CASE worker \in {"Live", "Draining"}     -> "Serving"
    [] worker \in {"Dialing", "Accepting"} -> IF queued THEN "Serving" ELSE "Trying"
    [] worker = "Backoff"                  -> "Trying"
    [] worker = "Idle"                     -> "Resting"
    [] worker = "Closing"                  -> IF ending = "Stopped" THEN "Leaving" ELSE "Resting"
    [] worker = "Done"                     -> "Gone"
    [] OTHER                               -> "Waiting"

\* Only the first dial holds the client's queue; a listener accepts once, and retries nothing.
FirstQueueOnly ==
  /\ queued => worker \in {"Dialing", "Accepting"}
  /\ worker = "Draining" => socket = workerGen
  /\ worker = "Accepting" => queued /\ mode = "Listen"
  /\ mode = "Listen" => worker \notin {"Dialing", "Waiting", "Backoff"}
  /\ cause # "Initialize"

SocketStands ==
  /\ LetGoBeforeReconnect /\ LinkIsCurrent /\ OnlyRestartsFollow /\ FirstQueueOnly
  /\ InStep(ClientSeen, WorkerSeen(workerGen, WorkerPart, socket, mode = "Listen"))
=============================================================================
