---------------------------- MODULE BrowserBridge ----------------------------
(***************************************************************************)
(* A Client over the browser bridge: ClientRecovery and BrowserTask on     *)
(* their shared channels, on one thread.                                   *)
(***************************************************************************)
EXTENDS ClientRecovery, BrowserTask

CONSTANT MaxUpsets    \* bound: restart() calls and faults together

vars == <<clientVars, taskVars, channelVars>>

Init ==
  /\ ClientInit /\ TaskInit
  /\ notices = <<>> /\ events = <<>> /\ sent = {<<0, "initialize">>}

HostNext == RestartCall \/ ShutdownCall \/ DropClient \/ Poll \/ Receive

\* Nothing else runs before restart() returns.
Next ==
  /\ IF calling THEN RestartReturn /\ UNCHANGED taskVars
     ELSE \/ HostNext /\ UNCHANGED taskVars
          \/ (TaskNext \/ PageNext) /\ UNCHANGED clientVars
  /\ calls' + faults' <= MaxUpsets

Spec == Init /\ [][Next]_vars

----------------------------------------------------------------------------
\* Every variable has its type.
TypeOK == ChannelTypes /\ ClientTypes /\ TaskTypes

\* The debug_assert of Task::control: a Restart is never behind the task.
NeverBehind ==
  \A i \in 1..Len(notices) : notices[i].type = "Restart" => notices[i].gen >= taskGen

\* A server that never answered initialize gets no shutdown request.
PoliteGoodbye == \A g \in {pair[1] : pair \in sent} : <<g, "shutdown">> \in sent => g \in acked

\* A signal left behind by a socket that is gone never passes for the next one's: the task only
\* sends on a socket that opened, and only gives up one it holds when that one closed or the
\* task itself let go of it.
SocketIsKnown ==
  /\ task \in {"Live", "Closing"} => phase \in {"Open", "Shut"}
  /\ task \in {"Dialing", "Redialing"} /\ phase = "Open" =>
       \E i \in 1..Len(signals) : signals[i] = Signal("Opened", socket)
  /\ phase = "Shut" => \E i \in 1..Len(signals) : signals[i] = Signal("Closed", socket)

\* "Announced from the callback, so it precedes every message of the socket": the client is told
\* of a connection before it gets a message of it.
AnnouncedFirst ==
  \A q \in {events, inbox} : \A i \in 1..Len(q) :
    q[i].type = "Reconnected" => ~\E j \in 1..i : q[j].type = "Message" /\ q[j].gen = q[i].gen

\* What no step may break.
BrowserSafety == TypeOK /\ NeverBehind /\ PoliteGoodbye /\ SocketIsKnown /\ AnnouncedFirst

\* Nothing is on its way between the client, its task and the page.
Quiet ==
  /\ notices = <<>> /\ events = <<>> /\ local = <<>> /\ inbox = <<>> /\ signals = <<>>
  /\ ~calling /\ ~dropped

\* The two halves never wait for each other, as in SocketBridge.
NoStandoff ==
  Quiet =>
    CASE conn = "Live"         -> \/ task = "Live" /\ socketGen = link
                                  \/ task = "Dialing" /\ queued /\ taskGen = link
      [] conn = "Reconnecting" -> task \in {"Dialing", "Redialing", "Backoff"} /\ ~queued /\ taskGen = clientGen
      [] conn = "Stopped"      -> \/ task \in {"Idle", "Waiting"} /\ taskGen = clientGen
                                  \/ task = "Closing" /\ ending = "Idle" /\ taskGen = clientGen
      [] OTHER                 -> \/ task = "Closing" /\ ending = "Stopped"
                                  \/ task = "Done" /\ status.kind = "Stopped"
----------------------------------------------------------------------------
\* Why BrowserSafety holds, as an inductive invariant.

\* The socket a state holds is the last one opened, and of the task's generation as long as the
\* task has not said goodbye to its server.
HeldIsLast ==
  /\ socket \in {NoSocket, sockets} /\ socketGen <= taskGen
  /\ task \in {"Waiting", "Backoff", "Idle", "Done"} => socket = NoSocket
  /\ task \in {"Dialing", "Redialing", "Live"} /\ socket # NoSocket => socketGen = taskGen

\* Signals are of sockets the task opened, and those of the socket it holds say what is so.
SignalsAreTrue ==
  \A i \in 1..Len(signals) :
    /\ signals[i].id <= sockets
    /\ signals[i] = Signal("Opened", socket) => phase \in {"Open", "Shut"} /\ opened = socketGen
    /\ signals[i] = Signal("Closed", socket) => phase = "Shut"

\* The held socket opened, and the task hears of it before it hears that it closed.
OpeningComes ==
  socket # NoSocket /\ \E i \in 1..Len(signals) :
    /\ signals[i] = Signal("Opened", socket)
    /\ \A j \in 1..Len(signals) : signals[j] = Signal("Closed", socket) => i < j

\* Each socket opens under a newer generation than the last that opened.
OpensOnce ==
  /\ opened <= taskGen
  /\ phase = "Connecting" => opened < socketGen
  /\ phase = "Open" => opened = socketGen
  /\ task \in {"Waiting", "Backoff"} => opened < taskGen
  /\ task \in {"Dialing", "Redialing"} => opened < taskGen \/ OpeningComes

\* No message is of a connection yet to open, and one that was polled came before any announcement
\* that was not.
MessagesFollow ==
  /\ \A e \in InFlight : e.type = "Message" => e.gen <= opened
  /\ \A i \in 1..Len(events), j \in 1..Len(inbox) :
       events[i].type = "Reconnected" /\ inbox[j].type = "Message" => events[i].gen # inbox[j].gen

\* Whoever believes that a server answered initialize heard it from that server.
HandshakeIsTrue ==
  /\ "initialized" \in pipe => socketGen \in acked
  /\ \A e \in InFlight : e.type = "Message" /\ e.arg = "initialized" => e.gen \in acked
  /\ \A e \in Carried(local) : e.type = "Status"
  /\ session = "Running" => link \in acked
  /\ \A n \in Carried(notices) : n.type = "Shutdown" /\ n.done => n.gen \in acked

BrowserInv ==
  /\ TypeOK
  /\ WorkerInOrder(taskGen, task \in {"Waiting", "Done"})
  /\ HeldIsLast /\ SignalsAreTrue /\ SocketIsKnown /\ OpensOnce
  /\ MessagesFollow /\ AnnouncedFirst
  /\ HandshakeIsTrue /\ PoliteGoodbye
----------------------------------------------------------------------------
\* Why NoStandoff holds, as an inductive invariant on top of BrowserInv.

\* The part the task plays for the client. A socket that opened serves it, although the task has
\* yet to hear of that.
TaskPart ==
  CASE task = "Live"                     -> "Serving"
    [] task \in {"Dialing", "Redialing"} -> IF queued \/ opened = taskGen THEN "Serving" ELSE "Trying"
    [] task = "Backoff"                  -> "Trying"
    [] task = "Idle"                     -> "Resting"
    [] task = "Closing"                  -> IF ending = "Stopped" THEN "Leaving" ELSE "Resting"
    [] task = "Done"                     -> "Gone"
    [] OTHER                             -> "Waiting"

TaskStands ==
  /\ LetGoBeforeReconnect /\ LinkIsCurrent /\ OnlyRestartsFollow
  /\ queued => task = "Dialing"
  /\ InStep(ClientSeen, WorkerSeen(taskGen, TaskPart, opened, FALSE))
=============================================================================
