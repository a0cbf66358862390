----------------------------- MODULE BrowserTask -----------------------------
(***************************************************************************)
(* The browser WebSocket bridge: transport/websocket/browser.rs's Task,    *)
(* with the shutdown sequence of transport/lifecycle.rs, the page's socket *)
(* and its callbacks, and the server behind it.                            *)
(*                                                                         *)
(* Everything runs on the page's one thread: a callback, a call of the     *)
(* host and a wake of the task never run in the middle of one another.     *)
(* The callbacks of a socket only reach the task through a channel, so a   *)
(* signal may be taken when its socket is gone.  A dropped socket has no   *)
(* callbacks: what it was still to hand out goes nowhere.                  *)
(*                                                                         *)
(* Durations are left out: a budget, a deadline, a grace or a backoff may  *)
(* end whenever nothing else has woken the task.                           *)
(***************************************************************************)
EXTENDS BridgeChannels

CONSTANTS
  Timed,        \* whether the builder set an initialize_timeout
  MaxFaults     \* bound: failed attempts, timeouts and servers that close in a run

VARIABLES
  taskGen,      \* Task::generation
  task,         \* Task::state: Dialing, Redialing, Live, Waiting, Backoff, Idle, Closing; Done once run() returned
  queued,       \* Dialing holds the first connection's queue, which the client has
  socket,       \* the id of the Socket the state holds; NoSocket when it holds none
  sockets,      \* Task::sockets
  socketGen,    \* the generation the last socket was opened for
  phase,        \* what the page's socket of that id is: None, Connecting, Open, Shut
  opened,       \* the newest generation whose socket opened; -1 before the first
  deadline,     \* whether the Connection's deadline is armed; FALSE in every other state
  ending,       \* Closing's Ending: Stopped or Idle; Stopped in every other state
  step,         \* Closing's Sequence: Reply or Exit; Reply in every other state
  signals,      \* Task::signals
  pipe,         \* what the server sent that no callback was called for yet
  acked,        \* the generations whose server answered initialize with a result
  answered,     \* <<generation, message>>: what servers answered, each once
  faults        \* faults so far, capped by MaxFaults

socketVars == <<socket, sockets, socketGen, phase>>
peerVars == <<opened, acked, answered, faults>>
taskVars == <<taskGen, task, queued, socketVars, deadline, ending, step, signals, pipe, peerVars>>

NoSocket == -1

SignalTypes == {"Opened", "Closed", "Replied"}
Signal(type, id) == [type |-> type, id |-> id]

TaskTypes ==
  /\ task \in {"Dialing", "Redialing", "Live", "Waiting", "Backoff", "Idle", "Closing", "Done"}
  /\ taskGen \in Generation /\ socketGen \in Generation /\ opened \in Generation \cup {-1}
  /\ queued \in BOOLEAN /\ deadline \in BOOLEAN /\ sockets \in Nat /\ socket \in Nat \cup {NoSocket}
  /\ phase \in {"None", "Connecting", "Open", "Shut"} /\ (phase = "None" <=> socket = NoSocket)
  /\ ending \in {"Stopped", "Idle"} /\ step \in {"Reply", "Exit"}
  /\ signals \in Seq([type : SignalTypes, id : Nat]) /\ pipe \subseteq Replies
  /\ acked \subseteq Generation /\ answered \subseteq Generation \X Wire
  /\ faults \in 0..MaxFaults

\* start: the first socket has id 0 and opens before the task runs, or the browser refuses it.
TaskInit ==
  /\ task = "Dialing" /\ taskGen = 0 /\ queued = TRUE /\ sockets = 0 /\ socketGen = 0
  /\ \/ socket = 0 /\ phase = "Connecting" /\ faults = 0
     \/ socket = NoSocket /\ phase = "None" /\ faults = 1 /\ MaxFaults > 0
  /\ opened = -1 /\ deadline = FALSE /\ ending = "Stopped" /\ step = "Reply"
  /\ signals = <<>> /\ pipe = {} /\ acked = {} /\ answered = {}

Fault == faults < MaxFaults /\ faults' = faults + 1

Reported(event) == events' = Append(events, event)

\* Socket::open
OpenSocket(g) ==
  /\ sockets' = sockets + 1
  /\ socket' = sockets + 1 /\ socketGen' = g /\ phase' = "Connecting"
  /\ pipe' = {}

\* Drop for Socket: detached, and closed.
DropSocket ==
  /\ socket' = NoSocket /\ phase' = "None" /\ pipe' = {}
  /\ UNCHANGED <<sockets, socketGen>>

KeepSocket == UNCHANGED <<socketVars, pipe>>

\* lifecycle::leave
Leave == sent' = sent \cup {<<socketGen, "exit">>} /\ step' = "Exit"

\* Task::close with Sequence::begin
Close(done, whereTo) ==
  /\ task' = "Closing" /\ ending' = whereTo /\ deadline' = FALSE
  /\ IF done THEN sent' = sent \cup {<<socketGen, "shutdown">>} /\ step' = "Reply"
             ELSE Leave

\* What Closing held is gone with it.
CloseOver == ending' = "Stopped" /\ step' = "Reply"

\* Task::closed
Closed ==
  /\ DropSocket
  /\ IF ending = "Stopped" THEN Reported(Report("Stopped", 0, "Shutdown")) /\ task' = "Done"
                           ELSE task' = "Idle" /\ UNCHANGED events
  /\ CloseOver

\* A loss: the task runs ahead of the client and waits for its answer.
Lose(why) ==
  /\ DropSocket
  /\ taskGen' = taskGen + 1
  /\ Reported(Report("Lost", taskGen + 1, why))
  /\ task' = "Waiting" /\ queued' = FALSE /\ deadline' = FALSE

\* Task::live
Live == task' = "Live" /\ queued' = FALSE /\ deadline' = Timed

\* Task::dial_failed: another attempt follows, or the budget is over.
DialFailed ==
  \/ DropSocket /\ UNCHANGED <<taskGen, task, queued, deadline, events>>
  \/ Lose("Failed")

\* Task::redial_failed
RedialFailed ==
  /\ DropSocket
  /\ Reported(Report("Attempting", taskGen, "none"))
  /\ task' = "Backoff"
  /\ UNCHANGED <<taskGen, queued, deadline>>

----------------------------------------------------------------------------
\* Task::control, by what the client decided. poll_wake looks at it before anything else.
Take(type) ==
  task # "Done" /\ notices # <<>> /\ Head(notices).type = type /\ notices' = Tail(notices)

\* A defect: an attempt under way is left to finish first.
UnconnectedYet == {"Waiting", "Backoff", "Idle"}

\* States with nothing open that needs a goodbye: a pending attempt is dropped.
Unconnected == {"Dialing", "Redialing", "Waiting", "Backoff", "Idle"}

\* The client going away without a word is a shutdown too, but every client says goodbye first,
\* and a second shutdown changes nothing.
OnShutdown ==
  LET n == Head(notices) IN
  /\ Take("Shutdown")
  /\ \/ /\ task = "Live"
        /\ Close(n.done /\ n.gen = taskGen, "Stopped")
        /\ KeepSocket
        /\ UNCHANGED <<queued, events>>
     \/ /\ task = "Closing"
        /\ ending' = "Stopped"
        /\ KeepSocket
        /\ UNCHANGED <<task, queued, deadline, step, events, sent>>
     \/ /\ task \in Unconnected
        /\ DropSocket
        /\ Reported(Report("Stopped", 0, "Shutdown"))
        /\ task' = "Done" /\ queued' = FALSE
        /\ UNCHANGED <<deadline, ending, step, sent>>
  /\ UNCHANGED <<taskGen, signals, peerVars>>

OnHandshaken ==
  LET n == Head(notices) IN
  /\ Take("Handshaken")
  /\ deadline' = (deadline /\ ~(task = "Live" /\ n.gen = taskGen))
  /\ KeepSocket
  /\ UNCHANGED <<taskGen, task, queued, ending, step, signals, peerVars, events, sent>>

OnReconnect ==
  LET n == Head(notices) IN
  /\ Take("Reconnect")
  /\ task' = IF task = "Waiting" /\ n.gen = taskGen THEN "Backoff" ELSE task
  /\ KeepSocket
  /\ UNCHANGED <<taskGen, queued, deadline, ending, step, signals, peerVars, events, sent>>

OnStop ==
  LET n == Head(notices) IN
  /\ Take("Stop")
  /\ \/ /\ task = "Live" /\ n.gen = taskGen
        /\ taskGen' = n.gen + 1
        /\ Close(FALSE, "Idle")
        /\ KeepSocket
        /\ UNCHANGED queued
     \/ /\ task \in Unconnected /\ n.gen = taskGen
        /\ taskGen' = n.gen + 1
        /\ DropSocket
        /\ task' = "Idle" /\ queued' = FALSE
        /\ UNCHANGED <<deadline, ending, step, sent>>
     \/ /\ task = "Closing" \/ n.gen # taskGen
        /\ KeepSocket
        /\ UNCHANGED <<taskGen, task, queued, deadline, ending, step, sent>>
  /\ UNCHANGED <<signals, peerVars, events>>

\* Whatever is open is dropped without a loss, and the first of the new dials starts at once, on
\* a queue of its own; a shutdown under way wins.
OnRestart ==
  LET n == Head(notices) IN
  /\ Take("Restart")
  /\ \/ /\ n.gen >= taskGen /\ ~(task = "Closing" /\ ending = "Stopped")
        /\ queued' = FALSE /\ deadline' = FALSE /\ CloseOver
        /\ \/ /\ taskGen' = n.gen /\ task' = "Dialing"
              /\ OpenSocket(n.gen)
              /\ UNCHANGED <<events, faults>>
           \/ /\ Fault
              /\ DropSocket
              /\ \/ taskGen' = n.gen /\ task' = "Dialing" /\ UNCHANGED events
                 \/ /\ taskGen' = n.gen + 1 /\ task' = "Waiting"
                    /\ Reported(Report("Lost", n.gen + 1, "Failed"))
     \/ /\ n.gen < taskGen \/ (task = "Closing" /\ ending = "Stopped")
        /\ KeepSocket
        /\ UNCHANGED <<taskGen, task, queued, deadline, ending, step, events, faults>>
  /\ UNCHANGED <<signals, opened, acked, answered, sent>>

TakeControl == OnShutdown \/ OnHandshaken \/ OnReconnect \/ OnStop \/ OnRestart

----------------------------------------------------------------------------
\* A defect: a signal is acted on whichever socket it is of.
HeldOrNot(n) == socket # NoSocket

\* A signal is acted on if it is of the socket the state holds.
Held(n) == socket = n.id

\* Task::signal, by what the callback said. poll_wake looks at the signals behind the control.
TakeSignal(type) ==
  /\ task # "Done" /\ notices = <<>> /\ signals # <<>> /\ Head(signals).type = type
  /\ signals' = Tail(signals)

Untouched ==
  /\ KeepSocket
  /\ UNCHANGED <<taskGen, task, queued, deadline, ending, step, events, sent>>

OnOpened ==
  LET n == Head(signals) IN
  /\ TakeSignal("Opened")
  /\ \/ /\ task \in {"Dialing", "Redialing"} /\ Held(n)
        /\ Live
        /\ KeepSocket
        /\ UNCHANGED <<taskGen, ending, step, events, sent>>
     \/ ~(task \in {"Dialing", "Redialing"} /\ Held(n)) /\ Untouched
  /\ UNCHANGED <<peerVars, notices>>

OnClosed ==
  LET n == Head(signals) IN
  /\ TakeSignal("Closed")
  /\ \/ /\ task = "Dialing" /\ Held(n)
        /\ DialFailed
        /\ UNCHANGED <<ending, step, sent>>
     \/ /\ task = "Redialing" /\ Held(n)
        /\ RedialFailed
        /\ UNCHANGED <<ending, step, sent>>
     \/ /\ task = "Live" /\ Held(n)
        /\ Lose("Closed")
        /\ UNCHANGED <<ending, step, sent>>
     \/ /\ task = "Closing" /\ Held(n)
        /\ Closed
        /\ UNCHANGED <<taskGen, queued, deadline, sent>>
     \/ ~Held(n) /\ Untouched
  /\ UNCHANGED <<peerVars, notices>>

\* Sequence::replied
OnReplied ==
  LET n == Head(signals) IN
  /\ TakeSignal("Replied")
  /\ IF task = "Closing" /\ Held(n) /\ step = "Reply" THEN Leave ELSE UNCHANGED <<step, sent>>
  /\ KeepSocket
  /\ UNCHANGED <<taskGen, task, queued, deadline, ending, events, peerVars, notices>>

TakeSignals == OnOpened \/ OnClosed \/ OnReplied

----------------------------------------------------------------------------
\* Task::tick, by what moved on. The timer is polled last.
Woken == task # "Done" /\ notices = <<>> /\ signals = <<>> /\ UNCHANGED <<notices, signals>>

\* An attempt of the first dials, or the one of a redial, took too long.
AttemptTimesOut ==
  /\ Woken /\ socket # NoSocket /\ Fault
  /\ \/ task = "Dialing" /\ DialFailed
     \/ task = "Redialing" /\ RedialFailed
  /\ UNCHANGED <<ending, step, opened, acked, answered, sent>>

\* Task::dial
Dial ==
  /\ Woken /\ task = "Dialing" /\ socket = NoSocket
  /\ \/ OpenSocket(taskGen) /\ UNCHANGED <<taskGen, task, queued, deadline, events, faults>>
     \/ Fault /\ DialFailed
  /\ UNCHANGED <<ending, step, opened, acked, answered, sent>>

\* Task::redial
Redial ==
  /\ Woken /\ task = "Backoff"
  /\ \/ OpenSocket(taskGen) /\ task' = "Redialing" /\ UNCHANGED <<taskGen, queued, deadline, events, faults>>
     \/ Fault /\ RedialFailed
  /\ UNCHANGED <<ending, step, opened, acked, answered, sent>>

DeadlineFires ==
  /\ Woken /\ task = "Live" /\ deadline /\ Fault
  /\ Lose("Timeout")
  /\ UNCHANGED <<ending, step, opened, acked, answered, sent>>

\* Sequence::expired: no reply in time, or no end of the server.
StepExpires ==
  /\ Woken /\ task = "Closing"
  /\ \/ /\ step = "Reply" /\ Leave
        /\ KeepSocket
        /\ UNCHANGED <<task, ending, events>>
     \/ step = "Exit" /\ Closed /\ UNCHANGED sent
  /\ UNCHANGED <<taskGen, queued, deadline, peerVars>>

TaskNext == TakeControl \/ TakeSignals \/ AttemptTimesOut \/ Dial \/ Redial \/ DeadlineFires \/ StepExpires

----------------------------------------------------------------------------
\* The page's socket calls back, and the server behind it.

Signalled(type) == signals' = Append(signals, Signal(type, socket))

\* The open callback: a link the client does not hold is announced before any message of it.
SocketOpens ==
  /\ phase = "Connecting"
  /\ phase' = "Open" /\ opened' = socketGen
  /\ IF queued THEN UNCHANGED events ELSE Reported(Report("Reconnected", socketGen, "none"))
  /\ Signalled("Opened")
  /\ UNCHANGED <<taskGen, task, queued, socket, sockets, socketGen, deadline, ending, step, pipe,
                 acked, answered, faults, notices, sent>>

\* The close callback, which comes behind every message: the server was told to exit, or failed,
\* or never let the socket open.
SocketCloses ==
  /\ phase \in {"Connecting", "Open"} /\ pipe = {}
  /\ IF <<socketGen, "exit">> \in sent THEN UNCHANGED faults ELSE Fault
  /\ phase' = "Shut"
  /\ Signalled("Closed")
  /\ UNCHANGED <<taskGen, task, queued, socket, sockets, socketGen, deadline, ending, step, pipe,
                 opened, acked, answered, notices, events, sent>>

\* The drain task sends once the socket is live. A server answers what it was asked, once, and
\* may fail initialize.
PeerAnswers ==
  /\ phase = "Open" /\ task \in {"Live", "Closing"}
  /\ \E ask \in {"initialize", "shutdown"} :
       /\ <<socketGen, ask>> \in sent \ answered
       /\ answered' = answered \cup {<<socketGen, ask>>}
       /\ \E reply \in IF ask = "shutdown" THEN {"bye"} ELSE {"initialized", "refused"} :
            /\ pipe' = pipe \cup {reply}
            /\ acked' = IF reply = "initialized" THEN acked \cup {socketGen} ELSE acked
  /\ UNCHANGED <<taskGen, task, queued, socketVars, deadline, ending, step, signals, opened, faults>>
  /\ UNCHANGED channelVars

\* The message callback: straight to the client, but for the reply to shutdown.
MessageComes ==
  /\ phase = "Open"
  /\ \E reply \in pipe :
       /\ pipe' = pipe \ {reply}
       /\ IF reply = "bye" /\ task = "Closing"
          THEN Signalled("Replied") /\ UNCHANGED events
          ELSE Reported(Report("Message", socketGen, reply)) /\ UNCHANGED signals
  /\ UNCHANGED <<taskGen, task, queued, socketVars, deadline, ending, step, peerVars, notices, sent>>

PageNext == SocketOpens \/ SocketCloses \/ PeerAnswers \/ MessageComes
=============================================================================
