---------------------------- MODULE SocketWorker ----------------------------
(***************************************************************************)
(* The bridges whose server is on a socket: transport/socket.rs's Worker   *)
(* with the shutdown sequence of transport/lifecycle.rs, what carries each *)
(* connection (the reader and writer threads of transport/tcp.rs, the one  *)
(* I/O thread of transport/websocket/native.rs), and the servers behind    *)
(* the sockets.                                                            *)
(*                                                                         *)
(* The worker either dials, and dials again after a loss, or it accepts    *)
(* one connection and ends with it.  Durations are left out: a budget, a   *)
(* deadline, a grace or a backoff may end at any moment, and retry, which  *)
(* only picks the length of a backoff, is left out with them.              *)
(***************************************************************************)
EXTENDS BridgeChannels

CONSTANTS
  Timed,        \* the modes in which the builder set an initialize_timeout
  MaxFaults     \* bound: failed dials, lost connections and full backlogs in a run

ASSUME WorkerAssumption == Timed \subseteq {"Connect", "Listen"} /\ MaxFaults \in Nat

VARIABLES
  mode,         \* Worker::mode: Connect or Listen; never changes
  workerGen,    \* Worker::generation
  worker,       \* Worker::state: Dialing, Accepting, Live, Draining, Waiting, Backoff, Idle, Closing; Done once run() returned
  queued,       \* Dialing or Accepting holds the first connection's queue, which the client has
  tried,        \* Dialing::failure is set: a dial of this budget failed
  socket,       \* the generation of the last connection opened; -1 before the first
  deadline,     \* whether a Live connection's deadline is armed; FALSE in every other state
  cause,        \* the reason a Draining state will report; Closed in every other state
  ending,       \* Closing's Ending: Stopped or Idle; Stopped in every other state
  step,         \* Closing's Sequence: Reply or Exit; Reply in every other state
  hungUp,       \* a Closing connection's reader reached EOF; FALSE in every other state
  open,         \* the generations whose socket the worker has not shut down
  peers,        \* the generations whose server still serves
  reading,      \* the generations whose reader has not reached EOF
  pipe,         \* <<generation, reply>>: sent by a server, not yet read
  acked,        \* the generations whose server answered initialize with a result
  answered,     \* <<generation, message>>: what servers answered, each once
  faults        \* faults so far, capped by MaxFaults

workerVars == <<workerGen, worker, queued, tried, socket, deadline, cause, ending, step, hungUp>>
peerVars == <<open, peers, reading, pipe, acked, answered, faults>>

WorkerTypes ==
  /\ mode \in {"Connect", "Listen"}
  /\ workerGen \in Generation /\ socket \in Generation \cup {-1}
  /\ worker \in {"Dialing", "Accepting", "Live", "Draining", "Waiting", "Backoff", "Idle",
                 "Closing", "Done"}
  /\ queued \in BOOLEAN /\ tried \in BOOLEAN /\ deadline \in BOOLEAN /\ cause \in Reasons
  /\ ending \in {"Stopped", "Idle"} /\ step \in {"Reply", "Exit"} /\ hungUp \in BOOLEAN

PeerTypes ==
  /\ open \in SUBSET Generation /\ peers \in SUBSET Generation /\ reading \in SUBSET Generation
  /\ acked \in SUBSET Generation
  /\ pipe \in SUBSET (Generation \X Replies)
  /\ answered \in SUBSET (Generation \X Wire)
  /\ faults \in 0..MaxFaults

WorkerInit ==
  /\ mode \in {"Connect", "Listen"}
  /\ worker = IF mode = "Connect" THEN "Dialing" ELSE "Accepting"
  /\ workerGen = 0 /\ queued = TRUE /\ tried = FALSE /\ socket = -1
  /\ deadline = FALSE /\ cause = "Closed" /\ ending = "Stopped" /\ step = "Reply" /\ hungUp = FALSE
  /\ open = {} /\ peers = {} /\ reading = {} /\ pipe = {}
  /\ acked = {} /\ answered = {} /\ faults = 0

Fault == faults < MaxFaults /\ faults' = faults + 1

Reported(event) == events' = Append(events, event)

\* States with no connection up: nothing needs a goodbye, and whatever they wait for never comes.
Unconnected == {"Dialing", "Accepting", "Draining", "Waiting", "Backoff", "Idle"}

\* What the state that is left held is gone with it.
Forgotten == queued' = FALSE /\ tried' = FALSE /\ cause' = "Closed"
CloseOver == ending' = "Stopped" /\ step' = "Reply" /\ hungUp' = FALSE

\* Stopped(why) is the last thing the worker reports.
Over(why) ==
  /\ Reported(Report("Stopped", 0, why))
  /\ worker' = "Done"

----------------------------------------------------------------------------
\* Worker::open on a socket that is up: a queue the client does not hold yet is announced before
\* the connection's threads may run.
Open ==
  /\ IF queued THEN UNCHANGED events ELSE Reported(Report("Reconnected", workerGen, "none"))
  /\ worker' = "Live" /\ socket' = workerGen /\ deadline' = (mode \in Timed)
  /\ open' = open \cup {workerGen}
  /\ peers' = peers \cup {workerGen}
  /\ reading' = reading \cup {workerGen}
  /\ Forgotten

\* Connection::end: shut down both ways. What the server still sends goes nowhere; what it sent
\* before may still be read.
End == open' = open \ {socket} /\ peers' = peers \ {socket}

\* lifecycle::leave: exit, and the close behind it.
Leave == sent' = sent \cup {<<socket, "exit">>} /\ step' = "Exit"

\* Worker::close with Sequence::begin: a server that never answered initialize gets no shutdown
\* request.
Close(done, whereTo) ==
  /\ worker' = "Closing" /\ ending' = whereTo /\ deadline' = FALSE
  /\ IF done THEN sent' = sent \cup {<<socket, "shutdown">>} /\ step' = "Reply"
             ELSE Leave

\* A defect: the socket of a lost connection stays open while its reader drains.
DrainHeld(why) ==
  /\ UNCHANGED <<open, peers>>
  /\ worker' = "Draining" /\ cause' = why /\ deadline' = FALSE

\* Worker::drain: the connection is torn down, its reader may still read.
Drain(why) ==
  /\ End
  /\ worker' = "Draining" /\ cause' = why /\ deadline' = FALSE

----------------------------------------------------------------------------
\* Worker::notice and Worker::control, by what the notice is.

Take(type) ==
  worker # "Done" /\ notices # <<>> /\ Head(notices).type = type /\ notices' = Tail(notices)

Dropped == UNCHANGED <<workerVars, peerVars, events, sent>>

OnShutdown ==
  LET n == Head(notices) IN
  /\ Take("Shutdown")
  /\ \/ /\ worker = "Live"
        /\ Close(n.done /\ n.gen = workerGen, "Stopped")
        /\ UNCHANGED <<workerGen, queued, tried, socket, cause, hungUp, events>>
     \/ /\ worker = "Closing" /\ ending' = "Stopped"
        /\ UNCHANGED <<workerGen, worker, queued, tried, socket, deadline, cause, step, hungUp,
                       events, sent>>
     \/ /\ worker \in Unconnected
        /\ Over("Shutdown") /\ Forgotten
        /\ UNCHANGED <<workerGen, socket, deadline, ending, step, hungUp, sent>>
  /\ UNCHANGED peerVars

OnHandshaken ==
  LET n == Head(notices) IN
  /\ Take("Handshaken")
  /\ deadline' = (deadline /\ ~(worker = "Live" /\ n.gen = workerGen))
  /\ UNCHANGED <<workerGen, worker, queued, tried, socket, cause, ending, step, hungUp, events, sent>>
  /\ UNCHANGED peerVars

OnReconnect ==
  LET n == Head(notices) IN
  /\ Take("Reconnect")
  /\ worker' = IF worker = "Waiting" /\ n.gen = workerGen THEN "Backoff" ELSE worker
  /\ UNCHANGED <<workerGen, queued, tried, socket, deadline, cause, ending, step, hungUp,
                 events, sent>>
  /\ UNCHANGED peerVars

OnStop ==
  LET n == Head(notices) IN
  /\ Take("Stop")
  /\ \/ /\ worker = "Live" /\ n.gen = workerGen
        /\ workerGen' = n.gen + 1
        /\ Close(FALSE, "Idle")
        /\ UNCHANGED <<queued, tried, socket, cause, hungUp, events, peerVars>>
     \/ /\ worker \in Unconnected /\ n.gen = workerGen
        /\ workerGen' = n.gen + 1
        /\ worker' = "Idle" /\ Forgotten
        /\ UNCHANGED <<socket, deadline, ending, step, hungUp, events, sent, peerVars>>
     \/ /\ worker = "Closing" \/ n.gen # workerGen
        /\ Dropped

\* Whatever is up is torn down without a loss, and the dials start over with a new budget and no
\* queue; a shutdown under way wins.
OnRestart ==
  LET n == Head(notices) IN
  /\ Take("Restart")
  /\ \/ /\ mode = "Connect" /\ n.gen >= workerGen /\ ~(worker = "Closing" /\ ending = "Stopped")
        /\ workerGen' = n.gen
        /\ worker' = "Dialing" /\ Forgotten /\ CloseOver /\ deadline' = FALSE
        /\ IF worker \in {"Live", "Closing"} THEN End ELSE UNCHANGED <<open, peers>>
        /\ UNCHANGED <<socket, reading, pipe, acked, answered, faults, events, sent>>
     \/ /\ mode = "Listen" \/ n.gen < workerGen \/ (worker = "Closing" /\ ending = "Stopped")
        /\ Dropped

\* Worker::ended, and lose for a failed write or a full backlog: only a live connection is lost,
\* and only by its own threads. One that is closing remembers that its reader ended.
LossReason(type) == IF type = "Backlog" THEN "Unresponsive" ELSE "Closed"

OnThreadNotice ==
  LET n == Head(notices) IN
  /\ \E type \in {"Ended", "WriteFailed", "Backlog"} : Take(type)
  /\ \/ /\ worker = "Live" /\ n.gen = socket
        /\ Drain(LossReason(n.type))
        /\ UNCHANGED <<workerGen, queued, tried, socket, ending, step, hungUp>>
     \/ /\ worker # "Live" \/ n.gen # socket
        /\ hungUp' = (hungUp \/ (worker = "Closing" /\ n.type = "Ended" /\ n.gen = socket))
        /\ UNCHANGED <<workerGen, worker, queued, tried, socket, deadline, cause, ending, step, open, peers>>
  /\ UNCHANGED <<reading, pipe, acked, answered, faults, events, sent>>

\* Sequence::replied
OnReplied ==
  LET n == Head(notices) IN
  /\ Take("Replied")
  /\ IF worker = "Closing" /\ n.gen = socket /\ step = "Reply" THEN Leave
                                                               ELSE UNCHANGED <<step, sent>>
  /\ UNCHANGED <<workerGen, worker, queued, tried, socket, deadline, cause, ending, hungUp, events>>
  /\ UNCHANGED peerVars

TakeNotice ==
  \/ OnShutdown \/ OnHandshaken \/ OnReconnect \/ OnStop \/ OnRestart
  \/ OnThreadNotice \/ OnReplied

----------------------------------------------------------------------------
\* Worker::tick, by what moved on.

\* Worker::dial: within the budget, and once at least, the endpoint is dialed and opened.
DialUp ==
  /\ worker = "Dialing"
  /\ Open
  /\ UNCHANGED <<workerGen, ending, step, hungUp, notices, sent, pipe, acked, answered, faults>>

\* The dial failed and there is budget left.
DialFails ==
  /\ worker = "Dialing" /\ ~tried /\ Fault
  /\ tried' = TRUE
  /\ UNCHANGED <<workerGen, worker, queued, socket, deadline, cause, ending, step, hungUp,
                 notices, events, sent, open, peers, reading, pipe, acked, answered>>

\* A defect: the loss is reported under the generation that was being dialed.
DialGivesUpInPlace ==
  /\ worker = "Dialing"
  /\ IF tried THEN UNCHANGED faults ELSE Fault
  /\ Reported(Report("Lost", workerGen, "Failed"))
  /\ worker' = "Waiting" /\ Forgotten
  /\ UNCHANGED <<workerGen, socket, deadline, ending, step, hungUp, notices, sent,
                 open, peers, reading, pipe, acked, answered>>

\* The budget ran out after a failed dial, this one or an earlier one: a loss with no connection
\* before it.
DialGivesUp ==
  /\ worker = "Dialing"
  /\ IF tried THEN UNCHANGED faults ELSE Fault
  /\ workerGen' = workerGen + 1
  /\ Reported(Report("Lost", workerGen + 1, "Failed"))
  /\ worker' = "Waiting" /\ Forgotten
  /\ UNCHANGED <<socket, deadline, ending, step, hungUp, notices, sent,
                 open, peers, reading, pipe, acked, answered>>

\* The server dialed in. A socket that cannot be set up, or a listener that fails, is the end.
Accept ==
  /\ worker = "Accepting"
  /\ \/ /\ Open
        /\ UNCHANGED faults
     \/ /\ Fault
        /\ Over("Failed") /\ Forgotten
        /\ UNCHANGED <<socket, deadline, open, peers, reading>>
  /\ UNCHANGED <<workerGen, ending, step, hungUp, notices, sent, pipe, acked, answered>>

DeadlineFires ==
  /\ worker = "Live" /\ deadline
  /\ Fault
  /\ Drain("Timeout")
  /\ UNCHANGED <<workerGen, queued, tried, socket, ending, step, hungUp,
                 reading, pipe, acked, answered>>
  /\ UNCHANGED channelVars

\* The reader reached EOF or its grace ran out: now the loss is reported, which ends a listener.
DrainDone ==
  /\ worker = "Draining"
  /\ \/ /\ mode = "Connect"
        /\ workerGen' = workerGen + 1
        /\ Reported(Report("Lost", workerGen + 1, cause))
        /\ worker' = "Waiting"
     \/ /\ mode = "Listen"
        /\ Over(cause)
        /\ UNCHANGED workerGen
  /\ Forgotten
  /\ UNCHANGED <<socket, deadline, ending, step, hungUp, notices, sent>>
  /\ UNCHANGED peerVars

\* Worker::redial: a failure counts against the restart policy, and the backoff starts again.
Redial ==
  /\ worker = "Backoff"
  /\ \/ /\ Open
        /\ UNCHANGED faults
     \/ /\ Fault
        /\ Reported(Report("Attempting", workerGen, "none"))
        /\ UNCHANGED <<worker, queued, tried, socket, deadline, cause, open, peers, reading>>
  /\ UNCHANGED <<workerGen, ending, step, hungUp, notices, sent, pipe, acked, answered>>

\* No reply to shutdown in time: exit anyway.
ReplyExpires ==
  /\ worker = "Closing" /\ step = "Reply"
  /\ Leave
  /\ UNCHANGED <<workerGen, worker, queued, tried, socket, deadline, cause, ending, hungUp,
                 notices, events>>
  /\ UNCHANGED peerVars

\* The server closed its end, or its exit grace is over.
ClosingOver ==
  /\ worker = "Closing" /\ (hungUp \/ step = "Exit")
  /\ End
  /\ IF ending = "Stopped" THEN Over("Shutdown") ELSE worker' = "Idle" /\ UNCHANGED events
  /\ CloseOver
  /\ UNCHANGED <<workerGen, queued, tried, socket, deadline, cause, notices, sent>>
  /\ UNCHANGED <<reading, pipe, acked, answered, faults>>

Tick ==
  \/ DialUp \/ DialFails \/ DialGivesUp \/ Accept \/ DeadlineFires \/ DrainDone \/ Redial
  \/ ReplyExpires \/ ClosingOver

WorkerNext == (TakeNotice \/ Tick) /\ UNCHANGED mode

----------------------------------------------------------------------------
\* The servers and the threads that carry the connections.

\* A server answers what it was asked, once. It may fail initialize.
PeerAnswers ==
  \E g \in peers, ask \in {"initialize", "shutdown"} :
    /\ <<g, ask>> \in sent \ answered
    /\ answered' = answered \cup {<<g, ask>>}
    /\ \E reply \in IF ask = "shutdown" THEN {"bye"} ELSE {"initialized", "refused"} :
         /\ pipe' = pipe \cup {<<g, reply>>}
         /\ acked' = IF reply = "initialized" THEN acked \cup {g} ELSE acked
    /\ UNCHANGED <<open, peers, reading, faults>>
    /\ UNCHANGED <<workerVars, channelVars>>

\* A server closes its end: it was told to exit, or it fails.
PeerCloses ==
  \E g \in peers :
    /\ IF <<g, "exit">> \in sent THEN UNCHANGED faults ELSE Fault
    /\ peers' = peers \ {g}
    /\ UNCHANGED <<open, reading, pipe, acked, answered>>
    /\ UNCHANGED <<workerVars, channelVars>>

\* Reader::deliver or Pump::deliver: the reply to shutdown goes to the worker, which set closing
\* before the request went out. A socket the worker shut down may still hand out what it
\* received (Winsock parks the reader until the server closes).
ReaderDelivers ==
  \E g \in reading, reply \in Replies :
    /\ <<g, reply>> \in pipe
    /\ pipe' = pipe \ {<<g, reply>>}
    /\ IF reply = "bye"
       THEN notices' = Append(notices, Tell("Replied", g)) /\ UNCHANGED events
       ELSE Reported(Report("Message", g, reply)) /\ UNCHANGED notices
    /\ UNCHANGED <<open, peers, reading, acked, answered, faults, sent>>
    /\ UNCHANGED workerVars

\* EOF. A reader whose socket the worker shut down ends too, when and whether it read the rest
\* or not; nobody acts on that.
ReaderEnds ==
  \E g \in reading \cap open :
    /\ g \notin peers /\ \A reply \in Replies : <<g, reply>> \notin pipe
    /\ reading' = reading \ {g}
    /\ notices' = Append(notices, Tell("Ended", g))
    /\ UNCHANGED <<open, peers, pipe, acked, answered, faults, events, sent>>
    /\ UNCHANGED workerVars

\* A write failed, or the unwritten bytes passed the limit. What a connection that was torn down
\* says of itself is dropped whenever it comes.
WriterTrouble ==
  \E g \in open, type \in {"WriteFailed", "Backlog"} :
    /\ Fault
    /\ notices' = Append(notices, Tell(type, g))
    /\ UNCHANGED <<open, peers, reading, pipe, acked, answered, events, sent>>
    /\ UNCHANGED workerVars

PeerNext ==
  (PeerAnswers \/ PeerCloses \/ ReaderDelivers \/ ReaderEnds \/ WriterTrouble) /\ UNCHANGED mode
=============================================================================
