------------------------ MODULE SocketBridgesProofs ------------------------
(***************************************************************************)
(* For every policy, every number of calls and of faults, dialing or       *)
(* listening, on threads or on the browser's page: a bridge to a server    *)
(* behind a socket keeps its types, never acts on a stale restart, asks no *)
(* server for its shutdown before it answered initialize, announces a      *)
(* connection before its messages, has one connection at a time, each      *)
(* newer than the last, and never waits for a client that waits for it.    *)
(*                                                                         *)
(* The threads' bridge comes first; what BrowserBridgeProofs shows of the  *)
(* page's is Page's, and the two are put together at the end.              *)
(***************************************************************************)
EXTENDS MCSocketBridges, ClientRecoveryProofs

LEMMA InitTypes == Init => TypeOK
<1> SUFFICES ASSUME Init PROVE TypeOK
  OBVIOUS
<1> USE DEF Init, Generation, Reasons
<1>1. ChannelTypes
  BY DEF ChannelTypes, Wire
<1>2. ClientTypes
  BY ClientStarts
<1>3. WorkerTypes
  BY WorkerAssumption DEF WorkerInit, WorkerTypes
<1>4. PeerTypes
  BY WorkerAssumption DEF WorkerInit, PeerTypes
<1> QED
  BY <1>1, <1>2, <1>3, <1>4 DEF TypeOK

LEMMA ReportedTypes ==
  ASSUME ChannelTypes, NEW e \in Event, Reported(e)
  PROVE  events' \in Seq(Event)
BY AppendFacts DEF ChannelTypes, Reported

\* What the worker takes, and what stays behind it.
LEMMA TakeTypes ==
  ASSUME ChannelTypes, NEW type, Take(type)
  PROVE  /\ notices' \in Seq(Notice) /\ Head(notices).gen \in Generation
         /\ Head(notices).done \in BOOLEAN /\ Head(notices).type = type
<1>1. Head(notices) \in Notice /\ notices' \in Seq(Notice) /\ Head(notices).type = type
  BY TakeFacts DEF ChannelTypes, Take
<1> QED
  BY <1>1 DEF Notice

LEMMA FaultTypes == ASSUME PeerTypes, Fault PROVE faults' \in 0..MaxFaults
BY WorkerAssumption DEF PeerTypes, Fault

\* The next generation is one.
LEMMA NextGeneration == \A g \in Generation : g + 1 \in Generation
BY DEF Generation

\* What the worker sends is of the connection it holds, and it holds one when it sends.
LEMMA CloseTypes ==
  ASSUME TypeOK, socket \in Generation,
         NEW done \in BOOLEAN, NEW whereTo \in {"Stopped", "Idle"}, Close(done, whereTo)
  PROVE  /\ sent' \in SUBSET (Generation \X Wire) /\ step' \in {"Reply", "Exit"}
         /\ worker' = "Closing" /\ ending' = whereTo /\ deadline' = FALSE
BY DEF TypeOK, ChannelTypes, WorkerTypes, Close, Leave, Wire

LEMMA HeldTypes ==
  ASSUME TypeOK, SocketIsBehind, worker \in {"Live", "Closing"}
  PROVE  socket \in Generation
BY DEF TypeOK, WorkerTypes, SocketIsBehind, Generation

\* The worker's actions keep the types of all but the client.
LEMMA WorkerTypesKept ==
  ASSUME TypeOK, SocketIsBehind, WorkerNext
  PROVE  WorkerTypes' /\ PeerTypes' /\ ChannelTypes'
<1> USE DEF TypeOK
<1>0. mode' = mode
  BY DEF WorkerNext
<1>1. CASE OnShutdown
  <2> DEFINE n == Head(notices)
  <2>1. notices' \in Seq(Notice) /\ n.done \in BOOLEAN
    BY <1>1, TakeTypes DEF OnShutdown
  <2>2. PeerTypes'
    BY <1>1 DEF OnShutdown, PeerTypes, peerVars
  <2>3. CASE worker = "Live"
    <3>1. /\ sent' \in SUBSET (Generation \X Wire) /\ step' \in {"Reply", "Exit"}
          /\ worker' = "Closing" /\ ending' = "Stopped" /\ deadline' = FALSE
      BY <1>1, <2>1, <2>3, HeldTypes, CloseTypes DEF OnShutdown, Unconnected
    <3> QED
      BY <1>0, <1>1, <2>1, <2>2, <2>3, <3>1 DEF OnShutdown, WorkerTypes, ChannelTypes, Unconnected
  <2>4. CASE worker = "Closing"
    BY <1>0, <1>1, <2>1, <2>2, <2>4 DEF OnShutdown, WorkerTypes, ChannelTypes, Unconnected
  <2>5. CASE worker \notin {"Live", "Closing"}
    <3>1. Report("Stopped", 0, "Shutdown") \in Event
      BY MessageTypes DEF Generation, Reasons
    <3>2. events' \in Seq(Event)
      BY <1>1, <2>5, <3>1, ReportedTypes DEF OnShutdown, Over
    <3> QED
      BY <1>0, <1>1, <2>1, <2>2, <2>5, <3>2
      DEF OnShutdown, Over, Forgotten, WorkerTypes, ChannelTypes, Reasons
  <2> QED
    BY <2>3, <2>4, <2>5
<1>2. CASE OnHandshaken \/ OnReconnect
  <2>1. notices' \in Seq(Notice)
    BY <1>2, TakeTypes DEF OnHandshaken, OnReconnect
  <2>2. PeerTypes' /\ ChannelTypes'
    BY <1>2, <2>1 DEF OnHandshaken, OnReconnect, PeerTypes, ChannelTypes, peerVars
  <2>3. CASE OnHandshaken
    BY <1>0, <2>2, <2>3 DEF OnHandshaken, WorkerTypes
  <2>4. CASE OnReconnect
    BY <1>0, <2>2, <2>4 DEF OnReconnect, WorkerTypes
  <2> QED
    BY <1>2, <2>3, <2>4
<1>3. CASE OnStop
  <2> DEFINE n == Head(notices)
  <2>1. notices' \in Seq(Notice) /\ n.gen \in Generation /\ n.gen + 1 \in Generation
    BY <1>3, TakeTypes, NextGeneration DEF OnStop
  <2>2. PeerTypes' /\ events' = events
    BY <1>3 DEF OnStop, Dropped, PeerTypes, peerVars
  <2>3. CASE worker = "Live" /\ n.gen = workerGen
    <3>1. /\ sent' \in SUBSET (Generation \X Wire) /\ step' \in {"Reply", "Exit"}
          /\ worker' = "Closing" /\ ending' = "Idle" /\ deadline' = FALSE
      BY <1>3, <2>3, HeldTypes, CloseTypes DEF OnStop, Unconnected
    <3>2. UNCHANGED <<queued, tried, socket, cause, hungUp>> /\ workerGen' = n.gen + 1
      BY <1>3, <2>3 DEF OnStop, Unconnected
    <3> QED
      BY <1>0, <2>1, <2>2, <3>1, <3>2 DEF WorkerTypes, ChannelTypes
  <2>4. CASE ~(worker = "Live" /\ n.gen = workerGen)
    <3>1. workerGen' \in {workerGen, n.gen + 1} /\ sent' = sent
      BY <1>3, <2>4 DEF OnStop, Dropped, workerVars
    <3>2. CASE Dropped
      BY <1>0, <2>1, <2>2, <3>1, <3>2 DEF Dropped, WorkerTypes, ChannelTypes, workerVars
    <3>3. CASE ~Dropped
      <4>1. /\ worker' = "Idle" /\ Forgotten
            /\ UNCHANGED <<socket, deadline, ending, step, hungUp>>
        BY <1>3, <2>4, <3>3 DEF OnStop
      <4> QED
        BY <1>0, <2>1, <2>2, <3>1, <4>1 DEF Forgotten, WorkerTypes, ChannelTypes, Reasons
    <3> QED
      BY <3>2, <3>3
  <2> QED
    BY <2>3, <2>4
<1>4. CASE OnRestart
  <2>1. notices' \in Seq(Notice) /\ Head(notices).gen \in Generation
    BY <1>4, TakeTypes DEF OnRestart
  <2>2. events' = events /\ sent' = sent
    BY <1>4 DEF OnRestart, Dropped
  <2>3. PeerTypes'
    BY <1>4 DEF OnRestart, Dropped, End, PeerTypes, peerVars
  <2>4. CASE Dropped
    BY <1>0, <2>1, <2>2, <2>3, <2>4 DEF Dropped, WorkerTypes, ChannelTypes, workerVars
  <2>5. CASE ~Dropped
    <3>1. /\ workerGen' = Head(notices).gen /\ worker' = "Dialing" /\ deadline' = FALSE
          /\ Forgotten /\ CloseOver /\ socket' = socket
      BY <1>4, <2>5 DEF OnRestart
    <3> QED
      BY <1>0, <2>1, <2>2, <2>3, <3>1
      DEF Forgotten, CloseOver, WorkerTypes, ChannelTypes, Reasons
  <2> QED
    BY <2>4, <2>5
<1>5. CASE OnThreadNotice
  <2>1. notices' \in Seq(Notice)
    BY <1>5, TakeTypes DEF OnThreadNotice
  <2>2. PeerTypes' /\ ChannelTypes'
    BY <1>5, <2>1 DEF OnThreadNotice, Drain, End, PeerTypes, ChannelTypes
  <2>3. /\ cause' \in Reasons /\ hungUp' \in BOOLEAN /\ deadline' \in BOOLEAN
        /\ worker' \in {worker, "Draining"}
    BY <1>5 DEF OnThreadNotice, Drain, LossReason, Reasons, WorkerTypes
  <2>4. UNCHANGED <<workerGen, queued, tried, socket, ending, step>>
    BY <1>5 DEF OnThreadNotice
  <2> QED
    BY <1>0, <2>2, <2>3, <2>4 DEF WorkerTypes
<1>6. CASE OnReplied \/ ReplyExpires
  <2>1. notices' \in Seq(Notice)
    BY <1>6, TakeTypes DEF OnReplied, ReplyExpires, ChannelTypes
  <2>2. CASE worker = "Closing"
    BY <1>0, <1>6, <2>1, <2>2, HeldTypes
    DEF OnReplied, ReplyExpires, Leave, WorkerTypes, PeerTypes, ChannelTypes, peerVars, Wire
  <2>3. CASE worker # "Closing"
    BY <1>0, <1>6, <2>1, <2>3
    DEF OnReplied, ReplyExpires, WorkerTypes, PeerTypes, ChannelTypes, peerVars
  <2> QED
    BY <2>2, <2>3
<1>7. ASSUME Open
      PROVE  /\ events' \in Seq(Event) /\ worker' = "Live" /\ socket' \in Generation
             /\ deadline' \in BOOLEAN /\ queued' = FALSE /\ tried' = FALSE /\ cause' \in Reasons
             /\ open' \subseteq Generation /\ peers' \subseteq Generation
             /\ reading' \subseteq Generation
  <2>1. Report("Reconnected", workerGen, "none") \in Event
    BY MessageTypes DEF WorkerTypes
  <2>2. events' \in Seq(Event)
    BY <1>7, <2>1, ReportedTypes DEF Open, ChannelTypes
  <2> QED
    BY <1>7, <2>2 DEF Open, Forgotten, WorkerTypes, PeerTypes, Reasons
<1>8. CASE DialUp
  <2>1. Open /\ UNCHANGED <<workerGen, ending, step, hungUp, notices, sent, pipe, acked, answered, faults>>
    BY <1>8 DEF DialUp
  <2> QED
    BY <1>0, <1>7, <2>1 DEF WorkerTypes, PeerTypes, ChannelTypes
<1>9. CASE DialFails
  BY <1>0, <1>9, FaultTypes DEF DialFails, WorkerTypes, PeerTypes, ChannelTypes
<1>10. CASE DialGivesUp
  <2>1. faults' \in 0..MaxFaults
    BY <1>10, FaultTypes DEF DialGivesUp, PeerTypes
  <2>2. workerGen' \in Generation /\ Report("Lost", workerGen + 1, "Failed") \in Event
    BY <1>10, NextGeneration, MessageTypes DEF DialGivesUp, WorkerTypes, Reasons
  <2>3. events' \in Seq(Event)
    BY <1>10, <2>2, ReportedTypes DEF DialGivesUp
  <2> QED
    BY <1>0, <1>10, <2>1, <2>2, <2>3
    DEF DialGivesUp, Forgotten, WorkerTypes, PeerTypes, ChannelTypes, Reasons
<1>11. CASE Accept
  <2>1. faults' \in 0..MaxFaults
    BY <1>11, FaultTypes DEF Accept, PeerTypes
  <2>2. Report("Stopped", 0, "Failed") \in Event
    BY MessageTypes DEF Generation, Reasons
  <2>3. events' \in Seq(Event)
    BY <1>7, <1>11, <2>2, ReportedTypes DEF Accept, Over
  <2>4. UNCHANGED <<workerGen, ending, step, hungUp, notices, sent, pipe, acked, answered>>
    BY <1>11 DEF Accept
  <2>5. CASE Open
    BY <1>0, <1>7, <2>1, <2>4, <2>5 DEF WorkerTypes, PeerTypes, ChannelTypes
  <2>6. CASE ~Open
    <3>1. worker' = "Done" /\ Forgotten /\ UNCHANGED <<socket, deadline, open, peers, reading>>
      BY <1>11, <2>6 DEF Accept, Over
    <3> QED
      BY <1>0, <2>1, <2>3, <2>4, <3>1 DEF Forgotten, WorkerTypes, PeerTypes, ChannelTypes, Reasons
  <2> QED
    BY <2>5, <2>6
<1>12. CASE DeadlineFires
  BY <1>0, <1>12, FaultTypes
  DEF DeadlineFires, Drain, End, WorkerTypes, PeerTypes, ChannelTypes, channelVars, Reasons
<1>13. CASE DrainDone
  <2>1. /\ workerGen' \in Generation
        /\ Report("Lost", workerGen + 1, cause) \in Event /\ Report("Stopped", 0, cause) \in Event
    <3>1. 0 \in Generation
      BY DEF Generation
    <3> QED
      BY <1>13, <3>1, NextGeneration, MessageTypes DEF DrainDone, WorkerTypes
  <2>2. events' \in Seq(Event)
    BY <1>13, <2>1, ReportedTypes DEF DrainDone, Over
  <2> QED
    BY <1>0, <1>13, <2>1, <2>2
    DEF DrainDone, Over, Forgotten, WorkerTypes, PeerTypes, ChannelTypes, peerVars, Reasons
<1>14. CASE Redial
  <2>1. faults' \in 0..MaxFaults
    BY <1>14, FaultTypes DEF Redial, PeerTypes
  <2>2. Report("Attempting", workerGen, "none") \in Event
    BY MessageTypes DEF WorkerTypes
  <2>3. events' \in Seq(Event)
    BY <1>7, <1>14, <2>2, ReportedTypes DEF Redial
  <2>4. UNCHANGED <<workerGen, ending, step, hungUp, notices, sent, pipe, acked, answered>>
    BY <1>14 DEF Redial
  <2>5. CASE Open
    BY <1>0, <1>7, <2>1, <2>4, <2>5 DEF WorkerTypes, PeerTypes, ChannelTypes
  <2>6. CASE ~Open
    BY <1>0, <1>14, <2>1, <2>3, <2>4, <2>6 DEF Redial, WorkerTypes, PeerTypes, ChannelTypes
  <2> QED
    BY <2>5, <2>6
<1>15. CASE ClosingOver
  <2>1. Report("Stopped", 0, "Shutdown") \in Event
    BY MessageTypes DEF Generation, Reasons
  <2>2. events' \in Seq(Event)
    BY <1>15, <2>1, ReportedTypes DEF ClosingOver, Over, ChannelTypes
  <2> QED
    BY <1>0, <1>15, <2>2
    DEF ClosingOver, End, Over, CloseOver, WorkerTypes, PeerTypes, ChannelTypes
<1> QED
  BY <1>1, <1>2, <1>3, <1>4, <1>5, <1>6, <1>8, <1>9, <1>10, <1>11, <1>12, <1>13, <1>14, <1>15
  DEF WorkerNext, TakeNotice, Tick

\* The servers and the threads of their connections keep the types of all but the client.
LEMMA PeerTypesKept ==
  ASSUME TypeOK, PeerNext
  PROVE  WorkerTypes' /\ PeerTypes' /\ ChannelTypes'
<1> USE DEF TypeOK
<1>0. mode' = mode /\ UNCHANGED workerVars
  BY DEF PeerNext, PeerAnswers, PeerCloses, ReaderDelivers, ReaderEnds, WriterTrouble
<1>1. WorkerTypes'
  BY <1>0 DEF WorkerTypes, workerVars
<1>2. /\ open \subseteq Generation /\ peers \subseteq Generation /\ reading \subseteq Generation
      /\ \A type \in ThreadTypes, g \in Generation : Tell(type, g) \in Notice
  BY MessageTypes DEF PeerTypes
<1>3. CASE PeerAnswers
  <2>1. PICK g \in peers, ask \in {"initialize", "shutdown"} :
          /\ answered' = answered \cup {<<g, ask>>}
          /\ \E reply \in IF ask = "shutdown" THEN {"bye"} ELSE {"initialized", "refused"} :
               /\ pipe' = pipe \cup {<<g, reply>>}
               /\ acked' = IF reply = "initialized" THEN acked \cup {g} ELSE acked
          /\ UNCHANGED <<open, peers, reading, faults>>
          /\ UNCHANGED <<workerVars, channelVars>>
    BY <1>3 DEF PeerAnswers
  <2>2. g \in Generation
    BY <1>2
  <2>3. PeerTypes'
    BY <2>1, <2>2 DEF PeerTypes, Replies, Wire
  <2> QED
    BY <1>1, <2>1, <2>3 DEF ChannelTypes, channelVars
<1>4. CASE PeerCloses
  BY <1>1, <1>4, FaultTypes DEF PeerCloses, PeerTypes, ChannelTypes, channelVars
<1>5. CASE ReaderDelivers
  <2>1. PICK g \in reading, reply \in Replies :
          /\ pipe' = pipe \ {<<g, reply>>}
          /\ IF reply = "bye"
             THEN notices' = Append(notices, Tell("Replied", g)) /\ UNCHANGED events
             ELSE Reported(Report("Message", g, reply)) /\ UNCHANGED notices
          /\ UNCHANGED <<open, peers, reading, acked, answered, faults, sent>>
    BY <1>5 DEF ReaderDelivers
  <2>2. Tell("Replied", g) \in Notice /\ Report("Message", g, reply) \in Event
    BY <1>2, MessageTypes DEF ThreadTypes
  <2>3. notices' \in Seq(Notice) /\ events' \in Seq(Event)
    BY <2>1, <2>2, AppendFacts, ReportedTypes DEF ChannelTypes
  <2> QED
    BY <1>1, <2>1, <2>3 DEF PeerTypes, ChannelTypes
<1>6. CASE ReaderEnds
  <2>1. PICK g \in reading :
          /\ reading' = reading \ {g}
          /\ notices' = Append(notices, Tell("Ended", g))
          /\ UNCHANGED <<open, peers, pipe, acked, answered, faults, events, sent>>
    BY <1>6 DEF ReaderEnds
  <2>2. notices' \in Seq(Notice)
    BY <1>2, <2>1, AppendFacts DEF ChannelTypes, ThreadTypes
  <2> QED
    BY <1>1, <2>1, <2>2 DEF PeerTypes, ChannelTypes
<1>7. CASE WriterTrouble
  <2>1. PICK g \in open, type \in {"WriteFailed", "Backlog"} :
          /\ Fault
          /\ notices' = Append(notices, Tell(type, g))
          /\ UNCHANGED <<open, peers, reading, pipe, acked, answered, events, sent>>
    BY <1>7 DEF WriterTrouble
  <2>2. notices' \in Seq(Notice)
    BY <1>2, <2>1, AppendFacts DEF ChannelTypes, ThreadTypes
  <2> QED
    BY <1>1, <2>1, <2>2, FaultTypes DEF PeerTypes, ChannelTypes
<1> QED
  BY <1>3, <1>4, <1>5, <1>6, <1>7 DEF PeerNext

LEMMA HostIsClient == HostNext => ClientNext
BY DEF HostNext, ClientNext
----------------------------------------------------------------------------
\* The order of generations, and the one connection.

InOrder == WorkerInOrder(workerGen, worker \in {"Waiting", "Done"})

\* What of the invariant is about the worker and its sockets alone.
Placed == SocketIsBehind /\ OneSocket

LEMMA BehindTypes ==
  ASSUME TypeOK, Placed
  PROVE  /\ workerGen \in Nat /\ socket \in Int /\ socket <= workerGen
         /\ worker = "Live" => socket = workerGen
         /\ worker = "Closing" => socket # -1
         /\ worker \in {"Dialing", "Accepting", "Waiting", "Backoff"} => socket < workerGen
         /\ worker \in {"Live", "Closing"} => open \subseteq {socket}
         /\ worker \notin {"Live", "Closing"} => open = {}
BY DEF TypeOK, WorkerTypes, Placed, SocketIsBehind, OneSocket, Generation

LEMMA WorkerStepKeeps ==
  ASSUME TypeOK, InOrder, Placed, WorkerNext, UNCHANGED clientVars
  PROVE  /\ InOrderAfter(workerGen', worker' \in {"Waiting", "Done"})
         /\ Placed'
<1> DEFINE w == worker \in {"Waiting", "Done"}
           v == worker' \in {"Waiting", "Done"}
           n == Head(notices)
<1>0. /\ ChannelTypes /\ ClientTypes /\ clientGen' = clientGen
      /\ WorkerInOrder(workerGen, w) /\ w \in BOOLEAN /\ v \in BOOLEAN
  BY DEF TypeOK, InOrder, clientVars
<1>b. /\ workerGen \in Nat /\ socket \in Int /\ socket <= workerGen
      /\ worker = "Live" => socket = workerGen
      /\ worker = "Closing" => socket # -1
      /\ worker \in {"Dialing", "Accepting", "Waiting", "Backoff"} => socket < workerGen
      /\ worker \in {"Live", "Closing"} => open \subseteq {socket}
      /\ worker \notin {"Live", "Closing"} => open = {}
  BY BehindTypes
<1>1. ASSUME workerGen' = workerGen, w => v,
             notices' = notices \/ (notices # <<>> /\ notices' = Tail(notices))
      PROVE  InOrderAfter(workerGen', v)
  BY <1>0, <1>1, <1>b, StillInOrder
<1>2. ASSUME notices # <<>>, notices' = Tail(notices)
      PROVE  /\ n.gen \in Nat
             /\ n.type = "Reconnect" => InOrderAfter(n.gen, v)
             /\ n.type = "Stop" => InOrderAfter(n.gen + 1, v)
             /\ n.type = "Restart" => /\ InOrderAfter(n.gen, v)
                                      /\ workerGen < n.gen \/ (workerGen = n.gen /\ w)
  BY <1>0, <1>2, <1>b, DecisionInOrder
<1>3. ASSUME notices' = notices, ~w PROVE InOrderAfter(workerGen + 1, TRUE)
  <2>1. WorkerInOrder(workerGen, FALSE)
    BY <1>0, <1>3
  <2> QED
    BY <1>0, <1>3, <1>b, <2>1, LossInOrder
<1> SUFFICES InOrderAfter(workerGen', v) /\ Placed'
  OBVIOUS
<1> HIDE DEF w, v
<1>4. ASSUME UNCHANGED <<workerGen, worker, socket, open>> PROVE Placed'
  BY <1>4 DEF Placed, SocketIsBehind, OneSocket
<1>5. ASSUME UNCHANGED <<workerGen, worker, socket, open>>,
             notices' = notices \/ (notices # <<>> /\ notices' = Tail(notices))
      PROVE  InOrderAfter(workerGen', v) /\ Placed'
  <2>1. w => v
    BY <1>5 DEF w, v
  <2> QED
    BY <1>1, <1>4, <1>5, <2>1
<1>6. CASE OnShutdown
  <2>1. /\ notices # <<>> /\ notices' = Tail(notices) /\ workerGen' = workerGen /\ socket' = socket
        /\ open' = open
    BY <1>6 DEF OnShutdown, Take, peerVars
  <2>2. \/ worker = "Live" /\ worker' = "Closing"
        \/ worker = "Closing" /\ worker' = "Closing"
        \/ worker \in Unconnected /\ worker' = "Done"
    BY <1>6 DEF OnShutdown, Close, Over
  <2>3. w => v
    BY <2>2 DEF w, v, Unconnected
  <2>4. Placed'
    BY <1>b, <2>1, <2>2 DEF Placed, SocketIsBehind, OneSocket, Unconnected
  <2> QED
    BY <1>1, <2>1, <2>3, <2>4
<1>7. CASE OnHandshaken \/ OnReplied
  BY <1>5, <1>7 DEF OnHandshaken, OnReplied, Take, peerVars
<1>8. CASE OnReconnect
  <2>1. /\ notices # <<>> /\ notices' = Tail(notices) /\ n.type = "Reconnect"
        /\ UNCHANGED <<workerGen, socket, open>>
        /\ worker' = IF worker = "Waiting" /\ n.gen = workerGen THEN "Backoff" ELSE worker
    BY <1>8 DEF OnReconnect, Take, peerVars
  <2>2. CASE worker = "Waiting" /\ n.gen = workerGen
    <3>1. InOrderAfter(workerGen', v)
      BY <1>2, <2>1, <2>2
    <3>2. Placed'
      BY <1>b, <2>1, <2>2 DEF Placed, SocketIsBehind, OneSocket
    <3> QED
      BY <3>1, <3>2
  <2>3. CASE ~(worker = "Waiting" /\ n.gen = workerGen)
    BY <1>5, <2>1, <2>3
  <2> QED
    BY <2>2, <2>3
<1>9. CASE OnStop
  <2>1. notices # <<>> /\ notices' = Tail(notices) /\ n.type = "Stop"
    BY <1>9 DEF OnStop, Take
  <2>2. CASE Dropped
    BY <1>5, <2>1, <2>2 DEF Dropped, workerVars, peerVars
  <2>3. CASE ~Dropped
    <3>1. /\ workerGen' = n.gen + 1 /\ n.gen = workerGen /\ socket' = socket /\ open' = open
          /\ \/ worker = "Live" /\ worker' = "Closing"
             \/ worker \in Unconnected /\ worker' = "Idle"
      BY <1>9, <2>3 DEF OnStop, Close, peerVars
    <3>2. InOrderAfter(workerGen', v)
      BY <1>2, <2>1, <3>1
    <3>3. Placed'
      BY <1>b, <3>1 DEF Placed, SocketIsBehind, OneSocket, Unconnected
    <3> QED
      BY <3>2, <3>3
  <2> QED
    BY <2>2, <2>3
<1>10. CASE OnRestart
  <2>1. notices # <<>> /\ notices' = Tail(notices) /\ n.type = "Restart" /\ worker # "Done"
    BY <1>10 DEF OnRestart, Take
  <2>2. CASE Dropped
    BY <1>5, <2>1, <2>2 DEF Dropped, workerVars, peerVars
  <2>3. CASE ~Dropped
    <3>1. /\ workerGen' = n.gen /\ worker' = "Dialing" /\ socket' = socket
          /\ IF worker \in {"Live", "Closing"} THEN open' = open \ {socket} ELSE open' = open
      BY <1>10, <2>3 DEF OnRestart, End
    <3>2. n.gen \in Nat /\ InOrderAfter(workerGen', v)
      BY <1>2, <2>1, <3>1
    <3>3. workerGen < n.gen \/ (workerGen = n.gen /\ worker = "Waiting")
      BY <1>2, <2>1 DEF w
    <3>4. socket < n.gen
      <4>1. CASE workerGen < n.gen
        BY <1>b, <3>2, <4>1
      <4>2. CASE workerGen = n.gen /\ worker = "Waiting"
        BY <1>b, <4>2
      <4> QED
        BY <3>3, <4>1, <4>2
    <3>5. open' = {}
      BY <1>b, <3>1
    <3>6. Placed'
      BY <1>b, <3>1, <3>2, <3>4, <3>5 DEF Placed, SocketIsBehind, OneSocket
    <3> QED
      BY <3>2, <3>6
  <2> QED
    BY <2>2, <2>3
<1>11. ASSUME Drain(cause'), worker = "Live", UNCHANGED <<workerGen, socket>>
       PROVE  Placed' /\ (w => v)
  <2>1. open' = {} /\ worker' = "Draining"
    BY <1>11, <1>b DEF Drain, End
  <2> QED
    BY <1>11, <1>b, <2>1 DEF w, v, Placed, SocketIsBehind, OneSocket
<1>12. CASE OnThreadNotice
  <2>1. notices # <<>> /\ notices' = Tail(notices) /\ UNCHANGED <<workerGen, socket>>
    BY <1>12 DEF OnThreadNotice, Take
  <2>2. \/ worker = "Live" /\ Drain(cause')
        \/ UNCHANGED <<worker, open>>
    BY <1>12 DEF OnThreadNotice, Drain
  <2> QED
    BY <1>1, <1>5, <1>11, <2>1, <2>2
<1>13. CASE DeadlineFires
  BY <1>1, <1>11, <1>13 DEF DeadlineFires, Drain, channelVars
<1>14. ASSUME Open, worker \in {"Dialing", "Accepting", "Backoff"}, workerGen' = workerGen,
              notices' = notices
       PROVE  InOrderAfter(workerGen', v) /\ Placed'
  <2>1. open' = {workerGen} /\ socket' = workerGen /\ worker' = "Live"
    BY <1>14, <1>b DEF Open
  <2>2. w => v
    BY <1>14 DEF w
  <2>3. Placed'
    BY <1>14, <1>b, <2>1 DEF Placed, SocketIsBehind, OneSocket
  <2> QED
    BY <1>1, <1>14, <2>2, <2>3
<1>15. CASE DialUp
  BY <1>14, <1>15 DEF DialUp
<1>16. CASE DialFails \/ ReplyExpires
  BY <1>5, <1>16 DEF DialFails, ReplyExpires, peerVars
<1>17. CASE DialGivesUp
  <2>1. /\ worker = "Dialing" /\ workerGen' = workerGen + 1 /\ worker' = "Waiting"
        /\ UNCHANGED <<socket, open, notices>>
    BY <1>17 DEF DialGivesUp
  <2>2. InOrderAfter(workerGen', v)
    BY <1>3, <2>1 DEF w, v
  <2>3. Placed'
    BY <1>b, <2>1 DEF Placed, SocketIsBehind, OneSocket
  <2> QED
    BY <2>2, <2>3
<1>18. CASE Accept
  <2>1. CASE Open
    BY <1>14, <1>18, <2>1 DEF Accept
  <2>2. CASE ~Open
    <3>1. /\ worker = "Accepting" /\ worker' = "Done" /\ UNCHANGED <<workerGen, socket, open, notices>>
      BY <1>18, <2>2 DEF Accept, Over
    <3>2. Placed' /\ (w => v)
      BY <1>b, <3>1 DEF w, v, Placed, SocketIsBehind, OneSocket
    <3> QED
      BY <1>1, <3>1, <3>2
  <2> QED
    BY <2>1, <2>2
<1>19. CASE DrainDone
  <2>1. worker = "Draining" /\ UNCHANGED <<socket, open, notices>>
    BY <1>19 DEF DrainDone, peerVars
  <2>2. \/ workerGen' = workerGen + 1 /\ worker' = "Waiting"
        \/ workerGen' = workerGen /\ worker' = "Done"
    BY <1>19 DEF DrainDone, Over
  <2>3. Placed'
    BY <1>b, <2>1, <2>2 DEF Placed, SocketIsBehind, OneSocket
  <2>4. ~w /\ v
    BY <2>1, <2>2 DEF w, v
  <2> QED
    BY <1>1, <1>3, <2>1, <2>2, <2>3, <2>4
<1>20. CASE Redial
  <2>1. CASE Open
    BY <1>14, <1>20, <2>1 DEF Redial
  <2>2. CASE ~Open
    BY <1>5, <1>20, <2>2 DEF Redial
  <2> QED
    BY <2>1, <2>2
<1>21. CASE ClosingOver
  <2>1. worker = "Closing" /\ worker' \in {"Done", "Idle"} /\ UNCHANGED <<workerGen, socket, notices>>
    BY <1>21 DEF ClosingOver, Over
  <2>2. open' = {}
    BY <1>21, <1>b, <2>1 DEF ClosingOver, End
  <2>3. Placed' /\ (w => v)
    BY <1>b, <2>1, <2>2 DEF w, v, Placed, SocketIsBehind, OneSocket
  <2> QED
    BY <1>1, <2>1, <2>3
<1> QED
  BY <1>6, <1>7, <1>8, <1>9, <1>10, <1>12, <1>13, <1>15, <1>16, <1>17, <1>18, <1>19, <1>20, <1>21
  DEF WorkerNext, TakeNotice, Tick

LEMMA PeerStepKeeps ==
  ASSUME TypeOK, InOrder, Placed, PeerNext, UNCHANGED clientVars
  PROVE  /\ InOrderAfter(workerGen', worker' \in {"Waiting", "Done"})
         /\ Placed'
<1> DEFINE w == worker \in {"Waiting", "Done"}
<1>0. /\ ChannelTypes /\ ClientTypes /\ clientGen' = clientGen /\ workerGen \in Nat
      /\ WorkerInOrder(workerGen, w) /\ w \in BOOLEAN
      /\ open \subseteq Generation /\ reading \subseteq Generation
  BY DEF TypeOK, InOrder, WorkerTypes, PeerTypes, clientVars, Generation
<1>1. UNCHANGED workerVars /\ open' = open
  BY DEF PeerNext, PeerAnswers, PeerCloses, ReaderDelivers, ReaderEnds, WriterTrouble
<1>2. \/ notices' = notices
      \/ \E n \in Notice : n.type \in ThreadTypes /\ notices' = Append(notices, n)
  <2>1. \A type \in ThreadTypes, g \in Generation :
          Tell(type, g) \in Notice /\ Tell(type, g).type \in ThreadTypes
    BY MessageTypes DEF Tell
  <2>2. CASE PeerAnswers \/ PeerCloses
    BY <2>2 DEF PeerAnswers, PeerCloses, channelVars
  <2>3. CASE ReaderDelivers
    BY <1>0, <2>1, <2>3 DEF ReaderDelivers, ThreadTypes
  <2>4. CASE ReaderEnds
    BY <1>0, <2>1, <2>4 DEF ReaderEnds, ThreadTypes
  <2>5. CASE WriterTrouble
    BY <1>0, <2>1, <2>5 DEF WriterTrouble, ThreadTypes
  <2> QED
    BY <2>2, <2>3, <2>4, <2>5 DEF PeerNext
<1>3. Placed'
  BY <1>1 DEF workerVars, Placed, SocketIsBehind, OneSocket
<1>4. InOrderAfter(workerGen, w)
  <2>1. CASE notices' = notices
    BY <1>0, <2>1, StillInOrder
  <2>2. CASE notices' # notices
    BY <1>0, <1>2, <2>2, ThreadsKeepOrder
  <2> QED
    BY <2>1, <2>2
<1> QED
  BY <1>1, <1>3, <1>4 DEF workerVars

\* Whatever steps, the worker stays in order and holds what is open.
LEMMA StepKeeps ==
  ASSUME TypeOK, InOrder, Placed, [Next]_vars
  PROVE  InOrder' /\ Placed'
<1>0. ASSUME InOrderAfter(workerGen', worker' \in {"Waiting", "Done"})
      PROVE  InOrder'
  BY <1>0 DEF InOrder, WorkerInOrder, InOrderAfter
<1>1. CASE HostNext /\ UNCHANGED <<workerVars, peerVars, mode>>
  <2>1. /\ ChannelTypes /\ ClientTypes /\ ClientNext /\ workerGen \in Nat
        /\ (worker \in {"Waiting", "Done"}) \in BOOLEAN
        /\ WorkerInOrder(workerGen, worker \in {"Waiting", "Done"})
        /\ UNCHANGED <<workerGen, worker>>
    BY <1>1, HostIsClient DEF TypeOK, InOrder, WorkerTypes, workerVars, Generation
  <2>2. InOrderAfter(workerGen, worker \in {"Waiting", "Done"})
    BY <2>1, ClientKeepsOrder
  <2>3. Placed'
    BY <1>1 DEF workerVars, peerVars, Placed, SocketIsBehind, OneSocket
  <2> QED
    BY <1>0, <2>1, <2>2, <2>3
<1>2. CASE (WorkerNext \/ PeerNext) /\ UNCHANGED clientVars
  BY <1>0, <1>2, WorkerStepKeeps, PeerStepKeeps
<1>3. CASE UNCHANGED vars
  BY <1>3 DEF vars, clientVars, workerVars, peerVars, channelVars, InOrder, WorkerInOrder,
              ToldIsReached, RestartsAreNewer, Placed, SocketIsBehind, OneSocket
<1> QED
  BY <1>1, <1>2, <1>3 DEF Next
----------------------------------------------------------------------------
\* The manners of a shutdown.

LEMMA PoliteForm == PoliteGoodbye <=> \A g : <<g, "shutdown">> \in sent => g \in acked
<1>1. ASSUME NEW g, <<g, "shutdown">> \in sent PROVE g \in {pair[1] : pair \in sent}
  <2>1. <<g, "shutdown">>[1] = g
    OBVIOUS
  <2> QED
    BY <1>1, <2>1
<1> QED
  BY <1>1 DEF PoliteGoodbye

LEMMA PoliteNext ==
  ASSUME \A g : <<g, "shutdown">> \in sent' => g \in acked'
  PROVE  PoliteGoodbye'
<1>1. (PoliteGoodbye <=> \A g : <<g, "shutdown">> \in sent => g \in acked)'
  BY PoliteForm, PTL
<1> QED
  BY <1>1

\* A report is in flight once it is made, and until the client received it.
LEMMA ReportedFlies ==
  ASSUME TypeOK, NEW e \in Event, Reported(e), inbox' = inbox
  PROVE  \A x : x \in InFlight' <=> x \in InFlight \/ x = e
<1>1. \A x : x \in Carried(events)' <=> x \in Carried(events) \/ x = e
  BY CarriedMore DEF TypeOK, ChannelTypes, Carried, Reported
<1>2. Carried(inbox)' = Carried(inbox)
  BY DEF Carried
<1> QED
  BY <1>1, <1>2 DEF InFlight

LEMMA ClientHandshake ==
  ASSUME TypeOK, HandshakeIsTrue, PoliteGoodbye, HostNext, UNCHANGED <<workerVars, peerVars>>
  PROVE  HandshakeIsTrue' /\ PoliteGoodbye'
<1>0. ClientNext /\ UNCHANGED <<pipe, acked>>
  BY HostIsClient DEF peerVars
<1>1. /\ \A e \in InFlight' : e.type = "Message" /\ e.arg = "initialized" => e.gen \in acked
      /\ \A e \in Carried(local)' : e.type = "Status"
  BY <1>0, ClientFlight DEF HandshakeIsTrue, OwnAreStatuses, TypeOK
<1>2. \A n \in Carried(notices) : TrueGoodbye(n, acked)
  BY DEF HandshakeIsTrue, TrueGoodbye
<1>3. /\ session' = "Running" => link' \in acked
      /\ \/ notices' = notices
         \/ \E n \in Notice : notices' = Append(notices, n) /\ TrueGoodbye(n, acked)
  <2>1. /\ \A e \in InFlight : e.type = "Message" /\ e.arg = "initialized" => e.gen \in acked
        /\ session = "Running" => link \in acked
    BY DEF HandshakeIsTrue
  <2> QED
    BY <1>0, <2>1, ClientBelieves DEF TypeOK
<1>4. \A n \in Carried(notices)' : TrueGoodbye(n, acked)
  BY <1>2, <1>3, ToldCarries, FlightUnmoved DEF TypeOK
<1>5. HandshakeIsTrue'
  BY <1>0, <1>1, <1>3, <1>4 DEF HandshakeIsTrue, TrueGoodbye
<1>6. \A g : <<g, "shutdown">> \in sent' => <<g, "shutdown">> \in sent
  BY DEF HostNext, Receive, RestartCall, RestartReturn, ShutdownCall, DropClient, Poll,
         ReceiveInitialized, ReceiveRefused, ReceiveStale, ReceiveLost, ReceiveAttempting,
         ReceiveReconnected, ReceiveStopped, ReceiveStatus, Ignored, channelVars
<1>7. PoliteGoodbye'
  BY <1>0, <1>6, PoliteForm, PoliteNext
<1> QED
  BY <1>5, <1>7

\* The worker reports no message of a server, and what it takes from its inbox it takes from the
\* head.
LEMMA WorkerReports ==
  ASSUME TypeOK, WorkerNext
  PROVE  /\ events' = events \/ \E e \in Event : Reported(e) /\ e.type # "Message"
         /\ notices' = notices \/ (notices # <<>> /\ notices' = Tail(notices))
         /\ UNCHANGED <<pipe, acked>>
<1>0. /\ workerGen \in Generation /\ workerGen + 1 \in Generation /\ cause \in Reasons
      /\ \A why \in Reasons :
           Report("Stopped", 0, why) \in Event /\ Report("Stopped", 0, why).type # "Message"
      /\ \A type \in {"Attempting", "Reconnected"} :
           /\ Report(type, workerGen, "none") \in Event
           /\ Report(type, workerGen, "none").type # "Message"
      /\ \A why \in Reasons :
           /\ Report("Lost", workerGen + 1, why) \in Event
           /\ Report("Lost", workerGen + 1, why).type # "Message"
  <2>1. workerGen \in Generation /\ workerGen + 1 \in Generation /\ 0 \in Generation
    BY NextGeneration DEF TypeOK, WorkerTypes, Generation
  <2> QED
    BY <2>1, MessageTypes DEF TypeOK, WorkerTypes, Report
<1>1. /\ \A why \in Reasons :
           Over(why) => \E e \in Event : Reported(e) /\ e.type # "Message"
      /\ Open => events' = events \/ \E e \in Event : Reported(e) /\ e.type # "Message"
  BY <1>0 DEF Over, Open
<1>2. {"Shutdown", "Failed"} \subseteq Reasons
  BY DEF Reasons
<1>3. CASE OnShutdown \/ ClosingOver
  BY <1>1, <1>2, <1>3 DEF OnShutdown, ClosingOver, Take, peerVars
<1>4. CASE OnHandshaken \/ OnReconnect \/ OnStop \/ OnRestart
  BY <1>4 DEF OnHandshaken, OnReconnect, OnStop, OnRestart, Dropped, Take, peerVars
<1>5. CASE OnThreadNotice \/ OnReplied \/ ReplyExpires \/ DialFails \/ DeadlineFires
  BY <1>5 DEF OnThreadNotice, OnReplied, ReplyExpires, DialFails, DeadlineFires, Take, peerVars,
              channelVars
<1>6. CASE DialUp \/ Accept \/ Redial
  BY <1>0, <1>1, <1>2, <1>6 DEF DialUp, Accept, Redial
<1>7. CASE DialGivesUp
  BY <1>0, <1>2, <1>7 DEF DialGivesUp
<1>8. CASE DrainDone
  BY <1>0, <1>1, <1>8 DEF DrainDone, peerVars
<1> QED
  BY <1>3, <1>4, <1>5, <1>6, <1>7, <1>8 DEF WorkerNext, TakeNotice, Tick

\* The worker asks for a shutdown only on the word of a client that heard the server of this very
\* connection answer.
LEMMA WorkerAsks ==
  ASSUME TypeOK, Placed, HandshakeIsTrue, PoliteGoodbye, WorkerNext
  PROVE  \A g : <<g, "shutdown">> \in sent' => g \in acked
<1>0. \A g : <<g, "shutdown">> \in sent => g \in acked
  BY PoliteForm
<1>1. \A g : <<g, "shutdown">> \in sent \cup {<<socket, "exit">>} => g \in acked
  BY <1>0
<1>2. CASE OnShutdown
  <2> DEFINE n == Head(notices)
  <2>1. n \in Carried(notices) /\ n.type = "Shutdown"
    BY <1>2, CarriedLess DEF OnShutdown, Take, TypeOK, ChannelTypes
  <2>2. n.done => n.gen \in acked
    BY <2>1 DEF HandshakeIsTrue
  <2>3. CASE sent' = sent \cup {<<socket, "shutdown">>} /\ n.done /\ n.gen = workerGen
             /\ worker = "Live"
    <3>1. socket \in acked
      BY <2>2, <2>3, BehindTypes
    <3> QED
      BY <1>0, <2>3, <3>1
  <2>4. \/ sent' = sent \/ sent' = sent \cup {<<socket, "exit">>}
        \/ sent' = sent \cup {<<socket, "shutdown">>} /\ n.done /\ n.gen = workerGen
             /\ worker = "Live"
    BY <1>2 DEF OnShutdown, Close, Leave
  <2> QED
    BY <1>0, <1>1, <2>3, <2>4
<1>3. CASE ~OnShutdown
  <2>1. sent' = sent \/ sent' = sent \cup {<<socket, "exit">>}
    <3>1. CASE OnHandshaken \/ OnReconnect \/ OnRestart \/ OnThreadNotice
      BY <3>1 DEF OnHandshaken, OnReconnect, OnRestart, OnThreadNotice, Dropped
    <3>2. CASE OnStop \/ OnReplied \/ ReplyExpires
      BY <3>2 DEF OnStop, OnReplied, ReplyExpires, Dropped, Close, Leave
    <3>3. CASE DialUp \/ DialFails \/ DialGivesUp \/ Accept \/ DeadlineFires
      BY <3>3 DEF DialUp, DialFails, DialGivesUp, Accept, DeadlineFires, channelVars
    <3>4. CASE DrainDone \/ Redial \/ ClosingOver
      BY <3>4 DEF DrainDone, Redial, ClosingOver
    <3> QED
      BY <1>3, <3>1, <3>2, <3>3, <3>4 DEF WorkerNext, TakeNotice, Tick
  <2> QED
    BY <1>0, <1>1, <2>1
<1> QED
  BY <1>2, <1>3

LEMMA WorkerHandshake ==
  ASSUME TypeOK, Placed, HandshakeIsTrue, PoliteGoodbye, WorkerNext, UNCHANGED clientVars
  PROVE  HandshakeIsTrue' /\ PoliteGoodbye'
<1>0. /\ inbox' = inbox /\ local' = local /\ session' = session /\ link' = link
      /\ UNCHANGED <<pipe, acked>>
  BY WorkerReports DEF clientVars
<1>1. \A x \in InFlight' : x \in InFlight \/ x.type # "Message"
  BY <1>0, WorkerReports, ReportedFlies, FlightUnmoved
<1>2. \A x \in Carried(notices)' : x \in Carried(notices)
  BY WorkerReports, TakenCarries, FlightUnmoved DEF TypeOK
<1>3. Carried(local)' = Carried(local)
  BY <1>0, FlightUnmoved
<1>4. HandshakeIsTrue'
  BY <1>0, <1>1, <1>2, <1>3 DEF HandshakeIsTrue
<1>5. PoliteGoodbye'
  BY <1>0, WorkerAsks, PoliteNext
<1> QED
  BY <1>4, <1>5

\* A reader passes on what the server wrote; nothing else of a connection's threads reaches the
\* client or ends the handshake.
LEMMA PeerHandshake ==
  ASSUME TypeOK, HandshakeIsTrue, PoliteGoodbye, PeerNext, UNCHANGED clientVars
  PROVE  HandshakeIsTrue' /\ PoliteGoodbye'
<1>0. /\ inbox' = inbox /\ local' = local /\ session' = session /\ link' = link
      /\ \A r \in pipe : r[2] = "initialized" => r[1] \in acked
      /\ open \subseteq Generation /\ reading \subseteq Generation
  BY DEF HandshakeIsTrue, clientVars, TypeOK, PeerTypes
<1>1. /\ sent' = sent /\ acked \subseteq acked'
      /\ \A r \in pipe' : r[2] = "initialized" => r[1] \in acked'
      /\ \/ events' = events
         \/ \E g \in reading, reply \in Replies :
              <<g, reply>> \in pipe /\ Reported(Report("Message", g, reply))
      /\ \/ notices' = notices
         \/ \E n \in Notice : n.type # "Shutdown" /\ notices' = Append(notices, n)
  <2>1. CASE PeerAnswers
    BY <1>0, <2>1 DEF PeerAnswers, channelVars
  <2>2. CASE PeerCloses
    BY <1>0, <2>2 DEF PeerCloses, channelVars
  <2>3. \A type \in ThreadTypes, g \in Generation :
          Tell(type, g) \in Notice /\ Tell(type, g).type # "Shutdown"
    BY MessageTypes DEF Tell, ThreadTypes
  <2>4. CASE ReaderDelivers
    BY <1>0, <2>3, <2>4 DEF ReaderDelivers, ThreadTypes
  <2>5. CASE ReaderEnds
    BY <1>0, <2>3, <2>5 DEF ReaderEnds, ThreadTypes
  <2>6. CASE WriterTrouble
    BY <1>0, <2>3, <2>6 DEF WriterTrouble, ThreadTypes
  <2> QED
    BY <2>1, <2>2, <2>4, <2>5, <2>6 DEF PeerNext
<1>2. \A x \in InFlight' : x.type = "Message" /\ x.arg = "initialized" => x.gen \in acked'
  <2>1. CASE events' = events
    BY <1>0, <1>1, <2>1, FlightUnmoved DEF HandshakeIsTrue
  <2>2. CASE events' # events
    <3>1. PICK g \in reading, reply \in Replies :
            <<g, reply>> \in pipe /\ Reported(Report("Message", g, reply))
      BY <1>1, <2>2
    <3>2. Report("Message", g, reply) \in Event
      BY <1>0, MessageTypes
    <3>3. reply = "initialized" => g \in acked
      BY <1>0, <3>1
    <3>4. \A x \in InFlight' : x \in InFlight \/ x = Report("Message", g, reply)
      BY <1>0, <3>1, <3>2, ReportedFlies
    <3> QED
      BY <1>1, <3>3, <3>4 DEF HandshakeIsTrue, Report
  <2> QED
    BY <2>1, <2>2
<1>3. \A x \in Carried(notices)' : x \in Carried(notices) \/ x.type # "Shutdown"
  BY <1>1, ToldCarries, FlightUnmoved DEF TypeOK
<1>4. Carried(local)' = Carried(local)
  BY <1>0, FlightUnmoved
<1>5. HandshakeIsTrue'
  BY <1>0, <1>1, <1>2, <1>3, <1>4 DEF HandshakeIsTrue
<1>6. PoliteGoodbye'
  BY <1>1, PoliteForm, PoliteNext
<1> QED
  BY <1>5, <1>6

----------------------------------------------------------------------------
LEMMA InitInv == Init => SocketInv
<1> SUFFICES ASSUME Init PROVE SocketInv
  OBVIOUS
<1>1. /\ notices = <<>> /\ events = <<>> /\ inbox = <<>> /\ local = <<>> /\ clientGen = 0
      /\ workerGen = 0 /\ socket = -1 /\ worker \in {"Dialing", "Accepting"}
      /\ open = {} /\ pipe = {} /\ session = "Initializing" /\ sent = {<<0, "initialize">>}
  BY DEF Init, ClientInit, WorkerInit
<1>2. TypeOK
  BY InitTypes
<1>3. WorkerInOrder(workerGen, worker \in {"Waiting", "Done"})
  BY <1>1 DEF WorkerInOrder, ToldIsReached, RestartsAreNewer
<1>4. SocketIsBehind /\ OneSocket
  BY <1>1 DEF SocketIsBehind, OneSocket
<1>5. HandshakeIsTrue
  BY <1>1, CarriedNone DEF HandshakeIsTrue, InFlight
<1>6. PoliteGoodbye
  BY <1>1, PoliteForm
<1> QED
  BY <1>2, <1>3, <1>4, <1>5, <1>6 DEF SocketInv

LEMMA NextInv == SocketInv /\ [Next]_vars => SocketInv'
<1> SUFFICES ASSUME SocketInv, [Next]_vars PROVE SocketInv'
  OBVIOUS
<1>0. TypeOK /\ InOrder /\ Placed /\ SocketIsBehind /\ HandshakeIsTrue /\ PoliteGoodbye
  BY DEF SocketInv, InOrder, Placed
<1>1. InOrder' /\ Placed'
  BY <1>0, StepKeeps
<1>2. TypeOK' /\ HandshakeIsTrue' /\ PoliteGoodbye'
  <2>1. CASE HostNext /\ UNCHANGED <<workerVars, peerVars, mode>>
    <3>1. ClientTypes' /\ ChannelTypes'
      BY <1>0, <2>1, HostIsClient, ClientTypesKept DEF TypeOK
    <3>2. WorkerTypes' /\ PeerTypes'
      BY <1>0, <2>1 DEF TypeOK, WorkerTypes, PeerTypes, workerVars, peerVars
    <3> QED
      BY <1>0, <2>1, <3>1, <3>2, ClientHandshake DEF TypeOK
  <2>2. CASE (WorkerNext \/ PeerNext) /\ UNCHANGED clientVars
    <3>1. WorkerTypes' /\ PeerTypes' /\ ChannelTypes'
      BY <1>0, <2>2, WorkerTypesKept, PeerTypesKept
    <3>2. ClientTypes'
      BY <1>0, <2>2 DEF TypeOK, ClientTypes, clientVars
    <3> QED
      BY <1>0, <2>2, <3>1, <3>2, WorkerHandshake, PeerHandshake DEF TypeOK
  <2>3. CASE UNCHANGED vars
    <3>1. TypeOK'
      BY <1>0, <2>3 DEF vars, clientVars, workerVars, peerVars, channelVars, TypeOK, ClientTypes,
                        ChannelTypes, WorkerTypes, PeerTypes
    <3> QED
      BY <1>0, <2>3, <3>1 DEF vars, clientVars, peerVars, channelVars, HandshakeIsTrue,
                              PoliteGoodbye, InFlight, Carried
  <2> QED
    BY <2>1, <2>2, <2>3 DEF Next
<1> QED
  BY <1>1, <1>2 DEF SocketInv, InOrder, Placed

LEMMA InvIsSafe == SocketInv => SocketSafety
<1> SUFFICES ASSUME SocketInv PROVE SocketSafety
  OBVIOUS
<1>1. /\ ChannelTypes /\ ClientTypes /\ workerGen \in Nat
      /\ WorkerInOrder(workerGen, worker \in {"Waiting", "Done"})
  BY DEF SocketInv, TypeOK, WorkerTypes, Generation
<1>2. \A i \in 1..Len(notices) : notices[i].type = "Restart" => notices[i].gen >= workerGen
  <2> DEFINE w == worker \in {"Waiting", "Done"}
  <2>1. w \in BOOLEAN /\ WorkerInOrder(workerGen, w)
    BY <1>1
  <2> HIDE DEF w
  <2> QED
    BY <1>1, <2>1, InOrderNeverBehind
<1> QED
  BY <1>2 DEF SocketInv, SocketSafety, NeverBehind

----------------------------------------------------------------------------
\* The connection.

\* What a step may do to the connection: nothing or end it, be done, or open a newer one.
OneConnection ==
  \/ socket' = socket /\ open' \in {open, {}} /\ (worker' = "Done" <=> worker = "Done")
  \/ socket' = socket /\ open' = {} /\ worker' = "Done"
  \/ /\ worker # "Done" /\ worker' # "Done"
     /\ socket' \in Nat /\ socket' > socket /\ open' = {socket'}

LEMMA OpenConnects ==
  ASSUME TypeOK, Placed, Open, worker \in {"Dialing", "Accepting", "Backoff"}
  PROVE  OneConnection
<1>1. workerGen \in Nat /\ socket < workerGen /\ open = {}
  BY BehindTypes
<1> QED
  BY <1>1 DEF Open, OneConnection

LEMMA WorkerConnects ==
  ASSUME TypeOK, Placed, OneSocket', WorkerNext
  PROVE  OneConnection
<1>0. /\ worker # "Done" /\ open \subseteq {socket}
      /\ worker' = "Done" => open' = {}
  <2>1. worker # "Done"
    BY DEF WorkerNext, TakeNotice, Tick, OnShutdown, OnHandshaken, OnReconnect, OnStop, OnRestart,
           OnThreadNotice, OnReplied, Take, DialUp, DialFails, DialGivesUp, Accept, DeadlineFires,
           DrainDone, Redial, ReplyExpires, ClosingOver
  <2> QED
    BY <2>1, BehindTypes DEF OneSocket
<1>1. ASSUME socket' = socket, open' \in {open, open \ {socket}} PROVE OneConnection
  BY <1>0, <1>1 DEF OneConnection
<1>2. CASE TakeNotice
  <2>1. CASE OnShutdown \/ OnHandshaken \/ OnReconnect \/ OnStop \/ OnReplied
    BY <1>1, <2>1
    DEF OnShutdown, OnHandshaken, OnReconnect, OnStop, OnReplied, Dropped, workerVars, peerVars
  <2>2. CASE OnRestart
    BY <1>1, <2>2 DEF OnRestart, Dropped, End, workerVars, peerVars
  <2>3. CASE OnThreadNotice
    BY <1>1, <2>3 DEF OnThreadNotice, Drain, End
  <2> QED
    BY <1>2, <2>1, <2>2, <2>3 DEF TakeNotice
<1>3. CASE DialUp
  BY <1>3, OpenConnects DEF DialUp
<1>4. CASE Accept
  BY <1>1, <1>4, OpenConnects DEF Accept
<1>5. CASE Redial
  BY <1>1, <1>5, OpenConnects DEF Redial
<1>6. CASE DialFails \/ DialGivesUp \/ DeadlineFires \/ DrainDone \/ ReplyExpires \/ ClosingOver
  BY <1>1, <1>6
  DEF DialFails, DialGivesUp, DeadlineFires, DrainDone, ReplyExpires, ClosingOver, Drain, End, peerVars
<1> QED
  BY <1>2, <1>3, <1>4, <1>5, <1>6 DEF WorkerNext, Tick

LEMMA StepConnects ==
  ASSUME SocketInv, [Next]_vars PROVE OneConnection
<1>0. TypeOK /\ Placed /\ OneSocket'
  <2>1. TypeOK /\ InOrder /\ Placed
    BY DEF SocketInv, InOrder, Placed
  <2>2. Placed'
    BY <2>1, StepKeeps
  <2> QED
    BY <2>1, <2>2 DEF Placed
<1>1. CASE WorkerNext
  BY <1>0, <1>1, WorkerConnects
<1>2. CASE ~WorkerNext
  <2>1. UNCHANGED <<socket, open, worker>>
    BY <1>2
    DEF Next, PeerNext, PeerAnswers, PeerCloses, ReaderDelivers, ReaderEnds, WriterTrouble, vars,
        workerVars, peerVars
  <2> QED
    BY <2>1 DEF OneConnection
<1> QED
  BY <1>1, <1>2
----------------------------------------------------------------------------
\* The two halves.

\* What is seen of the worker.
SeenWorker == WorkerSeen(workerGen, WorkerPart, socket, mode = "Listen")

\* What a step of the worker finds, and what it has to leave.
Standing ==
  /\ TypeOK /\ InOrder /\ Placed /\ OnlyRestartsFollow /\ FirstQueueOnly
  /\ InStep(ClientSeen, SeenWorker)

\* What is seen of the worker, part by part.
LEMMA SeenWorkerParts ==
  /\ SeenWorker.gen = workerGen /\ (SeenWorker').gen = workerGen'
  /\ SeenWorker.part = WorkerPart /\ (SeenWorker').part = WorkerPart'
  /\ SeenWorker.newest = socket /\ (SeenWorker').newest = socket'
  /\ SeenWorker.alone <=> mode = "Listen"
  /\ mode' = mode => (SeenWorker').alone = SeenWorker.alone
BY DEF SeenWorker, WorkerSeen

\* The parts the states play, now and after a step.
LEMMA PartNow ==
  ASSUME WorkerTypes
  PROVE  /\ WorkerPart \in Parts
         /\ worker \in {"Live", "Draining"} => WorkerPart = "Serving"
         /\ worker \in {"Dialing", "Accepting"} =>
               WorkerPart = IF queued THEN "Serving" ELSE "Trying"
         /\ worker = "Backoff" => WorkerPart = "Trying"
         /\ worker = "Idle" => WorkerPart = "Resting"
         /\ worker = "Closing" => WorkerPart = IF ending = "Stopped" THEN "Leaving" ELSE "Resting"
         /\ worker = "Done" <=> WorkerPart = "Gone"
         /\ worker = "Waiting" <=> WorkerPart = "Waiting"
BY DEF WorkerTypes, WorkerPart, Parts

\* The parts the states play after a step.
LEMMA PartNext ==
  ASSUME WorkerTypes'
  PROVE  /\ WorkerPart' \in Parts
         /\ worker' \in {"Live", "Draining"} => WorkerPart' = "Serving"
         /\ worker' \in {"Dialing", "Accepting"} =>
               WorkerPart' = IF queued' THEN "Serving" ELSE "Trying"
         /\ worker' = "Backoff" => WorkerPart' = "Trying"
         /\ worker' = "Idle" => WorkerPart' = "Resting"
         /\ worker' = "Closing" => WorkerPart' = IF ending' = "Stopped" THEN "Leaving" ELSE "Resting"
         /\ worker' = "Done" <=> WorkerPart' = "Gone"
         /\ worker' = "Waiting" <=> WorkerPart' = "Waiting"
BY DEF WorkerTypes, WorkerPart, Parts

\* What is seen of the worker is a view of one.
LEMMA SeenWorkerTypes ==
  /\ TypeOK => SeenWorker \in WorkerViews
  /\ TypeOK' => SeenWorker' \in WorkerViews
<1>1. TypeOK => SeenWorker \in WorkerViews
  BY PartNow DEF TypeOK, WorkerTypes, SeenWorker, WorkerSeen, WorkerViews, Generation
<1>2. TypeOK' => SeenWorker' \in WorkerViews
  BY PartNext DEF TypeOK, WorkerTypes, SeenWorker, WorkerSeen, WorkerViews, Generation
<1> QED
  BY <1>1, <1>2

\* The worker is in order with what is seen of the client.
LEMMA StandsInOrder ==
  ASSUME Standing PROVE InOrderSeen(ClientSeen, SeenWorker)
<1>1. WorkerInOrder(SeenWorker.gen, SeenWorker.part \in {"Waiting", "Gone"})
  <2>1. worker \in {"Waiting", "Done"} <=> WorkerPart \in {"Waiting", "Gone"}
    BY PartNow DEF Standing, TypeOK
  <2> QED
    BY <2>1, SeenWorkerParts DEF Standing, InOrder, WorkerInOrder
<1> QED
  BY <1>1, SeenInOrder DEF Standing, TypeOK

\* What is seen at a step of the worker or of the servers.
LEMMA WorkerSteps ==
  ASSUME Standing, TypeOK', UNCHANGED clientVars, mode' = mode
  PROVE  /\ ClientSeen \in ClientViews /\ ClientSeen' \in ClientViews
         /\ SeenWorker \in WorkerViews /\ SeenWorker' \in WorkerViews
         /\ Unmoved(ClientSeen, ClientSeen')
         /\ InStep(ClientSeen, SeenWorker) /\ InOrderSeen(ClientSeen, SeenWorker)
         /\ (SeenWorker').alone = SeenWorker.alone
         /\ UNCHANGED <<workerGen, WorkerPart, socket>> => SeenWorker' = SeenWorker
<1>1. ChannelTypes /\ ClientTypes /\ ChannelTypes' /\ ClientTypes' /\ RestartsAreNewer
  BY DEF Standing, TypeOK, InOrder, WorkerInOrder
<1>3. InOrderSeen(ClientSeen, SeenWorker)
  BY StandsInOrder
<1>4. UNCHANGED <<workerGen, WorkerPart, socket>> => SeenWorker' = SeenWorker
  BY DEF SeenWorker, WorkerSeen
<1> QED
  BY <1>1, <1>3, <1>4, SeenAtWork, SeenWorkerTypes, SeenWorkerParts DEF Standing

\* Only the first dial or accept holds the client's queue.
LEMMA FirstQueueKept ==
  ASSUME TypeOK, Placed, FirstQueueOnly, WorkerNext \/ PeerNext
  PROVE  FirstQueueOnly'
<1>0. mode' = mode /\ BOOLEAN = {TRUE, FALSE}
  BY DEF WorkerNext, PeerNext
<1> USE DEF FirstQueueOnly
<1>1. CASE UNCHANGED workerVars
  BY <1>0, <1>1 DEF workerVars
<1>2. CASE OnShutdown \/ OnStop \/ OnReconnect \/ OnHandshaken \/ OnReplied
  <2>1. CASE OnShutdown
    BY <1>0, <2>1 DEF OnShutdown, Close, Over, Forgotten, Unconnected
  <2>2. CASE OnStop
    BY <1>0, <1>1, <2>2 DEF OnStop, Close, Forgotten, Unconnected, Dropped
  <2>3. CASE OnReconnect \/ OnHandshaken \/ OnReplied
    BY <1>0, <2>3 DEF OnReconnect, OnHandshaken, OnReplied
  <2> QED
    BY <1>2, <2>1, <2>2, <2>3
<1>3. CASE OnRestart
  BY <1>0, <1>1, <1>3 DEF OnRestart, Forgotten, Dropped
<1>4. CASE OnThreadNotice
  <2>1. CASE worker = "Live" /\ Head(notices).gen = socket
    BY <1>0, <1>4, <2>1, BehindTypes DEF OnThreadNotice, Drain, LossReason
  <2>2. CASE worker # "Live" \/ Head(notices).gen # socket
    BY <1>0, <1>4, <2>2 DEF OnThreadNotice
  <2> QED
    BY <2>1, <2>2
<1>5. CASE DialUp \/ Accept \/ Redial
  BY <1>0, <1>5 DEF DialUp, Accept, Redial, Open, Forgotten, Over
<1>6. CASE DialFails \/ DialGivesUp \/ DrainDone \/ ReplyExpires \/ ClosingOver
  BY <1>0, <1>6 DEF DialFails, DialGivesUp, DrainDone, ReplyExpires, ClosingOver, Forgotten, Over
<1>7. CASE DeadlineFires
  BY <1>0, <1>7, BehindTypes DEF DeadlineFires, Drain
<1>8. CASE PeerNext
  BY <1>1, <1>8 DEF PeerNext, PeerAnswers, PeerCloses, ReaderDelivers, ReaderEnds, WriterTrouble
<1> QED
  BY <1>2, <1>3, <1>4, <1>5, <1>6, <1>7, <1>8 DEF WorkerNext, TakeNotice, Tick

\* The worker takes a notice.
LEMMA TakesInStep ==
  ASSUME Standing, TypeOK', UNCHANGED clientVars, mode' = mode, NEW type, Take(type)
  PROVE  /\ Taken(ClientSeen, ClientSeen', Head(notices)) /\ Head(notices).type = type
         /\ notices # <<>> /\ notices' = Tail(notices)
         /\ OnlyRestartsFollow' /\ worker # "Done" /\ SeenWorker.part # "Gone"
<1>1. notices # <<>> /\ notices' = Tail(notices) /\ Head(notices).type = type /\ worker # "Done"
  BY DEF Take
<1>2. ChannelTypes /\ RestartsAreNewer /\ OnlyRestartsFollow /\ WorkerTypes
  BY DEF Standing, TypeOK, InOrder, WorkerInOrder
<1>3. SeenWorker.part # "Gone"
  BY <1>1, <1>2, PartNow, SeenWorkerParts
<1> QED
  BY <1>1, <1>2, <1>3, FirstIsTaken

\* What the worker does that moves neither its part nor what the client waits for.
LEMMA IdlesInStep ==
  ASSUME Standing, TypeOK', UNCHANGED clientVars, mode' = mode,
         UNCHANGED <<workerGen, WorkerPart, socket>>,
         \/ notices' = notices
         \/ \E n \in Notice : notices' = Append(notices, n) /\ n.type \notin Weighty
         \/ notices # <<>> /\ notices' = Tail(notices) /\ Head(notices).type \notin Weighty,
         events' = events \/ \E e \in Event : events' = Append(events, e) /\ e.type = "Message"
  PROVE  InStep(ClientSeen', SeenWorker') /\ OnlyRestartsFollow'
<1>1. /\ ChannelTypes /\ ClientTypes /\ ChannelTypes' /\ ClientTypes'
      /\ RestartsAreNewer /\ OnlyRestartsFollow
  BY DEF Standing, TypeOK, InOrder, WorkerInOrder
<1>2. SeenWorker \in WorkerViews /\ InStep(ClientSeen, SeenWorker) /\ SeenWorker' = SeenWorker
  BY WorkerSteps
<1>3. InStep(ClientSeen', SeenWorker) /\ OnlyRestartsFollow'
  BY <1>1, <1>2, WorkerMarksTime
<1> QED
  BY <1>2, <1>3

\* The worker is told to shut down: it says goodbye, or is done.
LEMMA ShutdownInStep ==
  ASSUME Standing, TypeOK', UNCHANGED clientVars, mode' = mode, OnShutdown
  PROVE  InStep(ClientSeen', SeenWorker')
<1> DEFINE c == ClientSeen
           d == ClientSeen'
           w == SeenWorker
           v == SeenWorker'
           n == Head(notices)
<1>1. /\ c \in ClientViews /\ d \in ClientViews /\ w \in WorkerViews /\ v \in WorkerViews
      /\ Unmoved(c, d) /\ InStep(c, w) /\ v.alone = w.alone
  BY WorkerSteps
<1>2. Taken(c, d, n) /\ n.type = "Shutdown" /\ w.part # "Gone"
  BY TakesInStep DEF OnShutdown
<1>3. v.gen = w.gen /\ v.newest = w.newest
  BY SeenWorkerParts DEF OnShutdown, Close
<1>4. CASE worker \in {"Live", "Closing"}
  <2>1. worker' = "Closing" /\ ending' = "Stopped" /\ events' = events
    BY <1>4 DEF OnShutdown, Close, Unconnected
  <2>2. v.part = "Leaving" /\ d.due = c.due
    BY <2>1, PartNext, SeenWorkerParts, FlightUnmoved, SeenParts DEF TypeOK, clientVars
  <2> HIDE DEF c, d, w, v, n
  <2>3. InStep(d, v)
    BY <1>1, <1>2, <1>3, <2>2, WorkerLeaves
  <2> QED
    BY <2>3 DEF d, v
<1>5. CASE worker \notin {"Live", "Closing"}
  <2> DEFINE e == Report("Stopped", 0, "Shutdown")
  <2>1. worker' = "Done" /\ events' = Append(events, e)
    BY <1>5 DEF OnShutdown, Over, Reported
  <2>2. e \in Event /\ e.type = "Stopped" /\ e.arg # "Initialize"
    BY MessageTypes DEF Report, Generation, Reasons
  <2>3. v.part = "Gone" /\ Sent(c, d, e)
    BY <2>1, <2>2, PartNext, SeenWorkerParts, SeenSent DEF TypeOK, Standing
  <2> HIDE DEF c, d, w, v, n, e
  <2>4. ~Engaged(c)
    BY <1>1, <1>2 DEF InStep, GoesUnasked, Taken
  <2>5. d.told \subseteq c.told /\ \A x \in c.told : x \in d.told \/ x.type = "Shutdown"
    BY <1>2 DEF Taken
  <2>6. InStep(d, v)
    BY <1>1, <1>3, <2>2, <2>3, <2>4, <2>5, WorkerGoes
  <2> QED
    BY <2>6 DEF d, v
<1> QED
  BY <1>4, <1>5

\* It is told to try again, which it does if it waits for that.
LEMMA ReconnectInStep ==
  ASSUME Standing, TypeOK', UNCHANGED clientVars, mode' = mode, OnReconnect
  PROVE  InStep(ClientSeen', SeenWorker')
<1> DEFINE c == ClientSeen
           d == ClientSeen'
           w == SeenWorker
           v == SeenWorker'
           n == Head(notices)
<1>1. /\ c \in ClientViews /\ d \in ClientViews /\ w \in WorkerViews /\ v \in WorkerViews
      /\ Unmoved(c, d) /\ InStep(c, w) /\ v.alone = w.alone
  BY WorkerSteps
<1>2. Taken(c, d, n) /\ n.type = "Reconnect" /\ w.part # "Gone"
  BY TakesInStep DEF OnReconnect
<1>3. v.gen = w.gen /\ v.newest = w.newest /\ d.due = c.due
  BY SeenWorkerParts, FlightUnmoved, SeenParts DEF OnReconnect, clientVars
<1>4. v.part = IF w.part = "Waiting" /\ n.gen = w.gen THEN "Trying" ELSE w.part
  <2>1. w.part = "Waiting" <=> worker = "Waiting"
    BY PartNow, SeenWorkerParts DEF Standing, TypeOK
  <2>2. CASE worker = "Waiting" /\ n.gen = workerGen
    <3>1. worker' = "Backoff"
      BY <2>2 DEF OnReconnect
    <3> QED
      BY <2>1, <2>2, <3>1, PartNext, SeenWorkerParts DEF TypeOK
  <2>3. CASE ~(worker = "Waiting" /\ n.gen = workerGen)
    <3>1. UNCHANGED <<worker, queued, ending>>
      BY <2>3 DEF OnReconnect
    <3>2. WorkerPart' = WorkerPart
      BY <3>1 DEF WorkerPart
    <3> QED
      BY <2>1, <2>3, <3>2, SeenWorkerParts
  <2> QED
    BY <2>2, <2>3
<1> HIDE DEF c, d, w, v, n
<1>5. InStep(d, v)
  BY <1>1, <1>2, <1>3, <1>4, WorkerTriesAgain
<1> QED
  BY <1>5 DEF d, v

\* It is told to stop for good.
LEMMA StopInStep ==
  ASSUME Standing, TypeOK', UNCHANGED clientVars, mode' = mode, OnStop
  PROVE  InStep(ClientSeen', SeenWorker')
<1> DEFINE c == ClientSeen
           d == ClientSeen'
           w == SeenWorker
           v == SeenWorker'
           n == Head(notices)
<1>1. /\ c \in ClientViews /\ d \in ClientViews /\ w \in WorkerViews /\ v \in WorkerViews
      /\ Unmoved(c, d) /\ InStep(c, w) /\ v.alone = w.alone
  BY WorkerSteps
<1>2. Taken(c, d, n) /\ n.type = "Stop" /\ w.part # "Gone"
  BY TakesInStep DEF OnStop
<1>3. v.newest = w.newest /\ d.due = c.due
  BY SeenWorkerParts, FlightUnmoved, SeenParts DEF OnStop, Close, Dropped, workerVars, clientVars
<1>4. CASE worker # "Closing" /\ n.gen = workerGen
  <2>1. /\ workerGen' = n.gen + 1
        /\ worker' = "Idle" \/ (worker' = "Closing" /\ ending' = "Idle")
    BY <1>4, TakesInStep DEF OnStop, Close
  <2>2. v.part = "Resting" /\ n.gen = w.gen /\ v.gen = w.gen + 1
    BY <1>4, <2>1, PartNext, SeenWorkerParts DEF TypeOK
  <2>3. w.part # "Leaving"
    BY <1>4, SeenWorkerParts DEF WorkerPart
  <2> HIDE DEF c, d, w, v, n
  <2>4. InStep(d, v)
    BY <1>1, <1>2, <1>3, <2>2, <2>3, WorkerRests
  <2> QED
    BY <2>4 DEF d, v
<1>5. CASE worker = "Closing" \/ n.gen # workerGen
  <2>1. Dropped
    BY <1>5 DEF OnStop, Unconnected
  <2>2. v.part = w.part /\ v.gen = w.gen
    BY <2>1, SeenWorkerParts DEF Dropped, workerVars, WorkerPart
  <2>3. w.part \in {"Resting", "Leaving"} \/ n.gen # w.gen
    BY <1>5, PartNow, SeenWorkerParts DEF Standing, TypeOK
  <2> HIDE DEF c, d, w, v, n
  <2>4. InStep(d, v)
    BY <1>1, <1>2, <1>3, <2>2, <2>3, WorkerRests
  <2> QED
    BY <2>4 DEF d, v
<1> QED
  BY <1>4, <1>5

\* It is told to restart.
LEMMA RestartInStep ==
  ASSUME Standing, TypeOK', UNCHANGED clientVars, mode' = mode, OnRestart
  PROVE  InStep(ClientSeen', SeenWorker')
<1> DEFINE c == ClientSeen
           d == ClientSeen'
           w == SeenWorker
           v == SeenWorker'
           n == Head(notices)
<1>1. /\ c \in ClientViews /\ d \in ClientViews /\ w \in WorkerViews /\ v \in WorkerViews
      /\ Unmoved(c, d) /\ InStep(c, w) /\ InOrderSeen(c, w) /\ v.alone = w.alone
  BY WorkerSteps
<1>2. Taken(c, d, n) /\ n.type = "Restart" /\ w.part # "Gone"
  BY TakesInStep DEF OnRestart
<1>3. v.newest = w.newest /\ d.due = c.due
  BY SeenWorkerParts, FlightUnmoved, SeenParts DEF OnRestart, Dropped, workerVars, clientVars
<1>4. w.part = "Leaving" <=> worker = "Closing" /\ ending = "Stopped"
  BY PartNow, SeenWorkerParts DEF Standing, TypeOK, WorkerPart
<1>0. n.gen >= workerGen => ~(n.gen < workerGen)
  BY TakeTypes DEF OnRestart, Standing, TypeOK, WorkerTypes, Generation
<1>5. CASE mode = "Connect" /\ n.gen >= workerGen /\ ~(worker = "Closing" /\ ending = "Stopped")
  <2>1. workerGen' = n.gen /\ worker' = "Dialing" /\ queued' = FALSE
    BY <1>0, <1>5 DEF OnRestart, Forgotten
  <2>2. v.part = "Trying" /\ v.gen = n.gen /\ w.part \notin {"Leaving", "Gone"}
    BY <1>2, <1>4, <1>5, <2>1, PartNext, SeenWorkerParts DEF TypeOK
  <2> HIDE DEF c, d, w, v, n
  <2>3. InStep(d, v)
    BY <1>1, <1>2, <1>3, <2>2, WorkerRestarts
  <2> QED
    BY <2>3 DEF d, v
<1>6. CASE mode = "Listen" \/ n.gen < workerGen \/ (worker = "Closing" /\ ending = "Stopped")
  <2>1. Dropped
    BY <1>0, <1>6 DEF OnRestart
  <2>2. v = w
    BY <2>1, WorkerSteps DEF Dropped, workerVars, WorkerPart
  <2>3. w.alone \/ n.gen < w.gen \/ w.part = "Leaving"
    BY <1>4, <1>6, SeenWorkerParts
  <2> HIDE DEF c, d, w, v, n
  <2>4. InStep(d, v)
    BY <1>1, <1>2, <1>3, <2>2, <2>3, RestartIsMoot
  <2> QED
    BY <2>4 DEF d, v
<1> QED
  BY <1>5, <1>6 DEF OnRestart

\* The worker opens a connection.
LEMMA OpensInStep ==
  ASSUME Standing, TypeOK', UNCHANGED <<clientVars, workerGen, notices>>, mode' = mode, Open,
         worker \in {"Dialing", "Accepting", "Backoff"}
  PROVE  InStep(ClientSeen', SeenWorker')
<1> DEFINE c == ClientSeen
           d == ClientSeen'
           w == SeenWorker
           v == SeenWorker'
           e == Report("Reconnected", workerGen, "none")
<1>1. /\ c \in ClientViews /\ d \in ClientViews /\ w \in WorkerViews /\ v \in WorkerViews
      /\ Unmoved(c, d) /\ InStep(c, w) /\ v.alone = w.alone
  BY WorkerSteps DEF clientVars
<1>2. /\ d.told = c.told
      /\ v.part = "Serving" /\ v.gen = w.gen /\ v.newest = w.gen /\ w.gen = workerGen
  BY FlightUnmoved, SeenParts, PartNext, SeenWorkerParts DEF Open, TypeOK
<1>3. CASE queued
  <2>1. w.part = "Serving" /\ d.due = c.due
    BY <1>3, PartNow, SeenWorkerParts, FlightUnmoved, SeenParts
    DEF Open, Standing, TypeOK, FirstQueueOnly, clientVars
  <2> HIDE DEF c, d, w, v, e
  <2>2. InStep(d, v)
    BY <1>1, <1>2, <2>1, WorkerServes
  <2> QED
    BY <2>2 DEF d, v
<1>4. CASE ~queued
  <2>1. e \in Event /\ e.type = "Reconnected" /\ e.gen = workerGen
    BY MessageTypes DEF Report, Standing, TypeOK, WorkerTypes
  <2>2. worker # "Accepting" /\ w.part = "Trying"
    BY <1>4, PartNow, SeenWorkerParts DEF Standing, TypeOK, FirstQueueOnly
  <2>3. ~w.alone
    <3>1. CASE worker = "Dialing"
      BY <3>1, SeenWorkerParts DEF Standing, FirstQueueOnly
    <3>2. CASE worker = "Backoff"
      BY <3>2, SeenWorkerParts DEF Standing, FirstQueueOnly
    <3> QED
      BY <2>2, <3>1, <3>2
  <2>4. Sent(c, d, e)
    BY <1>4, <2>1, SeenSent DEF Open, Reported, Standing, TypeOK
  <2> HIDE DEF c, d, w, v, e
  <2>5. InStep(d, v)
    BY <1>1, <1>2, <2>1, <2>2, <2>3, <2>4, WorkerServes
  <2> QED
    BY <2>5 DEF d, v
<1> QED
  BY <1>3, <1>4 DEF Standing, FirstQueueOnly, TypeOK, WorkerTypes

\* The worker reports a loss.
LEMMA LosesInStep ==
  ASSUME Standing, TypeOK', UNCHANGED <<clientVars, socket, notices>>, mode' = mode,
         worker \in {"Dialing", "Draining"}, mode # "Listen", worker' = "Waiting",
         workerGen' = workerGen + 1,
         NEW why \in Reasons, Reported(Report("Lost", workerGen + 1, why))
  PROVE  InStep(ClientSeen', SeenWorker')
<1> DEFINE c == ClientSeen
           d == ClientSeen'
           w == SeenWorker
           v == SeenWorker'
           e == Report("Lost", workerGen + 1, why)
<1>1. /\ c \in ClientViews /\ d \in ClientViews /\ w \in WorkerViews /\ v \in WorkerViews
      /\ Unmoved(c, d) /\ InStep(c, w) /\ v.alone = w.alone
  BY WorkerSteps DEF clientVars
<1>2. /\ d.told = c.told
      /\ v.part = "Waiting" /\ v.gen = w.gen + 1 /\ v.newest = w.newest /\ w.gen = workerGen
      /\ w.part \in {"Serving", "Trying"} /\ ~w.alone
  BY FlightUnmoved, SeenParts, PartNow, PartNext, SeenWorkerParts DEF TypeOK, Standing
<1>3. e \in Event /\ e.type = "Lost" /\ e.gen = workerGen + 1
  BY MessageTypes, NextGeneration DEF Report, Standing, TypeOK, WorkerTypes
<1>4. Sent(c, d, e)
  BY <1>3, SeenSent DEF Reported, Standing, TypeOK, clientVars
<1> HIDE DEF c, d, w, v, e
<1>5. InStep(d, v)
  BY <1>1, <1>2, <1>3, <1>4, WorkerLoses
<1> QED
  BY <1>5 DEF d, v

\* The worker ends: it was leaving, or it was a listener.
LEMMA EndsInStep ==
  ASSUME Standing, TypeOK', UNCHANGED <<clientVars, workerGen, socket, notices>>, mode' = mode,
         mode = "Listen" \/ (worker = "Closing" /\ ending = "Stopped"),
         NEW why \in Reasons, why # "Initialize", Over(why)
  PROVE  InStep(ClientSeen', SeenWorker')
<1> DEFINE c == ClientSeen
           d == ClientSeen'
           w == SeenWorker
           v == SeenWorker'
           e == Report("Stopped", 0, why)
<1>1. /\ c \in ClientViews /\ d \in ClientViews /\ w \in WorkerViews /\ v \in WorkerViews
      /\ Unmoved(c, d) /\ InStep(c, w) /\ v.alone = w.alone
  BY WorkerSteps DEF clientVars
<1>2. /\ d.told = c.told
      /\ v.part = "Gone" /\ v.gen = w.gen /\ v.newest = w.newest
      /\ w.alone \/ w.part = "Leaving"
  BY FlightUnmoved, SeenParts, PartNow, PartNext, SeenWorkerParts DEF TypeOK, Standing, Over
<1>3. e \in Event /\ e.type = "Stopped" /\ e.arg # "Initialize"
  BY MessageTypes DEF Report, Generation
<1>4. Sent(c, d, e)
  BY <1>3, SeenSent DEF Over, Reported, Standing, TypeOK, clientVars
<1> HIDE DEF c, d, w, v, e
<1>5. w.alone \/ ~Engaged(c)
  BY <1>1, <1>2 DEF InStep, GoesUnasked
<1>6. InStep(d, v)
  BY <1>1, <1>2, <1>3, <1>4, <1>5, WorkerGoes
<1> QED
  BY <1>6 DEF d, v

\* A redial fails.
LEMMA AttemptInStep ==
  ASSUME Standing, TypeOK', UNCHANGED <<clientVars, workerGen, worker, queued, socket, notices>>,
         mode' = mode, worker = "Backoff", Reported(Report("Attempting", workerGen, "none")),
         mode # "Listen"
  PROVE  InStep(ClientSeen', SeenWorker')
<1> DEFINE c == ClientSeen
           d == ClientSeen'
           w == SeenWorker
           e == Report("Attempting", workerGen, "none")
<1>1. WorkerPart = "Trying" /\ WorkerPart' = "Trying"
  BY PartNow, PartNext DEF TypeOK, Standing
<1>2. /\ c \in ClientViews /\ d \in ClientViews /\ w \in WorkerViews
      /\ Unmoved(c, d) /\ InStep(c, w) /\ SeenWorker' = w
  BY <1>1, WorkerSteps DEF clientVars
<1>3. d.told = c.told /\ w.part = "Trying" /\ w.gen = workerGen /\ ~w.alone
  BY <1>1, FlightUnmoved, SeenParts, SeenWorkerParts
<1>4. e \in Event /\ e.type = "Attempting" /\ e.gen = workerGen
  BY MessageTypes DEF Report, Standing, TypeOK, WorkerTypes
<1>5. Sent(c, d, e)
  BY <1>4, SeenSent DEF Reported, Standing, TypeOK, clientVars
<1> HIDE DEF c, d, w, e
<1>6. InStep(d, w)
  BY <1>2, <1>3, <1>4, <1>5, WorkerFailsAgain
<1> QED
  BY <1>2, <1>6 DEF d

\* A step of the worker or of the servers leaves both halves in step.
LEMMA WorkerStaysInStep ==
  ASSUME Standing, TypeOK', UNCHANGED clientVars, WorkerNext \/ PeerNext
  PROVE  InStep(ClientSeen', SeenWorker') /\ OnlyRestartsFollow'
<1>0. /\ mode' = mode /\ ChannelTypes /\ OnlyRestartsFollow /\ FirstQueueOnly
      /\ mode \in {"Connect", "Listen"} /\ cause \in Reasons
  BY DEF WorkerNext, PeerNext, Standing, TypeOK, WorkerTypes
<1>1. CASE OnShutdown
  BY <1>0, <1>1, ShutdownInStep, TakesInStep DEF OnShutdown
<1>2. CASE OnReconnect
  BY <1>0, <1>2, ReconnectInStep, TakesInStep DEF OnReconnect
<1>3. CASE OnStop
  BY <1>0, <1>3, StopInStep, TakesInStep DEF OnStop
<1>4. CASE OnRestart
  BY <1>0, <1>4, RestartInStep, TakesInStep DEF OnRestart
<1>5. CASE OnHandshaken \/ OnReplied
  <2>1. /\ notices # <<>> /\ notices' = Tail(notices) /\ Head(notices).type \notin Weighty
        /\ events' = events /\ UNCHANGED <<workerGen, worker, queued, ending, socket>>
    BY <1>5 DEF OnHandshaken, OnReplied, Take, Weighty
  <2>2. WorkerPart' = WorkerPart
    BY <2>1 DEF WorkerPart
  <2> QED
    BY <1>0, <2>1, <2>2, IdlesInStep
<1>6. CASE OnThreadNotice
  <2>1. /\ notices # <<>> /\ notices' = Tail(notices) /\ Head(notices).type \notin Weighty
        /\ events' = events /\ UNCHANGED <<workerGen, queued, ending, socket>>
        /\ worker' = worker \/ (worker = "Live" /\ worker' = "Draining")
    BY <1>6 DEF OnThreadNotice, Drain, Take, Weighty
  <2>2. WorkerPart' = WorkerPart
    BY <2>1 DEF WorkerPart
  <2> QED
    BY <1>0, <2>1, <2>2, IdlesInStep
<1>7. CASE DialFails \/ DeadlineFires \/ ReplyExpires
  <2>1. /\ notices' = notices /\ events' = events
        /\ UNCHANGED <<workerGen, queued, ending, socket>>
        /\ worker' = worker \/ (worker = "Live" /\ worker' = "Draining")
    BY <1>7 DEF DialFails, DeadlineFires, ReplyExpires, Drain, channelVars
  <2>2. WorkerPart' = WorkerPart
    BY <2>1 DEF WorkerPart
  <2> QED
    BY <1>0, <2>1, <2>2, IdlesInStep
<1>8. ASSUME notices' = notices PROVE OnlyRestartsFollow'
  BY <1>0, <1>8, OnlyRestartsStillFollow
<1>9. CASE DialUp
  <2>1. notices' = notices /\ workerGen' = workerGen /\ Open /\ worker = "Dialing"
    BY <1>9 DEF DialUp
  <2> QED
    BY <1>0, <1>8, <2>1, OpensInStep
<1>10. CASE DialGivesUp
  <2>1. /\ notices' = notices /\ socket' = socket /\ worker = "Dialing" /\ worker' = "Waiting"
        /\ workerGen' = workerGen + 1 /\ Reported(Report("Lost", workerGen + 1, "Failed"))
    BY <1>10 DEF DialGivesUp
  <2>2. mode # "Listen" /\ "Failed" \in Reasons
    BY <1>0, <2>1 DEF FirstQueueOnly, Reasons
  <2> QED
    BY <1>0, <1>8, <2>1, <2>2, LosesInStep
<1>11. CASE Accept
  <2>1. notices' = notices /\ workerGen' = workerGen /\ worker = "Accepting"
    BY <1>11 DEF Accept
  <2>2. CASE Open
    BY <1>0, <1>8, <2>1, <2>2, OpensInStep
  <2>3. CASE Over("Failed") /\ socket' = socket
    <3>1. mode = "Listen" /\ "Failed" \in Reasons
      BY <1>0, <2>1 DEF FirstQueueOnly, Reasons
    <3> QED
      BY <1>0, <1>8, <2>1, <2>3, <3>1, EndsInStep
  <2> QED
    BY <1>11, <2>2, <2>3 DEF Accept
<1>12. CASE DrainDone
  <2>1. notices' = notices /\ socket' = socket /\ worker = "Draining"
    BY <1>12 DEF DrainDone
  <2>2. CASE mode = "Connect"
    <3>1. /\ workerGen' = workerGen + 1 /\ worker' = "Waiting"
          /\ Reported(Report("Lost", workerGen + 1, cause))
      BY <1>12, <2>2 DEF DrainDone
    <3> QED
      BY <1>0, <1>8, <2>1, <2>2, <3>1, LosesInStep
  <2>3. CASE mode = "Listen"
    <3>1. Over(cause) /\ workerGen' = workerGen /\ cause # "Initialize"
      BY <1>0, <1>12, <2>3 DEF DrainDone, FirstQueueOnly
    <3> QED
      BY <1>0, <1>8, <2>1, <2>3, <3>1, EndsInStep
  <2> QED
    BY <1>0, <2>2, <2>3
<1>13. CASE Redial
  <2>1. notices' = notices /\ workerGen' = workerGen /\ worker = "Backoff"
    BY <1>13 DEF Redial
  <2>2. CASE Open
    BY <1>0, <1>8, <2>1, <2>2, OpensInStep
  <2>3. CASE /\ Reported(Report("Attempting", workerGen, "none"))
             /\ UNCHANGED <<worker, queued, socket>>
    <3>1. mode # "Listen"
      BY <1>0, <2>1 DEF FirstQueueOnly
    <3> QED
      BY <1>0, <1>8, <2>1, <2>3, <3>1, AttemptInStep
  <2> QED
    BY <1>13, <2>2, <2>3 DEF Redial
<1>14. CASE ClosingOver
  <2>1. notices' = notices /\ workerGen' = workerGen /\ socket' = socket /\ worker = "Closing"
    BY <1>14 DEF ClosingOver
  <2>2. CASE ending = "Stopped"
    <3>1. Over("Shutdown") /\ "Shutdown" \in Reasons
      BY <1>14, <2>2 DEF ClosingOver, Reasons
    <3> QED
      BY <1>0, <1>8, <2>1, <2>2, <3>1, EndsInStep
  <2>3. CASE ending # "Stopped"
    <3>1. events' = events /\ worker' = "Idle"
      BY <1>14, <2>3 DEF ClosingOver
    <3>2. WorkerPart' = WorkerPart
      BY <2>1, <2>3, <3>1 DEF WorkerPart
    <3> QED
      BY <1>0, <2>1, <3>1, <3>2, IdlesInStep
  <2> QED
    BY <2>2, <2>3
<1>15. CASE PeerNext
  <2>1. UNCHANGED <<workerGen, worker, queued, ending, socket>>
    BY <1>15
    DEF PeerNext, PeerAnswers, PeerCloses, ReaderDelivers, ReaderEnds, WriterTrouble, workerVars
  <2>2. WorkerPart' = WorkerPart
    BY <2>1 DEF WorkerPart
  <2>3. /\ \/ notices' = notices
           \/ \E n \in Notice : notices' = Append(notices, n) /\ n.type \notin Weighty
        /\ events' = events \/ \E e \in Event : events' = Append(events, e) /\ e.type = "Message"
    <3>0. /\ open \subseteq Generation /\ reading \subseteq Generation
          /\ \A g \in Generation, type \in ThreadTypes :
               Tell(type, g) \in Notice /\ Tell(type, g).type \notin Weighty
          /\ \A g \in Generation, reply \in Replies :
               Report("Message", g, reply) \in Event /\ Report("Message", g, reply).type = "Message"
      BY MessageTypes DEF Standing, TypeOK, PeerTypes, ThreadTypes, Weighty, Tell, Report
    <3>1. CASE PeerAnswers \/ PeerCloses
      BY <3>1 DEF PeerAnswers, PeerCloses, channelVars
    <3>2. CASE ReaderDelivers
      BY <3>0, <3>2 DEF ReaderDelivers, Reported, ThreadTypes
    <3>3. CASE ReaderEnds
      BY <3>0, <3>3 DEF ReaderEnds, ThreadTypes
    <3>4. CASE WriterTrouble
      BY <3>0, <3>4 DEF WriterTrouble, ThreadTypes
    <3> QED
      BY <1>15, <3>1, <3>2, <3>3, <3>4 DEF PeerNext
  <2> QED
    BY <1>0, <2>1, <2>2, <2>3, IdlesInStep
<1> QED
  BY <1>1, <1>2, <1>3, <1>4, <1>5, <1>6, <1>7, <1>9, <1>10, <1>11, <1>12, <1>13, <1>14, <1>15
  DEF WorkerNext, TakeNotice, Tick

\* A client and the worker it starts with are in step.
LEMMA InitStands == Init => SocketStands
<1> SUFFICES ASSUME Init PROVE SocketStands
  OBVIOUS
<1>1. /\ notices = <<>> /\ events = <<>> /\ inbox = <<>>
      /\ conn = "Live" /\ clientGen = 0 /\ link = 0 /\ dropped = FALSE
      /\ workerGen = 0 /\ socket = -1 /\ queued = TRUE /\ cause = "Closed"
      /\ \/ worker = "Dialing" /\ mode = "Connect"
         \/ worker = "Accepting" /\ mode = "Listen"
  BY DEF Init, ClientInit, WorkerInit
<1>2. LetGoBeforeReconnect /\ LinkIsCurrent /\ OnlyRestartsFollow
  BY <1>1 DEF LetGoBeforeReconnect, LinkIsCurrent, OnlyRestartsFollow
<1>3. FirstQueueOnly
  BY <1>1 DEF FirstQueueOnly
<1> DEFINE c == ClientSeen
           w == SeenWorker
<1>4. c.conn = "Live" /\ c.gen = 0 /\ ~c.dropped /\ c.told = {} /\ c.due = {}
  BY <1>1, SeenParts, CarriedNone DEF InFlight
<1>5. w.gen = 0 /\ w.part = "Serving" /\ w.newest = -1
  BY <1>1, SeenWorkerParts DEF WorkerPart
<1> HIDE DEF c, w
<1>6. Engaged(c) /\ Asks(c) = {}
  BY <1>4 DEF Engaged, Asks, ShutKinds
<1>7. InStep(c, w)
  BY <1>4, <1>5, <1>6
  DEF InStep, NewsIsOld, AloneForGood, GoesUnasked, HeardAndDone, UnheardAndDue, GoodbyeHeeded,
      Engaged
<1> QED
  BY <1>2, <1>3, <1>7 DEF SocketStands, SeenWorker, c, w

\* Nobody restarts a listener.
LEMMA ListenerIsKept ==
  ASSUME TypeOK, HostNext, mode # "Connect" PROVE ~RestartCall
<1>1. calls \in Nat
  BY PolicyAssumption DEF TypeOK, ClientTypes
<1>2. calls' = calls
  BY DEF HostNext, RestartReturn, ShutdownCall, DropClient, Poll, Receive, ReceiveInitialized,
         ReceiveRefused, ReceiveStale, ReceiveLost, ReceiveAttempting, ReceiveReconnected,
         ReceiveStopped, ReceiveStatus, Ignored
<1> QED
  BY <1>1, <1>2 DEF RestartCall

\* What the two halves expect of each other stays true at every step of either.
LEMMA StandsNext == SocketInv /\ SocketStands /\ [Next]_vars => SocketStands'
<1> SUFFICES ASSUME SocketInv, SocketStands, [Next]_vars PROVE SocketStands'
  OBVIOUS
<1>0. /\ TypeOK /\ TypeOK' /\ Standing /\ LetGoBeforeReconnect /\ LinkIsCurrent /\ OwnAreStatuses
      /\ ChannelTypes /\ ClientTypes
  <2>1. TypeOK /\ TypeOK'
    BY NextInv DEF SocketInv
  <2> QED
    BY <2>1
    DEF SocketInv, SocketStands, Standing, InOrder, Placed, SeenWorker, HandshakeIsTrue,
        OwnAreStatuses, TypeOK
<1>1. CASE HostNext /\ UNCHANGED <<workerVars, peerVars, mode>>
  <2>1. SeenWorker' = SeenWorker /\ FirstQueueOnly'
    BY <1>0, <1>1 DEF SeenWorker, WorkerSeen, WorkerPart, Standing, FirstQueueOnly, workerVars
  <2>2. /\ ClientNext /\ SeenWorker \in WorkerViews
        /\ InStep(ClientSeen, SeenWorker) /\ OnlyRestartsFollow
    BY <1>0, <1>1, HostIsClient, SeenWorkerTypes DEF Standing
  <2>3. SeenWorker.alone => ~RestartCall
    BY <1>0, <1>1, ListenerIsKept, SeenWorkerParts
  <2>4. InOrderSeen(ClientSeen, SeenWorker)
    BY <1>0, StandsInOrder
  <2>5. InStep(ClientSeen', SeenWorker) /\ OnlyRestartsFollow'
    BY <1>0, <2>2, <2>3, <2>4, ClientStaysInStep
  <2>6. LetGoBeforeReconnect' /\ LinkIsCurrent'
    BY <1>0, <2>2, ClientLetsGo, ClientKeepsLink
  <2> QED
    BY <2>1, <2>5, <2>6 DEF SocketStands, SeenWorker
<1>2. CASE (WorkerNext \/ PeerNext) /\ UNCHANGED clientVars
  <2>1. FirstQueueOnly'
    BY <1>0, <1>2, FirstQueueKept DEF Standing
  <2>2. InStep(ClientSeen', SeenWorker') /\ OnlyRestartsFollow'
    BY <1>0, <1>2, WorkerStaysInStep
  <2>3. LetGoBeforeReconnect' /\ LinkIsCurrent'
    BY <1>0, <1>2 DEF LetGoBeforeReconnect, LinkIsCurrent, clientVars
  <2> QED
    BY <2>1, <2>2, <2>3 DEF SocketStands, SeenWorker
<1>3. CASE UNCHANGED vars
  <2>1. UNCHANGED <<clientVars, workerVars, channelVars, mode>>
    BY <1>3 DEF vars
  <2>2. SeenWorker' = SeenWorker /\ ClientSeen' = ClientSeen /\ FirstQueueOnly'
    BY <1>0, <2>1
    DEF SeenWorker, WorkerSeen, WorkerPart, ClientSeen, InFlight, Carried, Standing, FirstQueueOnly,
        clientVars, workerVars, channelVars
  <2>3. LetGoBeforeReconnect' /\ LinkIsCurrent' /\ OnlyRestartsFollow'
    BY <1>0, <2>1
    DEF LetGoBeforeReconnect, LinkIsCurrent, OnlyRestartsFollow, Standing, clientVars, channelVars
  <2> QED
    BY <1>0, <2>2, <2>3 DEF SocketStands, SeenWorker, Standing
<1> QED
  BY <1>1, <1>2, <1>3 DEF Next

\* With nothing on its way, two halves in step do not wait for each other.
LEMMA StandsIsNoStandoff == SocketInv /\ SocketStands => NoStandoff
<1> SUFFICES ASSUME SocketInv, SocketStands, Quiet PROVE NoStandoff
  BY DEF NoStandoff
<1> DEFINE c == ClientSeen
           w == SeenWorker
<1>0. WorkerTypes /\ FirstQueueOnly /\ LinkIsCurrent /\ InStep(c, w)
      /\ (worker = "Live" => socket = workerGen)
      /\ conn \in {"Live", "Reconnecting", "Stopped", "ShutLinked", "Shut"} /\ queued \in BOOLEAN
  BY DEF SocketInv, SocketStands, TypeOK, SocketIsBehind, SeenWorker, ClientTypes, WorkerTypes,
         ShutKinds
<1>1. /\ c.told = {} /\ c.due = {} /\ ~c.dropped /\ c.conn = conn /\ c.gen = clientGen
      /\ c.status = status
  BY SeenParts, CarriedNone DEF Quiet, InFlight
<1>2. w.gen = workerGen /\ w.part = WorkerPart
  BY SeenWorkerParts
<1> HIDE DEF c, w
<1>3. Asks(c) = {}
  BY <1>1 DEF Asks
<1>4. ASSUME Engaged(c) PROVE w.part # "Gone" /\ ~LossIsDue(c, w)
  BY <1>0, <1>1, <1>4 DEF InStep, GoesUnasked, LossIsDue
<1>5. ASSUME conn = "Live" PROVE w.part = "Serving" /\ workerGen = link
  BY <1>0, <1>1, <1>2, <1>3, <1>4, <1>5
  DEF InStep, HeardAndDone, Engaged, ShutKinds, LinkIsCurrent
<1>6. ASSUME conn = "Reconnecting" PROVE w.part = "Trying" /\ workerGen = clientGen
  BY <1>0, <1>1, <1>2, <1>3, <1>4, <1>6 DEF InStep, HeardAndDone, Engaged, ShutKinds
<1>7. ASSUME conn = "Stopped" PROVE w.part \in {"Resting", "Waiting"} /\ workerGen = clientGen
  BY <1>0, <1>1, <1>2, <1>3, <1>4, <1>7 DEF InStep, HeardAndDone, Engaged, ShutKinds
<1>8. ASSUME conn \in ShutKinds
      PROVE  w.part = "Leaving" \/ (w.part = "Gone" /\ status.kind = "Stopped")
  BY <1>0, <1>1, <1>2, <1>8 DEF InStep, GoodbyeHeeded
<1>9. CASE conn = "Live"
  BY <1>0, <1>2, <1>5, <1>9 DEF NoStandoff, WorkerPart, WorkerTypes, FirstQueueOnly
<1>10. CASE conn = "Reconnecting"
  BY <1>0, <1>2, <1>6, <1>10 DEF NoStandoff, WorkerPart, WorkerTypes, FirstQueueOnly
<1>11. CASE conn = "Stopped"
  BY <1>0, <1>2, <1>7, <1>11 DEF NoStandoff, WorkerPart, WorkerTypes, FirstQueueOnly
<1>12. CASE conn \in ShutKinds
  BY <1>0, <1>2, <1>8, <1>12 DEF NoStandoff, WorkerPart, WorkerTypes, FirstQueueOnly, ShutKinds
<1> QED
  BY <1>0, <1>9, <1>10, <1>11, <1>12 DEF ShutKinds

----------------------------------------------------------------------------
\* What BrowserBridgeProofs shows of the page's bridge. Its definitions and those of Browser are two
\* instances of the same ones, which expanding both sides shows.
Page == INSTANCE BrowserBridgeProofs WITH Timed <- TRUE

LEMMA SameVars == Browser!vars = Page!vars
BY DEF Browser!channelVars, Page!channelVars, Browser!clientVars, Page!clientVars,
  Browser!peerVars, Page!peerVars, Browser!socketVars, Page!socketVars, Browser!taskVars,
  Page!taskVars, Browser!vars, Page!vars

LEMMA SameInit == Browser!Init <=> Page!Init
BY DEF Browser!ClientInit, Page!ClientInit, Browser!Init, Page!Init, Browser!NoSocket,
  Page!NoSocket, Browser!Starting, Page!Starting, Browser!Status, Page!Status, Browser!TaskInit,
  Page!TaskInit

LEMMA SameNext == Browser!Next <=> Page!Next
BY DEF Browser!Admit, Page!Admit, Browser!AttemptTimesOut, Page!AttemptTimesOut, Browser!Close,
  Page!Close, Browser!CloseOver, Page!CloseOver, Browser!Closed, Page!Closed,
  Browser!DeadlineFires, Page!DeadlineFires, Browser!Decide, Page!Decide, Browser!Dial, Page!Dial,
  Browser!DialFailed, Page!DialFailed, Browser!DropClient, Page!DropClient, Browser!DropSocket,
  Page!DropSocket, Browser!Farewell, Page!Farewell, Browser!Fault, Page!Fault,
  Browser!ForInitialize, Page!ForInitialize, Browser!Goodbye, Page!Goodbye, Browser!Halt,
  Page!Halt, Browser!Handshake, Page!Handshake, Browser!Held, Page!Held, Browser!Holds,
  Page!Holds, Browser!HostNext, Page!HostNext, Browser!Idling, Page!Idling, Browser!Ignored,
  Page!Ignored, Browser!KeepSocket, Page!KeepSocket, Browser!Leave, Page!Leave, Browser!Live,
  Page!Live, Browser!Lose, Page!Lose, Browser!LossMoot, Page!LossMoot, Browser!MessageComes,
  Page!MessageComes, Browser!Next, Page!Next, Browser!NoSocket, Page!NoSocket, Browser!OnClosed,
  Page!OnClosed, Browser!OnHandshaken, Page!OnHandshaken, Browser!OnOpened, Page!OnOpened,
  Browser!OnReconnect, Page!OnReconnect, Browser!OnReplied, Page!OnReplied, Browser!OnRestart,
  Page!OnRestart, Browser!OnShutdown, Page!OnShutdown, Browser!OnStop, Page!OnStop,
  Browser!OpenSocket, Page!OpenSocket, Browser!PageNext, Page!PageNext, Browser!PeerAnswers,
  Page!PeerAnswers, Browser!Poll, Page!Poll, Browser!Receive, Page!Receive,
  Browser!ReceiveAttempting, Page!ReceiveAttempting, Browser!ReceiveInitialized,
  Page!ReceiveInitialized, Browser!ReceiveLost, Page!ReceiveLost, Browser!ReceiveReconnected,
  Page!ReceiveReconnected, Browser!ReceiveRefused, Page!ReceiveRefused, Browser!ReceiveStale,
  Page!ReceiveStale, Browser!ReceiveStatus, Page!ReceiveStatus, Browser!ReceiveStopped,
  Page!ReceiveStopped, Browser!Redial, Page!Redial, Browser!RedialFailed, Page!RedialFailed,
  Browser!Report, Page!Report, Browser!Reported, Page!Reported, Browser!RestartCall,
  Page!RestartCall, Browser!RestartReturn, Page!RestartReturn, Browser!Restarting,
  Page!Restarting, Browser!Returned, Page!Returned, Browser!Running, Page!Running,
  Browser!ShutKinds, Page!ShutKinds, Browser!ShutdownCall, Page!ShutdownCall, Browser!Signal,
  Page!Signal, Browser!Signalled, Page!Signalled, Browser!SocketCloses, Page!SocketCloses,
  Browser!SocketOpens, Page!SocketOpens, Browser!Starting, Page!Starting, Browser!Status,
  Page!Status, Browser!StepExpires, Page!StepExpires, Browser!StoppedBy, Page!StoppedBy,
  Browser!Take, Page!Take, Browser!TakeControl, Page!TakeControl, Browser!TakeSignal,
  Page!TakeSignal, Browser!TakeSignals, Page!TakeSignals, Browser!Taking, Page!Taking,
  Browser!TaskNext, Page!TaskNext, Browser!Tell, Page!Tell, Browser!Told, Page!Told,
  Browser!Unconnected, Page!Unconnected, Browser!Untouched, Page!Untouched, Browser!Woken,
  Page!Woken, Browser!channelVars, Page!channelVars, Browser!clientVars, Page!clientVars,
  Browser!peerVars, Page!peerVars, Browser!socketVars, Page!socketVars, Browser!taskVars,
  Page!taskVars

LEMMA SameInv == Browser!BrowserInv <=> Page!BrowserInv
BY DEF Browser!AnnouncedFirst, Page!AnnouncedFirst, Browser!BrowserInv, Page!BrowserInv,
  Browser!Carried, Page!Carried, Browser!ChannelTypes, Page!ChannelTypes, Browser!ClientTypes,
  Page!ClientTypes, Browser!ControlTypes, Page!ControlTypes, Browser!Event, Page!Event,
  Browser!Generation, Page!Generation, Browser!HandshakeIsTrue, Page!HandshakeIsTrue,
  Browser!HeldIsLast, Page!HeldIsLast, Browser!InFlight, Page!InFlight, Browser!MessagesFollow,
  Page!MessagesFollow, Browser!NoSocket, Page!NoSocket, Browser!Notice, Page!Notice,
  Browser!OpeningComes, Page!OpeningComes, Browser!OpensOnce, Page!OpensOnce,
  Browser!PoliteGoodbye, Page!PoliteGoodbye, Browser!Reasons, Page!Reasons, Browser!Replies,
  Page!Replies, Browser!RestartsAreNewer, Page!RestartsAreNewer, Browser!ShutKinds,
  Page!ShutKinds, Browser!Signal, Page!Signal, Browser!SignalTypes, Page!SignalTypes,
  Browser!SignalsAreTrue, Page!SignalsAreTrue, Browser!SocketIsKnown, Page!SocketIsKnown,
  Browser!StatusValues, Page!StatusValues, Browser!TaskTypes, Page!TaskTypes, Browser!ThreadTypes,
  Page!ThreadTypes, Browser!ToldIsReached, Page!ToldIsReached, Browser!TypeOK, Page!TypeOK,
  Browser!Wire, Page!Wire, Browser!WorkerInOrder, Page!WorkerInOrder

LEMMA SameSafety == Browser!BrowserSafety <=> Page!BrowserSafety
BY DEF Browser!AnnouncedFirst, Page!AnnouncedFirst, Browser!BrowserSafety, Page!BrowserSafety,
  Browser!ChannelTypes, Page!ChannelTypes, Browser!ClientTypes, Page!ClientTypes,
  Browser!ControlTypes, Page!ControlTypes, Browser!Event, Page!Event, Browser!Generation,
  Page!Generation, Browser!NeverBehind, Page!NeverBehind, Browser!NoSocket, Page!NoSocket,
  Browser!Notice, Page!Notice, Browser!PoliteGoodbye, Page!PoliteGoodbye, Browser!Reasons,
  Page!Reasons, Browser!Replies, Page!Replies, Browser!ShutKinds, Page!ShutKinds, Browser!Signal,
  Page!Signal, Browser!SignalTypes, Page!SignalTypes, Browser!SocketIsKnown, Page!SocketIsKnown,
  Browser!StatusValues, Page!StatusValues, Browser!TaskTypes, Page!TaskTypes, Browser!ThreadTypes,
  Page!ThreadTypes, Browser!TypeOK, Page!TypeOK, Browser!Wire, Page!Wire

\* The same of what keeps the halves in step.
LEMMA SameStands == Browser!TaskStands <=> Page!TaskStands
BY DEF Browser!AloneForGood, Page!AloneForGood, Browser!Asks, Page!Asks, Browser!Carried,
  Page!Carried, Browser!ClientSeen, Page!ClientSeen, Browser!Engaged, Page!Engaged,
  Browser!GoesUnasked, Page!GoesUnasked, Browser!GoodbyeHeeded, Page!GoodbyeHeeded,
  Browser!HeardAndDone, Page!HeardAndDone, Browser!InFlight, Page!InFlight, Browser!InStep,
  Page!InStep, Browser!LetGoBeforeReconnect, Page!LetGoBeforeReconnect, Browser!LinkIsCurrent,
  Page!LinkIsCurrent, Browser!LossIsDue, Page!LossIsDue, Browser!NewsIsOld, Page!NewsIsOld,
  Browser!OnlyRestartsFollow, Page!OnlyRestartsFollow, Browser!ShutKinds, Page!ShutKinds,
  Browser!Status, Page!Status, Browser!StoppedBy, Page!StoppedBy, Browser!TaskPart,
  Page!TaskPart, Browser!TaskStands, Page!TaskStands, Browser!Tell, Page!Tell,
  Browser!UnheardAndDue, Page!UnheardAndDue, Browser!WorkerSeen, Page!WorkerSeen

\* And of what that shows.
LEMMA SameStandoff == Browser!NoStandoff <=> Page!NoStandoff
BY DEF Browser!NoStandoff, Page!NoStandoff, Browser!Quiet, Page!Quiet

LEMMA PageIsBounded == Page!Bounded
BY WorkerAssumption DEF Page!Bounded
----------------------------------------------------------------------------
\* Both bridges.

\* A step is of the bridge the behaviour began with, or of none.
LEMMA AnySteps ==
  ASSUME AnyInv, [AnyNext]_allVars
  PROVE  \/ ~OnPage /\ ~OnPage' /\ SocketInv /\ [Next]_vars
         \/ /\ OnPage /\ OnPage' /\ Page!BrowserInv /\ [Page!Next]_Page!vars
            /\ UNCHANGED nativeVars
<1>1. CASE ~OnPage
  <2>1. SocketInv /\ mode \in {"Connect", "Listen"}
    BY <1>1 DEF AnyInv, SocketInv, TypeOK, WorkerTypes
  <2>2. [Next]_vars
    BY <1>1 DEF AnyNext, allVars
  <2>3. mode' = mode
    BY <2>2 DEF Next, vars, WorkerNext, PeerNext
  <2> QED
    BY <1>1, <2>1, <2>2, <2>3 DEF OnPage
<1>2. CASE OnPage
  <2>1. Page!BrowserInv
    BY <1>2, SameInv DEF AnyInv
  <2>2. UNCHANGED nativeVars
    BY <1>2 DEF AnyNext, allVars, vars, nativeVars, clientVars, workerVars, peerVars, pageVars
  <2>3. [Browser!Next]_Browser!vars
    BY <1>2
    DEF AnyNext, allVars, vars, pageVars, clientVars, workerVars, peerVars, channelVars,
        Browser!vars, Browser!clientVars, Browser!taskVars, Browser!socketVars, Browser!peerVars,
        Browser!channelVars
  <2>4. [Page!Next]_Page!vars
    <3>1. (Browser!vars = Page!vars)'
      BY SameVars, PTL
    <3> QED
      BY <2>3, <3>1, SameNext, SameVars
  <2>5. OnPage'
    BY <1>2, <2>2 DEF OnPage, nativeVars
  <2> QED
    BY <1>2, <2>1, <2>2, <2>4, <2>5
<1> QED
  BY <1>1, <1>2

LEMMA AnyStarts == AnyInit => AnyInv
<1> SUFFICES ASSUME AnyInit PROVE AnyInv
  OBVIOUS
<1>1. CASE Init
  <2>1. ~OnPage
    BY <1>1 DEF Init, WorkerInit, OnPage
  <2> QED
    BY <1>1, <2>1, InitInv DEF AnyInv
<1>2. CASE OnPage /\ Browser!Init
  <2>1. Page!BrowserInv
    BY <1>2, SameInit, PageIsBounded, PolicyAssumption, Page!InitInv
  <2> QED
    BY <1>2, <2>1, SameInv DEF AnyInv
<1> QED
  BY <1>1, <1>2 DEF AnyInit, OnPage

LEMMA AnyHolds == AnyInv /\ [AnyNext]_allVars => AnyInv'
<1> SUFFICES ASSUME AnyInv, [AnyNext]_allVars PROVE AnyInv'
  OBVIOUS
<1>1. CASE ~OnPage /\ ~OnPage' /\ SocketInv /\ [Next]_vars
  BY <1>1, NextInv DEF AnyInv
<1>2. CASE OnPage /\ OnPage' /\ Page!BrowserInv /\ [Page!Next]_Page!vars
  <2>1. Page!BrowserInv'
    BY <1>2, PageIsBounded, PolicyAssumption, Page!NextInv
  <2>2. (Browser!BrowserInv <=> Page!BrowserInv)'
    BY SameInv, PTL
  <2> QED
    BY <1>2, <2>1, <2>2 DEF AnyInv
<1> QED
  BY <1>1, <1>2, AnySteps

LEMMA AnyIsSafe == AnyInv => AnySafety
BY InvIsSafe, PolicyAssumption, Page!InvIsSafe, SameInv, SameSafety DEF AnyInv, AnySafety

LEMMA AnyInvariance == AnySpec => []AnyInv
BY AnyStarts, AnyHolds, PTL DEF AnySpec

\* Whichever bridge the client has, a restart that is acted on is never behind the worker or task,
\* every server is parted from politely, whatever dials fail, connections are lost and stops are
\* acted on meanwhile, and the page announces a connection before any message of it.
THEOREM SocketsAreSafe == AnySpec => []AnySafety
BY AnyInvariance, AnyIsSafe, PTL

LEMMA AnyConnects == AnyInv /\ [AnyNext]_allVars => [Slots!Next]_Slots!vars
<1> SUFFICES ASSUME AnyInv, [AnyNext]_allVars PROVE [Slots!Next]_Slots!vars
  OBVIOUS
<1>1. CASE ~OnPage /\ ~OnPage' /\ SocketInv /\ [Next]_vars
  <2>1. OneConnection
    BY <1>1, StepConnects
  <2> QED
    BY <1>1, <2>1
    DEF OneConnection, Slots!Next, Slots!vars, Slots!Start, Slots!End, Slots!Finish
<1>2. CASE OnPage /\ OnPage' /\ Page!BrowserInv /\ [Page!Next]_Page!vars
  <2>1. Page!OneConnection
    BY <1>2, PageIsBounded, PolicyAssumption, Page!StepConnects
  <2> QED
    BY <1>2, <2>1
    DEF Page!OneConnection, Page!Connected, Slots!Next, Slots!vars, Slots!Start, Slots!End,
        Slots!Finish
<1> QED
  BY <1>1, <1>2, AnySteps

\* Whichever bridge the client has, it is one slot of OneServer: one connection is up at a time,
\* each newer than the last, and none once the bridge is done.
THEOREM SocketsAreOneSlot == AnySpec => AnyRunsOneConnection
<1>1. AnyInit => Slots!Init
  BY DEF AnyInit, Init, WorkerInit, OnPage, Browser!Init, Browser!TaskInit, Slots!Init
<1> QED
  BY <1>1, AnyInvariance, AnyConnects, PTL DEF AnySpec, AnyRunsOneConnection, Slots!Spec
----------------------------------------------------------------------------
\* The two halves, whichever bridge is between them.

\* The halves begin in step.
LEMMA AnyStartsInStep == AnyInit => AnyStands
<1> SUFFICES ASSUME AnyInit PROVE AnyStands
  OBVIOUS
<1>1. CASE Init
  <2>1. ~OnPage
    BY <1>1 DEF Init, WorkerInit, OnPage
  <2> QED
    BY <1>1, <2>1, InitStands DEF AnyStands
<1>2. CASE OnPage /\ Browser!Init
  <2>1. Page!TaskStands
    BY <1>2, SameInit, PolicyAssumption, Page!InitStands
  <2> QED
    BY <1>2, <2>1, SameStands DEF AnyStands
<1> QED
  BY <1>1, <1>2 DEF AnyInit, OnPage

\* And stay so at every step of the bridge they have.
LEMMA AnyStaysInStep == AnyInv /\ AnyStands /\ [AnyNext]_allVars => AnyStands'
<1> SUFFICES ASSUME AnyInv, AnyStands, [AnyNext]_allVars PROVE AnyStands'
  OBVIOUS
<1>1. CASE ~OnPage /\ ~OnPage' /\ SocketInv /\ [Next]_vars
  BY <1>1, StandsNext DEF AnyStands
<1>2. CASE OnPage /\ OnPage' /\ Page!BrowserInv /\ [Page!Next]_Page!vars
  <2>1. Page!TaskStands
    BY <1>2, SameStands DEF AnyStands
  <2>2. Page!TaskStands'
    BY <1>2, <2>1, PageIsBounded, PolicyAssumption, Page!StandsNext
  <2>3. (Browser!TaskStands <=> Page!TaskStands)'
    BY SameStands, PTL
  <2> QED
    BY <1>2, <2>2, <2>3 DEF AnyStands
<1> QED
  BY <1>1, <1>2, AnySteps

\* Halves in step never wait for each other.
LEMMA AnyIsNoStandoff == AnyInv /\ AnyStands => AnyStandoff
<1> SUFFICES ASSUME AnyInv, AnyStands PROVE AnyStandoff
  OBVIOUS
<1>1. CASE OnPage
  <2>1. Page!BrowserInv /\ Page!TaskStands
    BY <1>1, SameInv, SameStands DEF AnyInv, AnyStands
  <2>2. Page!NoStandoff
    BY <2>1, PolicyAssumption, Page!StandsIsNoStandoff
  <2> QED
    BY <1>1, <2>2, SameStandoff DEF AnyStandoff
<1>2. CASE ~OnPage
  BY <1>2, StandsIsNoStandoff DEF AnyInv, AnyStands, AnyStandoff
<1> QED
  BY <1>1, <1>2

\* Whichever bridge the client has, the two halves never wait for each other: with nothing on its
\* way between them, the worker or the task serves the connection the client holds, or tries for
\* the one it waits for, or rests where the client stopped it, or leaves, or is gone and the client
\* knows, whatever losses, restarts and stops crossed on their way before.
THEOREM NeverAnyStandoff == AnySpec => []AnyStandoff
<1>1. AnySpec => []AnyStands
  BY AnyInvariance, AnyStartsInStep, AnyStaysInStep, PTL DEF AnySpec
<1> QED
  BY <1>1, AnyInvariance, AnyIsNoStandoff, PTL
=============================================================================
