------------------------ MODULE BrowserBridgeProofs ------------------------
(***************************************************************************)
(* For every policy and every number of calls and of faults: the browser   *)
(* bridge keeps its types, never acts on a stale restart or on the signal  *)
(* of a socket that is gone, tells the client of a connection before any   *)
(* message of it, asks no server for its shutdown before it answered       *)
(* initialize, and never waits for a client that waits for it.             *)
(***************************************************************************)
EXTENDS BrowserBridge, ClientRecoveryProofs

\* What is known of the task's constants where the bridge is instantiated.
Bounded == Timed \in BOOLEAN /\ MaxFaults \in Nat

LEMMA ReportedTypes ==
  ASSUME ChannelTypes, NEW e \in Event, Reported(e)
  PROVE  events' \in Seq(Event)
BY AppendFacts DEF ChannelTypes, Reported

\* What the task takes, and what stays behind it.
LEMMA TakeTypes ==
  ASSUME ChannelTypes, NEW type, Take(type)
  PROVE  /\ notices # <<>> /\ notices' = Tail(notices) /\ task # "Done"
         /\ notices' \in Seq(Notice) /\ Head(notices).gen \in Generation
         /\ Head(notices).done \in BOOLEAN /\ Head(notices).type = type
<1>1. Head(notices) \in Notice /\ notices' \in Seq(Notice) /\ Head(notices).type = type
  BY TakeFacts DEF ChannelTypes, Take
<1> QED
  BY <1>1 DEF Notice, Take

LEMMA FaultTypes == ASSUME Bounded, TaskTypes, Fault PROVE faults' \in 0..MaxFaults
BY DEF TaskTypes, Fault, Bounded

LEMMA NextGeneration == \A g \in Generation : g + 1 \in Generation
BY DEF Generation

\* What the task reports are events.
LEMMA TaskReports ==
  ASSUME TaskTypes
  PROVE  /\ taskGen + 1 \in Generation
         /\ Report("Stopped", 0, "Shutdown") \in Event
         /\ Report("Attempting", taskGen, "none") \in Event
         /\ Report("Reconnected", socketGen, "none") \in Event
         /\ \A reply \in Replies : Report("Message", socketGen, reply) \in Event
         /\ \A g \in Generation, why \in Reasons : Report("Lost", g, why) \in Event
<1>1. taskGen \in Generation /\ socketGen \in Generation /\ 0 \in Generation
  BY DEF TaskTypes, Generation
<1>2. {"Shutdown"} \subseteq Reasons
  BY DEF Reasons
<1> QED
  BY <1>1, <1>2, MessageTypes, NextGeneration

\* A socket is a socket whether it is kept, dropped or opened.
SocketTypes ==
  /\ socketGen \in Generation /\ sockets \in Nat /\ socket \in Nat \cup {NoSocket}
  /\ phase \in {"None", "Connecting", "Open", "Shut"} /\ (phase = "None" <=> socket = NoSocket)
  /\ pipe \subseteq Replies

LEMMA SocketKept ==
  ASSUME TaskTypes
  PROVE  /\ KeepSocket => SocketTypes'
         /\ DropSocket => SocketTypes'
         /\ \A g \in Generation : OpenSocket(g) => SocketTypes'
BY DEF TaskTypes, SocketTypes, KeepSocket, DropSocket, OpenSocket, NoSocket, socketVars

\* The rest of what the task's types say.
StateTypes ==
  /\ task \in {"Dialing", "Redialing", "Live", "Waiting", "Backoff", "Idle", "Closing", "Done"}
  /\ taskGen \in Generation
  /\ queued \in BOOLEAN /\ deadline \in BOOLEAN
  /\ ending \in {"Stopped", "Idle"} /\ step \in {"Reply", "Exit"}

MarkTypes ==
  /\ opened \in Generation \cup {-1}
  /\ signals \in Seq([type : SignalTypes, id : Nat])
  /\ acked \subseteq Generation /\ answered \subseteq Generation \X Wire
  /\ faults \in 0..MaxFaults

LEMMA TypesSplit == TaskTypes <=> SocketTypes /\ StateTypes /\ MarkTypes
BY DEF TaskTypes, SocketTypes, StateTypes, MarkTypes

LEMMA TypesJoin ==
  ASSUME SocketTypes', StateTypes', MarkTypes' PROVE TaskTypes'
BY DEF TaskTypes, SocketTypes, StateTypes, MarkTypes

LEMMA InitTypes == Bounded /\ Init => TypeOK
<1> SUFFICES ASSUME Bounded, Init PROVE TypeOK
  OBVIOUS
<1> USE DEF Init, Generation, Reasons
<1>1. ChannelTypes
  BY DEF ChannelTypes, Wire
<1>2. ClientTypes
  BY ClientStarts
<1>3. TaskTypes
  <2>1. /\ task = "Dialing" /\ taskGen = 0 /\ queued = TRUE /\ sockets = 0 /\ socketGen = 0
        /\ opened = -1 /\ deadline = FALSE /\ ending = "Stopped" /\ step = "Reply"
        /\ signals = <<>> /\ pipe = {} /\ acked = {} /\ answered = {}
    BY DEF TaskInit
  <2>2. faults \in 0..MaxFaults
    <3>1. faults = 0 \/ (faults = 1 /\ MaxFaults > 0)
      BY DEF TaskInit
    <3> QED
      BY <3>1 DEF Bounded
  <2>3. /\ phase \in {"None", "Connecting", "Open", "Shut"} /\ (phase = "None" <=> socket = NoSocket)
        /\ socket \in Nat \cup {NoSocket}
    <3>1. \/ socket = 0 /\ phase = "Connecting"
          \/ socket = NoSocket /\ phase = "None"
      BY DEF TaskInit
    <3> QED
      BY <3>1 DEF NoSocket
  <2> QED
    <3>1. SocketTypes
      BY <2>1, <2>3 DEF SocketTypes
    <3>2. StateTypes
      BY <2>1 DEF StateTypes
    <3>3. MarkTypes
      BY <2>1, <2>2 DEF MarkTypes
    <3> QED
      BY <3>1, <3>2, <3>3, TypesSplit
<1> QED
  BY <1>1, <1>2, <1>3 DEF TypeOK

\* A new loss, an attempt that failed.
LEMMA LoseTypes ==
  ASSUME TaskTypes, ChannelTypes, NEW why \in Reasons, Lose(why)
  PROVE  /\ DropSocket /\ events' \in Seq(Event) /\ taskGen' \in Generation
         /\ task' = "Waiting" /\ queued' = FALSE /\ deadline' = FALSE
BY TaskReports, ReportedTypes DEF Lose

LEMMA DialFailedTypes ==
  ASSUME TaskTypes, ChannelTypes, task = "Dialing", DialFailed
  PROVE  /\ DropSocket /\ events' \in Seq(Event) /\ taskGen' \in Generation
         /\ task' \in {"Dialing", "Waiting"} /\ queued' \in BOOLEAN /\ deadline' \in BOOLEAN
<1>1. CASE Lose("Failed")
  BY <1>1, LoseTypes DEF Reasons
<1>2. CASE ~Lose("Failed")
  BY <1>2 DEF DialFailed, TaskTypes, ChannelTypes
<1> QED
  BY <1>1, <1>2

LEMMA RedialFailedTypes ==
  ASSUME TaskTypes, ChannelTypes, RedialFailed
  PROVE  /\ DropSocket /\ events' \in Seq(Event) /\ taskGen' \in Generation
         /\ task' = "Backoff" /\ queued' \in BOOLEAN /\ deadline' \in BOOLEAN
<1>1. events' \in Seq(Event)
  BY TaskReports, ReportedTypes DEF RedialFailed
<1> QED
  BY <1>1 DEF RedialFailed, TaskTypes

LEMMA ClosedTypes ==
  ASSUME TaskTypes, ChannelTypes, Closed
  PROVE  /\ DropSocket /\ events' \in Seq(Event) /\ task' \in {"Done", "Idle"}
         /\ ending' = "Stopped" /\ step' = "Reply"
<1>1. events' \in Seq(Event)
  BY TaskReports, ReportedTypes DEF Closed, ChannelTypes
<1> QED
  BY <1>1 DEF Closed, CloseOver

LEMMA LeaveTypes ==
  ASSUME TaskTypes, ChannelTypes, Leave
  PROVE  sent' \in SUBSET (Generation \X Wire) /\ step' = "Exit"
BY DEF TaskTypes, ChannelTypes, Leave, Wire

LEMMA CloseTypes ==
  ASSUME TaskTypes, ChannelTypes, NEW done \in BOOLEAN, NEW whereTo \in {"Stopped", "Idle"},
         Close(done, whereTo)
  PROVE  /\ sent' \in SUBSET (Generation \X Wire) /\ step' \in {"Reply", "Exit"}
         /\ task' = "Closing" /\ ending' = whereTo /\ deadline' = FALSE
BY DEF TaskTypes, ChannelTypes, Close, Leave, Wire

\* What the client decided leaves the types of the task and its channels.
LEMMA ControlTypesKept ==
  ASSUME Bounded, TaskTypes, ChannelTypes, TakeControl
  PROVE  TaskTypes' /\ ChannelTypes'
<1> DEFINE n == Head(notices)
<1>0. SocketTypes /\ StateTypes /\ MarkTypes
  BY TypesSplit
<1>m. ASSUME UNCHANGED <<signals, peerVars>> PROVE MarkTypes'
  BY <1>0, <1>m DEF MarkTypes, peerVars
<1>1. CASE OnShutdown
  <2>1. notices' \in Seq(Notice) /\ n.done \in BOOLEAN
    BY <1>1, TakeTypes DEF OnShutdown
  <2>2. MarkTypes' /\ taskGen' = taskGen
    BY <1>1, <1>m DEF OnShutdown
  <2>3. CASE task = "Live"
    <3>1. Close(n.done /\ n.gen = taskGen, "Stopped") /\ KeepSocket /\ UNCHANGED <<queued, events>>
      BY <1>1, <2>3 DEF OnShutdown, Unconnected
    <3>2. /\ sent' \in SUBSET (Generation \X Wire) /\ step' \in {"Reply", "Exit"}
          /\ task' = "Closing" /\ ending' = "Stopped" /\ deadline' = FALSE
      BY <2>1, <3>1, CloseTypes
    <3>3. StateTypes'
      BY <1>0, <2>2, <3>1, <3>2 DEF StateTypes
    <3> QED
      BY <2>1, <2>2, <3>1, <3>2, <3>3, SocketKept, TypesJoin DEF ChannelTypes
  <2>4. CASE task = "Closing"
    <3>1. /\ ending' = "Stopped" /\ KeepSocket
          /\ UNCHANGED <<task, queued, deadline, step, events, sent>>
      BY <1>1, <2>4 DEF OnShutdown, Unconnected
    <3>2. StateTypes'
      BY <1>0, <2>2, <3>1 DEF StateTypes
    <3> QED
      BY <2>1, <2>2, <3>1, <3>2, SocketKept, TypesJoin DEF ChannelTypes
  <2>5. CASE task \notin {"Live", "Closing"}
    <3>1. /\ DropSocket /\ Reported(Report("Stopped", 0, "Shutdown"))
          /\ task' = "Done" /\ queued' = FALSE /\ UNCHANGED <<deadline, ending, step, sent>>
      BY <1>1, <2>5 DEF OnShutdown
    <3>2. events' \in Seq(Event)
      BY <3>1, TaskReports, ReportedTypes
    <3>3. StateTypes'
      BY <1>0, <2>2, <3>1 DEF StateTypes
    <3> QED
      BY <2>1, <2>2, <3>1, <3>2, <3>3, SocketKept, TypesJoin DEF ChannelTypes
  <2> QED
    BY <2>3, <2>4, <2>5
<1>2. CASE OnHandshaken \/ OnReconnect
  <2>1. notices' \in Seq(Notice)
    BY <1>2, TakeTypes DEF OnHandshaken, OnReconnect
  <2>2. KeepSocket /\ UNCHANGED <<taskGen, queued, ending, step, signals, peerVars, events, sent>>
    BY <1>2 DEF OnHandshaken, OnReconnect
  <2>3. deadline' \in BOOLEAN /\ task' \in {task, "Backoff"}
    <3>1. CASE OnHandshaken
      BY <1>0, <3>1 DEF OnHandshaken, StateTypes
    <3>2. CASE OnReconnect
      BY <1>0, <3>2 DEF OnReconnect, StateTypes
    <3> QED
      BY <1>2, <3>1, <3>2
  <2>4. StateTypes' /\ MarkTypes'
    BY <1>0, <1>m, <2>2, <2>3 DEF StateTypes
  <2> QED
    BY <2>1, <2>2, <2>4, SocketKept, TypesJoin DEF ChannelTypes
<1>3. CASE OnStop
  <2>1. notices' \in Seq(Notice) /\ n.gen + 1 \in Generation
    BY <1>3, TakeTypes, NextGeneration DEF OnStop
  <2>2. MarkTypes' /\ events' = events
    BY <1>3, <1>m DEF OnStop
  <2>3. CASE task = "Live" /\ n.gen = taskGen
    <3>1. taskGen' = n.gen + 1 /\ Close(FALSE, "Idle") /\ KeepSocket /\ queued' = queued
      BY <1>3, <2>3 DEF OnStop, Unconnected
    <3>2. /\ sent' \in SUBSET (Generation \X Wire) /\ step' \in {"Reply", "Exit"}
          /\ task' = "Closing" /\ ending' = "Idle" /\ deadline' = FALSE
      BY <3>1, CloseTypes
    <3>3. StateTypes'
      BY <1>0, <2>1, <3>1, <3>2 DEF StateTypes
    <3> QED
      BY <2>1, <2>2, <3>1, <3>2, <3>3, SocketKept, TypesJoin DEF ChannelTypes
  <2>4. CASE task \in Unconnected /\ n.gen = taskGen
    <3>1. /\ taskGen' = n.gen + 1 /\ DropSocket /\ task' = "Idle" /\ queued' = FALSE
          /\ UNCHANGED <<deadline, ending, step, sent>>
      BY <1>3, <2>4 DEF OnStop, Unconnected
    <3>2. StateTypes'
      BY <1>0, <2>1, <3>1 DEF StateTypes
    <3> QED
      BY <2>1, <2>2, <3>1, <3>2, SocketKept, TypesJoin DEF ChannelTypes
  <2>5. CASE task = "Closing" \/ n.gen # taskGen
    <3>1. KeepSocket /\ UNCHANGED <<taskGen, task, queued, deadline, ending, step, sent>>
      BY <1>3, <2>5 DEF OnStop, Unconnected
    <3>2. StateTypes'
      BY <1>0, <3>1 DEF StateTypes
    <3> QED
      BY <2>1, <2>2, <3>1, <3>2, SocketKept, TypesJoin DEF ChannelTypes
  <2> QED
    BY <1>3, <2>3, <2>4, <2>5 DEF OnStop
<1>4. CASE OnRestart
  <2>1. notices' \in Seq(Notice) /\ n.gen \in Generation /\ n.gen + 1 \in Generation
    BY <1>4, TakeTypes, NextGeneration DEF OnRestart
  <2>2. UNCHANGED <<signals, opened, acked, answered, sent>>
    BY <1>4 DEF OnRestart
  <2>3. CASE n.gen < taskGen \/ (task = "Closing" /\ ending = "Stopped")
    <3>1. KeepSocket /\ UNCHANGED <<taskGen, task, queued, deadline, ending, step, events, faults>>
      BY <1>0, <1>4, <2>1, <2>3 DEF OnRestart, StateTypes, Generation
    <3>2. StateTypes' /\ MarkTypes'
      BY <1>0, <2>2, <3>1 DEF StateTypes, MarkTypes
    <3> QED
      BY <2>1, <2>2, <3>1, <3>2, SocketKept, TypesJoin DEF ChannelTypes
  <2>4. CASE ~(n.gen < taskGen \/ (task = "Closing" /\ ending = "Stopped"))
    <3>1. /\ queued' = FALSE /\ deadline' = FALSE /\ ending' = "Stopped" /\ step' = "Reply"
          /\ \/ /\ taskGen' = n.gen /\ task' = "Dialing"
                /\ OpenSocket(n.gen)
                /\ UNCHANGED <<events, faults>>
             \/ /\ Fault
                /\ DropSocket
                /\ \/ taskGen' = n.gen /\ task' = "Dialing" /\ UNCHANGED events
                   \/ /\ taskGen' = n.gen + 1 /\ task' = "Waiting"
                      /\ Reported(Report("Lost", n.gen + 1, "Failed"))
      BY <1>4, <2>4 DEF OnRestart, CloseOver
    <3>2. SocketTypes'
      BY <2>1, <3>1, SocketKept
    <3>3. StateTypes'
      BY <2>1, <3>1 DEF StateTypes
    <3>4. MarkTypes'
      BY <1>0, <2>2, <3>1, FaultTypes DEF MarkTypes
    <3>5. events' \in Seq(Event)
      <4>1. Report("Lost", n.gen + 1, "Failed") \in Event
        BY <2>1, TaskReports DEF Reasons
      <4> QED
        BY <3>1, <4>1, ReportedTypes DEF ChannelTypes
    <3> QED
      BY <2>1, <2>2, <3>2, <3>3, <3>4, <3>5, TypesJoin DEF ChannelTypes
  <2> QED
    BY <2>3, <2>4
<1> QED
  BY <1>1, <1>2, <1>3, <1>4 DEF TakeControl

\* What the callbacks signalled leaves the types.
LEMMA SignalTypesKept ==
  ASSUME Bounded, TaskTypes, ChannelTypes, TakeSignals
  PROVE  TaskTypes' /\ ChannelTypes'
<1>0. SocketTypes /\ StateTypes /\ MarkTypes
  BY TypesSplit
<1>1. signals' \in Seq([type : SignalTypes, id : Nat]) /\ UNCHANGED <<peerVars, notices>>
  <2>1. signals # <<>> /\ signals' = Tail(signals) /\ UNCHANGED <<peerVars, notices>>
    BY DEF TakeSignals, OnOpened, OnClosed, OnReplied, TakeSignal
  <2>2. signals \in Seq([type : SignalTypes, id : Nat])
    BY <1>0 DEF MarkTypes
  <2> QED
    BY <2>1, <2>2, TakeFacts
<1>2. MarkTypes' /\ notices' \in Seq(Notice)
  BY <1>0, <1>1 DEF MarkTypes, ChannelTypes, peerVars
<1>3. CASE Untouched
  <2>1. KeepSocket /\ UNCHANGED <<taskGen, task, queued, deadline, ending, step, events, sent>>
    BY <1>3 DEF Untouched
  <2>2. StateTypes'
    BY <1>0, <2>1 DEF StateTypes
  <2> QED
    BY <1>2, <2>1, <2>2, SocketKept, TypesJoin DEF ChannelTypes
<1>4. CASE OnOpened
  <2>1. CASE ~Untouched
    <3>1. Live /\ KeepSocket /\ UNCHANGED <<taskGen, ending, step, events, sent>>
      BY <1>4, <2>1 DEF OnOpened
    <3>2. StateTypes'
      BY <1>0, <3>1 DEF StateTypes, Live, Bounded
    <3> QED
      BY <1>2, <3>1, <3>2, SocketKept, TypesJoin DEF ChannelTypes
  <2> QED
    BY <1>3, <2>1
<1>5. CASE OnClosed
  <2>1. ASSUME DropSocket, events' \in Seq(Event), taskGen' \in Generation, sent' = sent,
               task' \in {"Dialing", "Waiting", "Backoff", "Idle", "Done"},
               queued' \in BOOLEAN, deadline' \in BOOLEAN,
               ending' \in {"Stopped", "Idle"}, step' \in {"Reply", "Exit"}
        PROVE  TaskTypes' /\ ChannelTypes'
    <3>1. StateTypes'
      BY <2>1 DEF StateTypes
    <3> QED
      BY <1>2, <2>1, <3>1, SocketKept, TypesJoin DEF ChannelTypes
  <2>2. ending \in {"Stopped", "Idle"} /\ step \in {"Reply", "Exit"} /\ queued \in BOOLEAN
        /\ deadline \in BOOLEAN /\ taskGen \in Generation
    BY <1>0 DEF StateTypes
  <2>3. CASE task = "Dialing" /\ DialFailed /\ UNCHANGED <<ending, step, sent>>
    BY <2>1, <2>2, <2>3, DialFailedTypes
  <2>4. CASE task = "Redialing" /\ RedialFailed /\ UNCHANGED <<ending, step, sent>>
    BY <2>1, <2>2, <2>4, RedialFailedTypes
  <2>5. CASE task = "Live" /\ Lose("Closed") /\ UNCHANGED <<ending, step, sent>>
    <3>1. "Closed" \in Reasons
      BY DEF Reasons
    <3> QED
      BY <2>1, <2>2, <2>5, <3>1, LoseTypes
  <2>6. CASE task = "Closing" /\ Closed /\ UNCHANGED <<taskGen, queued, deadline, sent>>
    BY <2>1, <2>2, <2>6, ClosedTypes
  <2> QED
    BY <1>3, <1>5, <2>3, <2>4, <2>5, <2>6 DEF OnClosed
<1>6. CASE OnReplied
  <2>1. KeepSocket /\ UNCHANGED <<taskGen, task, queued, deadline, ending, events>>
    BY <1>6 DEF OnReplied
  <2>2. sent' \in SUBSET (Generation \X Wire) /\ step' \in {"Reply", "Exit"}
    BY <1>0, <1>6, LeaveTypes DEF OnReplied, ChannelTypes, StateTypes
  <2>3. StateTypes'
    BY <1>0, <2>1, <2>2 DEF StateTypes
  <2> QED
    BY <1>2, <2>1, <2>2, <2>3, SocketKept, TypesJoin DEF ChannelTypes
<1> QED
  BY <1>4, <1>5, <1>6 DEF TakeSignals

\* So does what the task does when a timer wakes it.
LEMMA TickTypesKept ==
  ASSUME Bounded, TaskTypes, ChannelTypes,
         AttemptTimesOut \/ Dial \/ Redial \/ DeadlineFires \/ StepExpires
  PROVE  TaskTypes' /\ ChannelTypes'
<1>0. SocketTypes /\ StateTypes /\ MarkTypes
  BY TypesSplit
<1>1. /\ UNCHANGED <<signals, notices, opened, acked, answered>>
      /\ faults' = faults \/ Fault
  BY DEF AttemptTimesOut, Dial, Redial, DeadlineFires, StepExpires, Woken, peerVars
<1>2. MarkTypes' /\ notices' \in Seq(Notice)
  BY <1>0, <1>1, FaultTypes DEF MarkTypes, ChannelTypes
<1>3. ASSUME SocketTypes', events' \in Seq(Event), taskGen' \in Generation,
             sent' \in SUBSET (Generation \X Wire),
             task' \in {"Dialing", "Redialing", "Live", "Waiting", "Backoff", "Idle", "Closing", "Done"},
             queued' \in BOOLEAN, deadline' \in BOOLEAN,
             ending' \in {"Stopped", "Idle"}, step' \in {"Reply", "Exit"}
      PROVE  TaskTypes' /\ ChannelTypes'
  <2>1. StateTypes'
    BY <1>3 DEF StateTypes
  <2> QED
    BY <1>2, <1>3, <2>1, TypesJoin DEF ChannelTypes
<1>4. /\ ending \in {"Stopped", "Idle"} /\ step \in {"Reply", "Exit"} /\ queued \in BOOLEAN
      /\ deadline \in BOOLEAN /\ taskGen \in Generation
      /\ events \in Seq(Event) /\ sent \in SUBSET (Generation \X Wire)
  BY <1>0 DEF StateTypes, ChannelTypes
<1>5. CASE AttemptTimesOut
  <2>1. UNCHANGED <<ending, step, sent>>
    BY <1>5 DEF AttemptTimesOut
  <2>2. CASE task = "Dialing" /\ DialFailed
    BY <1>3, <1>4, <2>1, <2>2, DialFailedTypes, SocketKept
  <2>3. CASE task = "Redialing" /\ RedialFailed
    BY <1>3, <1>4, <2>1, <2>3, RedialFailedTypes, SocketKept
  <2> QED
    BY <1>5, <2>2, <2>3 DEF AttemptTimesOut
<1>6. CASE Dial
  <2>1. task = "Dialing" /\ UNCHANGED <<ending, step, sent>>
    BY <1>6 DEF Dial
  <2>2. CASE OpenSocket(taskGen) /\ UNCHANGED <<taskGen, task, queued, deadline, events>>
    BY <1>3, <1>4, <2>1, <2>2, SocketKept
  <2>3. CASE DialFailed
    BY <1>3, <1>4, <2>1, <2>3, DialFailedTypes, SocketKept
  <2> QED
    BY <1>6, <2>2, <2>3 DEF Dial
<1>7. CASE Redial
  <2>1. UNCHANGED <<ending, step, sent>>
    BY <1>7 DEF Redial
  <2>2. CASE /\ OpenSocket(taskGen) /\ task' = "Redialing"
             /\ UNCHANGED <<taskGen, queued, deadline, events>>
    BY <1>3, <1>4, <2>1, <2>2, SocketKept
  <2>3. CASE RedialFailed
    BY <1>3, <1>4, <2>1, <2>3, RedialFailedTypes, SocketKept
  <2> QED
    BY <1>7, <2>2, <2>3 DEF Redial
<1>8. CASE DeadlineFires
  <2>1. Lose("Timeout") /\ UNCHANGED <<ending, step, sent>> /\ "Timeout" \in Reasons
    BY <1>8 DEF DeadlineFires, Reasons
  <2> QED
    BY <1>3, <1>4, <2>1, LoseTypes, SocketKept
<1>9. CASE StepExpires
  <2>1. task = "Closing" /\ UNCHANGED <<taskGen, queued, deadline>>
    BY <1>9 DEF StepExpires
  <2>2. CASE Leave /\ KeepSocket /\ UNCHANGED <<task, ending, events>>
    BY <1>3, <1>4, <2>1, <2>2, LeaveTypes, SocketKept
  <2>3. CASE Closed /\ sent' = sent
    BY <1>3, <1>4, <2>1, <2>3, ClosedTypes, SocketKept
  <2> QED
    BY <1>9, <2>2, <2>3 DEF StepExpires
<1> QED
  BY <1>5, <1>6, <1>7, <1>8, <1>9

LEMMA SignalledTypes ==
  ASSUME TaskTypes, phase # "None", NEW type \in SignalTypes, Signalled(type)
  PROVE  /\ Signal(type, socket) \in [type : SignalTypes, id : Nat]
         /\ signals' \in Seq([type : SignalTypes, id : Nat])
<1>1. Signal(type, socket) \in [type : SignalTypes, id : Nat]
  BY DEF TaskTypes, Signal, NoSocket
<1>2. signals \in Seq([type : SignalTypes, id : Nat])
  BY DEF TaskTypes
<1> QED
  BY <1>1, <1>2, AppendFacts DEF Signalled

\* And what the page calls back.
LEMMA PageTypesKept ==
  ASSUME Bounded, TaskTypes, ChannelTypes, PageNext
  PROVE  TaskTypes' /\ ChannelTypes'
<1>0. SocketTypes /\ StateTypes /\ MarkTypes
  BY TypesSplit
<1>1. /\ UNCHANGED <<taskGen, task, queued, socket, sockets, socketGen, deadline, ending, step>>
      /\ UNCHANGED <<notices, sent>>
  BY DEF PageNext, SocketOpens, SocketCloses, PeerAnswers, MessageComes, socketVars, channelVars
<1>2. StateTypes'
  BY <1>0, <1>1 DEF StateTypes
<1>3. {"Opened", "Closed", "Replied"} \subseteq SignalTypes
  BY DEF SignalTypes
<1>4. CASE SocketOpens
  <2>1. /\ phase = "Connecting" /\ phase' = "Open" /\ opened' = socketGen /\ Signalled("Opened")
        /\ UNCHANGED <<pipe, acked, answered, faults>>
        /\ events' = events \/ Reported(Report("Reconnected", socketGen, "none"))
    BY <1>4 DEF SocketOpens
  <2>2. events' \in Seq(Event)
    BY <2>1, TaskReports, ReportedTypes DEF ChannelTypes
  <2>3. MarkTypes'
    BY <1>0, <1>3, <2>1, SignalledTypes DEF MarkTypes, SocketTypes
  <2>4. SocketTypes'
    BY <1>0, <1>1, <2>1 DEF SocketTypes
  <2> QED
    BY <1>1, <1>2, <2>2, <2>3, <2>4, TypesJoin DEF ChannelTypes
<1>5. CASE SocketCloses
  <2>1. /\ phase \in {"Connecting", "Open"} /\ phase' = "Shut" /\ Signalled("Closed")
        /\ UNCHANGED <<pipe, opened, acked, answered, events>> /\ (faults' = faults \/ Fault)
    BY <1>5 DEF SocketCloses
  <2>2. MarkTypes'
    BY <1>0, <1>3, <2>1, SignalledTypes, FaultTypes DEF MarkTypes
  <2>3. SocketTypes'
    BY <1>0, <1>1, <2>1 DEF SocketTypes
  <2> QED
    BY <1>1, <1>2, <2>1, <2>2, <2>3, TypesJoin DEF ChannelTypes
<1>6. CASE PeerAnswers
  <2>1. PICK ask \in {"initialize", "shutdown"} :
          /\ answered' = answered \cup {<<socketGen, ask>>}
          /\ \E reply \in IF ask = "shutdown" THEN {"bye"} ELSE {"initialized", "refused"} :
               /\ pipe' = pipe \cup {reply}
               /\ acked' = IF reply = "initialized" THEN acked \cup {socketGen} ELSE acked
    BY <1>6 DEF PeerAnswers
  <2>2. UNCHANGED <<phase, signals, opened, faults, events>>
    BY <1>6 DEF PeerAnswers, socketVars, channelVars
  <2>3. MarkTypes'
    BY <1>0, <2>1, <2>2 DEF MarkTypes, SocketTypes, Wire
  <2>4. SocketTypes'
    BY <1>0, <1>1, <2>1, <2>2 DEF SocketTypes, Replies
  <2> QED
    BY <1>1, <1>2, <2>2, <2>3, <2>4, TypesJoin DEF ChannelTypes
<1>7. CASE MessageComes
  <2>1. PICK reply \in pipe :
          /\ pipe' = pipe \ {reply}
          /\ \/ Signalled("Replied") /\ UNCHANGED events
             \/ Reported(Report("Message", socketGen, reply)) /\ UNCHANGED signals
    BY <1>7 DEF MessageComes
  <2>2. phase = "Open" /\ phase' = phase /\ UNCHANGED <<opened, acked, answered, faults>>
    BY <1>7 DEF MessageComes, peerVars, socketVars
  <2>3. reply \in Replies
    BY <1>0 DEF SocketTypes
  <2>4. events' \in Seq(Event)
    BY <2>1, <2>3, TaskReports, ReportedTypes DEF ChannelTypes
  <2>5. signals' \in Seq([type : SignalTypes, id : Nat])
    BY <1>0, <1>3, <2>1, <2>2, SignalledTypes DEF MarkTypes
  <2>6. MarkTypes'
    BY <1>0, <2>2, <2>5 DEF MarkTypes
  <2>7. SocketTypes'
    BY <1>0, <1>1, <2>1, <2>2 DEF SocketTypes
  <2> QED
    BY <1>1, <1>2, <2>4, <2>6, <2>7, TypesJoin DEF ChannelTypes
<1> QED
  BY <1>4, <1>5, <1>6, <1>7 DEF PageNext

\* A step is the client's, the task's or the page's, and leaves the others' state alone.
LEMMA Steps ==
  ASSUME [Next]_vars
  PROVE  \/ ClientNext /\ UNCHANGED taskVars
         \/ (TakeControl \/ TakeSignals) /\ UNCHANGED clientVars
         \/ /\ AttemptTimesOut \/ Dial \/ Redial \/ DeadlineFires \/ StepExpires
            /\ UNCHANGED clientVars
         \/ PageNext /\ UNCHANGED clientVars
         \/ UNCHANGED <<clientVars, taskVars, channelVars>>
BY DEF Next, vars, HostNext, ClientNext, TaskNext

LEMMA NextTypes ==
  ASSUME Bounded, TypeOK, [Next]_vars PROVE TypeOK'
<1>0. ChannelTypes /\ ClientTypes /\ TaskTypes
  BY DEF TypeOK
<1>1. CASE ClientNext /\ UNCHANGED taskVars
  <2>1. TaskTypes'
    BY <1>0, <1>1 DEF TaskTypes, taskVars, socketVars, peerVars
  <2> QED
    BY <1>0, <1>1, <2>1, ClientTypesKept DEF TypeOK
<1>2. CASE UNCHANGED <<clientVars, taskVars, channelVars>>
  BY <1>0, <1>2 DEF TypeOK, ChannelTypes, ClientTypes, TaskTypes, clientVars, taskVars, socketVars,
                    peerVars, channelVars
<1>3. CASE ~(ClientNext /\ UNCHANGED taskVars) /\ ~UNCHANGED <<clientVars, taskVars, channelVars>>
  <2>1. TaskTypes' /\ ChannelTypes' /\ UNCHANGED clientVars
    BY <1>0, <1>3, Steps, ControlTypesKept, SignalTypesKept, TickTypesKept, PageTypesKept
  <2>2. ClientTypes'
    BY <1>0, <2>1 DEF ClientTypes, clientVars
  <2> QED
    BY <2>1, <2>2 DEF TypeOK
<1> QED
  BY <1>1, <1>2, <1>3
----------------------------------------------------------------------------
\* The order of generations: what each step does to the task's place among them.

InOrder == WorkerInOrder(taskGen, task \in {"Waiting", "Done"})

\* A step of the task or the page, as far as the order of generations goes: the generation stays;
\* the task loses what it had; or it takes a decision of the client.
Ordered ==
  \/ /\ taskGen' = taskGen
     /\ task \in {"Waiting", "Done"} => task' \in {"Waiting", "Done"}
     /\ notices' = notices \/ (notices # <<>> /\ notices' = Tail(notices))
  \/ /\ taskGen' = taskGen + 1 /\ task' = "Waiting" /\ task \notin {"Waiting", "Done"}
     /\ notices' = notices
  \/ /\ notices # <<>> /\ notices' = Tail(notices)
     /\ \/ Head(notices).type = "Reconnect" /\ Head(notices).gen = taskGen /\ taskGen' = taskGen
        \/ Head(notices).type = "Stop" /\ taskGen' = Head(notices).gen + 1
        \/ Head(notices).type = "Restart" /\ taskGen' = Head(notices).gen
        \/ /\ Head(notices).type = "Restart" /\ taskGen' = Head(notices).gen + 1
           /\ task' = "Waiting"

LEMMA OrderedKeepsOrder ==
  ASSUME TypeOK, InOrder, Ordered, clientGen' = clientGen
  PROVE  InOrder'
<1> DEFINE w == task \in {"Waiting", "Done"}
           v == task' \in {"Waiting", "Done"}
           n == Head(notices)
<1>0. /\ ChannelTypes /\ ClientTypes /\ clientGen' = clientGen /\ taskGen \in Nat
      /\ WorkerInOrder(taskGen, w) /\ w \in BOOLEAN /\ v \in BOOLEAN
  BY DEF TypeOK, TaskTypes, InOrder, Generation
<1>1. ASSUME InOrderAfter(taskGen', v) PROVE InOrder'
  BY <1>1 DEF InOrder, WorkerInOrder, InOrderAfter
<1> HIDE DEF w, v
<1>2. CASE /\ taskGen' = taskGen
           /\ w => v
           /\ notices' = notices \/ (notices # <<>> /\ notices' = Tail(notices))
  <2>1. InOrderAfter(taskGen, v)
    BY <1>0, <1>2, StillInOrder
  <2> QED
    BY <1>1, <1>2, <2>1
<1>3. CASE taskGen' = taskGen + 1 /\ v /\ ~w /\ notices' = notices
  <2>1. WorkerInOrder(taskGen, FALSE) /\ v = TRUE
    BY <1>0, <1>3
  <2>2. InOrderAfter(taskGen + 1, TRUE)
    BY <1>0, <1>3, <2>1, LossInOrder
  <2> QED
    BY <1>1, <1>3, <2>1, <2>2
<1>4. CASE notices # <<>> /\ notices' = Tail(notices)
  <2>1. /\ n.type = "Reconnect" => InOrderAfter(n.gen, v)
        /\ n.type = "Stop" => InOrderAfter(n.gen + 1, v)
        /\ n.type = "Restart" => InOrderAfter(n.gen, v) /\ InOrderAfter(n.gen + 1, TRUE)
    BY <1>0, <1>4, DecisionInOrder
  <2>2. \/ taskGen' = taskGen /\ (w => v)
        \/ n.type = "Reconnect" /\ n.gen = taskGen /\ taskGen' = taskGen
        \/ n.type = "Stop" /\ taskGen' = n.gen + 1
        \/ n.type = "Restart" /\ taskGen' = n.gen
        \/ n.type = "Restart" /\ taskGen' = n.gen + 1 /\ v = TRUE
        \/ notices' = notices
    BY <1>0 DEF Ordered, w, v
  <2>3. CASE notices' = notices
    BY <1>2, <1>3, <2>3 DEF Ordered, w, v
  <2>4. CASE n.type = "Restart" /\ taskGen' = n.gen + 1 /\ v = TRUE
    BY <1>1, <2>1, <2>4
  <2> QED
    BY <1>1, <1>2, <1>4, <2>1, <2>2, <2>3, <2>4
<1> QED
  BY <1>2, <1>3, <1>4 DEF Ordered, w, v

\* Whoever restarts the task names a generation newer than what it reached, or what a loss took it
\* to.
LEMMA RestartIsAhead ==
  ASSUME TypeOK, InOrder, Take("Restart")
  PROVE  \/ taskGen < Head(notices).gen
         \/ taskGen = Head(notices).gen /\ task = "Waiting"
<1>1. /\ notices # <<>> /\ Head(notices).type = "Restart" /\ task # "Done"
  BY DEF Take
<1>2. Head(notices) = notices[1] /\ 1 \in 1..Len(notices)
  BY <1>1, TakeFacts DEF TypeOK, ChannelTypes
<1> QED
  BY <1>1, <1>2 DEF InOrder, WorkerInOrder

LEMMA StepIsOrdered ==
  ASSUME TypeOK, TaskNext \/ PageNext
  PROVE  Ordered
<1>1. CASE OnShutdown
  <2>1. notices # <<>> /\ notices' = Tail(notices) /\ taskGen' = taskGen /\ task # "Done"
    BY <1>1 DEF OnShutdown, Take
  <2>2. task = "Waiting" => task' = "Done"
    BY <1>1 DEF OnShutdown
  <2> QED
    BY <2>1, <2>2 DEF Ordered
<1>2. CASE OnHandshaken
  BY <1>2 DEF OnHandshaken, Take, Ordered
<1>3. CASE OnReconnect
  <2>1. /\ notices # <<>> /\ notices' = Tail(notices) /\ Head(notices).type = "Reconnect"
        /\ taskGen' = taskGen
        /\ task' = IF task = "Waiting" /\ Head(notices).gen = taskGen THEN "Backoff" ELSE task
    BY <1>3 DEF OnReconnect, Take
  <2> QED
    BY <2>1 DEF Ordered
<1>4. CASE OnStop
  <2>1. notices # <<>> /\ notices' = Tail(notices) /\ Head(notices).type = "Stop"
    BY <1>4 DEF OnStop, Take
  <2>2. taskGen' = Head(notices).gen + 1 \/ UNCHANGED <<taskGen, task>>
    BY <1>4 DEF OnStop
  <2> QED
    BY <2>1, <2>2 DEF Ordered
<1>5. CASE OnRestart
  <2>1. notices # <<>> /\ notices' = Tail(notices) /\ Head(notices).type = "Restart"
    BY <1>5 DEF OnRestart, Take
  <2>2. \/ taskGen' = Head(notices).gen
        \/ taskGen' = Head(notices).gen + 1 /\ task' = "Waiting"
        \/ UNCHANGED <<taskGen, task>>
    BY <1>5 DEF OnRestart
  <2> QED
    BY <2>1, <2>2 DEF Ordered
<1>6. /\ \A why : Lose(why) => taskGen' = taskGen + 1 /\ task' = "Waiting"
      /\ DialFailed => UNCHANGED <<taskGen, task>> \/ (taskGen' = taskGen + 1 /\ task' = "Waiting")
      /\ RedialFailed => taskGen' = taskGen /\ task' = "Backoff"
      /\ Untouched => UNCHANGED <<taskGen, task>>
  BY DEF Lose, DialFailed, RedialFailed, Untouched
<1>7. CASE TakeSignals
  <2>1. notices' = notices
    BY <1>7 DEF TakeSignals, OnOpened, OnClosed, OnReplied
  <2>2. CASE OnOpened
    BY <1>6, <2>1, <2>2 DEF OnOpened, Ordered
  <2>3. CASE OnClosed
    <3>1. CASE task = "Dialing" /\ DialFailed
      <4>1. \/ taskGen' = taskGen /\ task' = task
            \/ taskGen' = taskGen + 1 /\ task' = "Waiting"
        BY <1>6, <3>1
      <4> QED
        BY <2>1, <3>1, <4>1 DEF Ordered
    <3>2. CASE task = "Redialing" /\ RedialFailed
      BY <1>6, <2>1, <3>2 DEF Ordered
    <3>3. CASE task = "Live" /\ Lose("Closed")
      <4>1. taskGen' = taskGen + 1 /\ task' = "Waiting"
        BY <1>6, <3>3
      <4> QED
        BY <2>1, <3>3, <4>1 DEF Ordered
    <3>4. CASE task = "Closing" /\ taskGen' = taskGen
      BY <2>1, <3>4 DEF Ordered
    <3>5. CASE Untouched
      <4>1. taskGen' = taskGen /\ task' = task
        BY <1>6, <3>5
      <4> QED
        BY <2>1, <4>1 DEF Ordered
    <3> QED
      BY <2>3, <3>1, <3>2, <3>3, <3>4, <3>5 DEF OnClosed
  <2>4. CASE OnReplied
    BY <2>1, <2>4 DEF OnReplied, Ordered
  <2> QED
    BY <1>7, <2>2, <2>3, <2>4 DEF TakeSignals
<1>8. CASE AttemptTimesOut \/ Dial
  <2>1. notices' = notices /\ task \notin {"Waiting", "Done"}
    BY <1>8 DEF AttemptTimesOut, Dial, Woken
  <2>2. taskGen' = taskGen \/ (taskGen' = taskGen + 1 /\ task' = "Waiting")
    BY <1>6, <1>8 DEF AttemptTimesOut, Dial
  <2> QED
    BY <2>1, <2>2 DEF Ordered
<1>9. CASE Redial \/ DeadlineFires \/ StepExpires
  <2>1. notices' = notices /\ task \notin {"Waiting", "Done"}
    BY <1>9 DEF Redial, DeadlineFires, StepExpires, Woken
  <2>2. CASE Redial
    <3>1. taskGen' = taskGen
      BY <1>6, <2>2 DEF Redial
    <3> QED
      BY <2>1, <3>1 DEF Ordered
  <2>3. CASE DeadlineFires
    <3>1. taskGen' = taskGen + 1 /\ task' = "Waiting"
      BY <1>6, <2>3 DEF DeadlineFires
    <3> QED
      BY <2>1, <3>1 DEF Ordered
  <2>4. CASE StepExpires
    <3>1. taskGen' = taskGen
      BY <2>4 DEF StepExpires
    <3> QED
      BY <2>1, <3>1 DEF Ordered
  <2> QED
    BY <1>9, <2>2, <2>3, <2>4
<1>10. CASE PageNext
  BY <1>10
  DEF PageNext, SocketOpens, SocketCloses, PeerAnswers, MessageComes, channelVars, Ordered
<1> QED
  BY <1>1, <1>2, <1>3, <1>4, <1>5, <1>7, <1>8, <1>9, <1>10 DEF TaskNext, TakeControl
----------------------------------------------------------------------------
\* Where the task stands: the socket it holds, the signals on their way, and the generations that
\* opened.

Placed == HeldIsLast /\ SignalsAreTrue /\ SocketIsKnown /\ OpensOnce

LEMMA PlacedTypes ==
  ASSUME TypeOK
  PROVE  /\ taskGen \in Nat /\ socketGen \in Nat /\ opened \in Nat \cup {-1} /\ sockets \in Nat
         /\ Len(signals) \in Nat
         /\ \A i \in 1..Len(signals) : signals[i] \in [type : SignalTypes, id : Nat]
         /\ socket \in Nat \cup {NoSocket} /\ (phase = "None" <=> socket = NoSocket)
<1>1. signals \in Seq([type : SignalTypes, id : Nat])
  BY DEF TypeOK, TaskTypes
<1>2. \A S : \A s \in Seq(S) : Len(s) \in Nat /\ \A i \in 1..Len(s) : s[i] \in S
  OBVIOUS
<1>3. /\ Len(signals) \in Nat
      /\ \A i \in 1..Len(signals) : signals[i] \in [type : SignalTypes, id : Nat]
  BY <1>1, <1>2
<1> QED
  BY <1>3 DEF TypeOK, TaskTypes, Generation

\* Signals' is what signals was, or what is behind its head.
Heard == signals' = signals \/ (signals # <<>> /\ signals' = Tail(signals))

LEMMA HeardFacts ==
  ASSUME TypeOK, Heard
  PROVE  \A i \in 1..Len(signals') :
           \E j \in 1..Len(signals) : signals'[i] = signals[j]
<1>1. CASE signals' = signals
  BY <1>1
<1>2. CASE signals # <<>> /\ signals' = Tail(signals)
  <2>1. signals \in Seq([type : SignalTypes, id : Nat])
    BY DEF TypeOK, TaskTypes
  <2>2. /\ Len(signals) \in Nat \ {0} /\ Len(signals') = Len(signals) - 1
        /\ \A i \in 1..Len(signals') : signals'[i] = signals[i + 1]
    BY <1>2, <2>1, TakeFacts
  <2>3. \A i \in 1..Len(signals') : i + 1 \in 1..Len(signals)
    BY <2>2
  <2> QED
    BY <2>2, <2>3
<1> QED
  BY <1>1, <1>2 DEF Heard

\* The task lets go of its socket.
LEMMA PlacedDropped ==
  ASSUME TypeOK, Placed, DropSocket, Heard, opened' = opened,
         taskGen' \in Nat, taskGen <= taskGen', task' \notin {"Live", "Closing"},
         task' \in {"Dialing", "Redialing", "Waiting", "Backoff"} => opened < taskGen'
  PROVE  Placed'
<1>0. /\ taskGen \in Nat /\ socketGen \in Nat /\ opened \in Nat \cup {-1} /\ sockets \in Nat
      /\ \A i \in 1..Len(signals) : signals[i].id \in Nat /\ signals[i].id <= sockets
      /\ opened <= taskGen /\ socketGen <= taskGen
  BY PlacedTypes DEF Placed, SignalsAreTrue, OpensOnce, HeldIsLast
<1>1. socket' = NoSocket /\ phase' = "None" /\ sockets' = sockets /\ socketGen' = socketGen
  BY DEF DropSocket
<1>2. \A i \in 1..Len(signals') : signals'[i].id \in Nat /\ signals'[i].id <= sockets
  BY <1>0, HeardFacts
<1>3. \A i \in 1..Len(signals') : \A type : signals'[i] # Signal(type, socket')
  BY <1>1, <1>2 DEF Signal, NoSocket
<1>4. HeldIsLast'
  BY <1>0, <1>1 DEF HeldIsLast
<1>5. SignalsAreTrue'
  BY <1>1, <1>2, <1>3 DEF SignalsAreTrue
<1>6. SocketIsKnown'
  BY <1>1 DEF SocketIsKnown
<1>7. OpensOnce'
  <2>1. opened <= taskGen'
    BY <1>0
  <2> QED
    BY <1>1, <2>1 DEF OpensOnce
<1> QED
  BY <1>4, <1>5, <1>6, <1>7 DEF Placed

\* The task opens another socket.
LEMMA PlacedOpened ==
  ASSUME TypeOK, Placed, NEW g \in Nat, OpenSocket(g), Heard, opened' = opened, opened < g,
         taskGen' = g, task' \in {"Dialing", "Redialing"}
  PROVE  Placed'
<1>0. /\ opened \in Nat \cup {-1} /\ sockets \in Nat
      /\ \A i \in 1..Len(signals) : signals[i].id \in Nat /\ signals[i].id <= sockets
  BY PlacedTypes DEF Placed, SignalsAreTrue
<1>1. socket' = sockets + 1 /\ phase' = "Connecting" /\ sockets' = sockets + 1 /\ socketGen' = g
  BY DEF OpenSocket
<1>2. \A i \in 1..Len(signals') : signals'[i].id \in Nat /\ signals'[i].id <= sockets
  BY <1>0, HeardFacts
<1>3. \A i \in 1..Len(signals') : \A type : signals'[i] # Signal(type, socket')
  BY <1>0, <1>1, <1>2 DEF Signal
<1>4. HeldIsLast'
  BY <1>1 DEF HeldIsLast
<1>5. SignalsAreTrue'
  BY <1>0, <1>1, <1>2, <1>3 DEF SignalsAreTrue
<1>6. SocketIsKnown'
  BY <1>1 DEF SocketIsKnown
<1>7. OpensOnce'
  BY <1>0, <1>1 DEF OpensOnce
<1> QED
  BY <1>4, <1>5, <1>6, <1>7 DEF Placed

\* The task says goodbye, or waits no longer, with the socket it has.
LEMMA PlacedKept ==
  ASSUME TypeOK, Placed, UNCHANGED socketVars, UNCHANGED <<signals, opened>>,
         taskGen' \in Nat,
         \/ task' = task /\ taskGen' = taskGen
         \/ task = "Live" /\ task' = "Closing" /\ taskGen <= taskGen'
         \/ task = "Waiting" /\ task' = "Backoff" /\ taskGen' = taskGen
  PROVE  Placed'
<1>0. taskGen \in Nat /\ socketGen \in Nat /\ opened \in Nat \cup {-1} /\ sockets \in Nat
  BY PlacedTypes
<1>1. UNCHANGED <<socket, sockets, socketGen, phase>>
  BY DEF socketVars
<1>2. HeldIsLast'
  BY <1>0, <1>1 DEF Placed, HeldIsLast
<1>3. SignalsAreTrue'
  BY <1>1 DEF Placed, SignalsAreTrue
<1>4. SocketIsKnown'
  BY <1>1 DEF Placed, SocketIsKnown
<1>5. OpeningComes => OpeningComes'
  BY <1>1 DEF OpeningComes
<1>6. OpensOnce'
  BY <1>0, <1>1, <1>5 DEF Placed, OpensOnce
<1> QED
  BY <1>2, <1>3, <1>4, <1>6 DEF Placed

\* A signal that says nothing of the held socket that the task has yet to hear is dropped.
LEMMA PlacedTaken ==
  ASSUME TypeOK, Placed, UNCHANGED socketVars, UNCHANGED <<task, taskGen, opened>>,
         signals # <<>>, signals' = Tail(signals),
         Head(signals) # Signal("Closed", socket),
         task \in {"Dialing", "Redialing"} => Head(signals) # Signal("Opened", socket)
  PROVE  Placed'
<1>0. UNCHANGED <<socket, sockets, socketGen, phase>>
  BY DEF socketVars
<1>1. /\ Len(signals) \in Nat \ {0} /\ Len(signals') = Len(signals) - 1
      /\ \A i \in 1..Len(signals') : signals'[i] = signals[i + 1]
      /\ Head(signals) = signals[1]
  <2>1. signals \in Seq([type : SignalTypes, id : Nat])
    BY DEF TypeOK, TaskTypes
  <2> QED
    BY <2>1, TakeFacts
<1>2. /\ \A i \in 1..Len(signals') : i + 1 \in 1..Len(signals)
      /\ \A i \in 1..Len(signals) : i # 1 => i - 1 \in 1..Len(signals')
      /\ \A i \in 1..Len(signals) : i # 1 => signals'[i - 1] = signals[i]
  BY <1>1
<1>3. HeldIsLast'
  BY <1>0 DEF Placed, HeldIsLast
<1>4. SignalsAreTrue'
  <2>1. \A i \in 1..Len(signals') : \E j \in 1..Len(signals) : signals'[i] = signals[j]
    BY <1>1, <1>2
  <2> QED
    BY <1>0, <2>1 DEF Placed, SignalsAreTrue
<1>5. \A type \in {"Opened", "Closed"} :
        /\ type = "Closed" \/ task \in {"Dialing", "Redialing"}
        /\ \E i \in 1..Len(signals) : signals[i] = Signal(type, socket)
        => \E i \in 1..Len(signals') : signals'[i] = Signal(type, socket)
  <2> SUFFICES ASSUME NEW type \in {"Opened", "Closed"},
                      type = "Closed" \/ task \in {"Dialing", "Redialing"},
                      NEW i \in 1..Len(signals), signals[i] = Signal(type, socket)
               PROVE  \E k \in 1..Len(signals') : signals'[k] = Signal(type, socket)
    OBVIOUS
  <2>1. i # 1
    BY <1>1
  <2> QED
    BY <1>2, <2>1
<1>6. SocketIsKnown'
  BY <1>0, <1>5 DEF Placed, SocketIsKnown
<1>7. task \in {"Dialing", "Redialing"} /\ OpeningComes => OpeningComes'
  <2> SUFFICES ASSUME task \in {"Dialing", "Redialing"}, OpeningComes PROVE OpeningComes'
    OBVIOUS
  <2>1. PICK i \in 1..Len(signals) :
          /\ signals[i] = Signal("Opened", socket)
          /\ \A j \in 1..Len(signals) : signals[j] = Signal("Closed", socket) => i < j
    BY DEF OpeningComes
  <2>2. i # 1
    BY <1>1, <2>1
  <2>3. i - 1 \in 1..Len(signals') /\ signals'[i - 1] = Signal("Opened", socket)
    BY <1>2, <2>1, <2>2
  <2>4. \A j \in 1..Len(signals') : signals'[j] = Signal("Closed", socket) => i - 1 < j
    <3> SUFFICES ASSUME NEW j \in 1..Len(signals'), signals'[j] = Signal("Closed", socket)
                 PROVE  i - 1 < j
      OBVIOUS
    <3>1. j + 1 \in 1..Len(signals) /\ signals[j + 1] = Signal("Closed", socket)
      BY <1>1, <1>2
    <3>2. i < j + 1
      BY <2>1, <3>1
    <3> QED
      BY <3>2
  <2>5. socket # NoSocket
    BY DEF OpeningComes
  <2> QED
    BY <1>0, <2>3, <2>4, <2>5 DEF OpeningComes
<1>8. OpensOnce'
  BY <1>0, <1>7 DEF Placed, OpensOnce
<1> QED
  BY <1>3, <1>4, <1>6, <1>8 DEF Placed

\* What a socket that is not connecting, opened or shut now says besides is appended.
LEMMA SignalledFacts ==
  ASSUME TypeOK, phase # "None", NEW type \in SignalTypes, Signalled(type)
  PROVE  /\ Len(signals') = Len(signals) + 1 /\ Len(signals) \in Nat
         /\ \A i \in 1..Len(signals) : signals'[i] = signals[i]
         /\ signals'[Len(signals) + 1] = Signal(type, socket)
<1>1. Signal(type, socket) \in [type : SignalTypes, id : Nat]
  BY SignalledTypes DEF TypeOK
<1>2. signals \in Seq([type : SignalTypes, id : Nat])
  BY DEF TypeOK, TaskTypes
<1> QED
  BY <1>1, <1>2, AppendFacts DEF Signalled

LEMMA PlacedReplied ==
  ASSUME TypeOK, Placed, UNCHANGED socketVars, UNCHANGED <<task, taskGen, opened>>,
         phase # "None", Signalled("Replied")
  PROVE  Placed'
<1>0. UNCHANGED <<socket, sockets, socketGen, phase>>
  BY DEF socketVars
<1>1. /\ Len(signals') = Len(signals) + 1 /\ Len(signals) \in Nat
      /\ \A i \in 1..Len(signals) : signals'[i] = signals[i]
      /\ signals'[Len(signals) + 1] = Signal("Replied", socket)
  BY SignalledFacts DEF SignalTypes
<1>2. /\ \A i \in 1..Len(signals') : i \in 1..Len(signals) \/ i = Len(signals) + 1
      /\ \A i \in 1..Len(signals) : i \in 1..Len(signals')
  BY <1>1
<1>3. HeldIsLast'
  BY <1>0 DEF Placed, HeldIsLast
<1>n. /\ Signal("Replied", socket) # Signal("Opened", socket)
      /\ Signal("Replied", socket) # Signal("Closed", socket)
      /\ Signal("Replied", socket).id <= sockets
  <2>1. socket = sockets /\ sockets \in Nat
    BY PlacedTypes DEF Placed, HeldIsLast
  <2> QED
    BY <2>1 DEF Signal
<1>4. SignalsAreTrue'
  <2> SUFFICES ASSUME NEW i \in 1..Len(signals')
               PROVE  /\ signals'[i].id <= sockets'
                      /\ signals'[i] = Signal("Opened", socket') =>
                           phase' \in {"Open", "Shut"} /\ opened' = socketGen'
                      /\ signals'[i] = Signal("Closed", socket') => phase' = "Shut"
    BY DEF SignalsAreTrue
  <2>1. CASE i \in 1..Len(signals)
    BY <1>0, <1>1, <2>1 DEF Placed, SignalsAreTrue
  <2>2. CASE i = Len(signals) + 1
    BY <1>0, <1>1, <1>n, <2>2
  <2> QED
    BY <1>2, <2>1, <2>2
<1>5. SocketIsKnown'
  <2>1. \A type \in {"Opened", "Closed"} :
          (\E i \in 1..Len(signals) : signals[i] = Signal(type, socket))
            => \E i \in 1..Len(signals') : signals'[i] = Signal(type, socket)
    BY <1>1, <1>2
  <2> QED
    BY <1>0, <2>1 DEF Placed, SocketIsKnown
<1>6. OpeningComes => OpeningComes'
  <2> SUFFICES ASSUME OpeningComes PROVE OpeningComes'
    OBVIOUS
  <2>1. PICK i \in 1..Len(signals) :
          /\ signals[i] = Signal("Opened", socket)
          /\ \A j \in 1..Len(signals) : signals[j] = Signal("Closed", socket) => i < j
    BY DEF OpeningComes
  <2>2. i \in 1..Len(signals') /\ signals'[i] = Signal("Opened", socket)
    BY <1>1, <1>2, <2>1
  <2>3. \A j \in 1..Len(signals') : signals'[j] = Signal("Closed", socket) => i < j
    BY <1>1, <1>2, <1>n, <2>1
  <2> QED
    BY <1>0, <2>2, <2>3 DEF OpeningComes
<1>7. OpensOnce'
  BY <1>0, <1>6 DEF Placed, OpensOnce
<1> QED
  BY <1>3, <1>4, <1>5, <1>7 DEF Placed

\* The socket opens: none but the task that dials it holds it.
LEMMA PlacedOpens ==
  ASSUME TypeOK, Placed, SocketOpens
  PROVE  Placed'
<1>0. /\ phase = "Connecting" /\ phase' = "Open" /\ opened' = socketGen /\ Signalled("Opened")
      /\ UNCHANGED <<taskGen, task, socket, sockets, socketGen>>
  BY DEF SocketOpens
<1>1. /\ socket # NoSocket /\ socket = sockets /\ sockets \in Nat /\ socket \in Nat
      /\ taskGen \in Nat /\ socketGen \in Nat /\ socketGen <= taskGen
      /\ task \notin {"Live", "Closing", "Waiting", "Backoff"}
  BY <1>0, PlacedTypes DEF Placed, HeldIsLast, SocketIsKnown
<1>2. /\ Len(signals') = Len(signals) + 1 /\ Len(signals) \in Nat
      /\ \A i \in 1..Len(signals) : signals'[i] = signals[i]
      /\ signals'[Len(signals) + 1] = Signal("Opened", socket)
  BY <1>0, SignalledFacts DEF SignalTypes
<1>3. /\ \A i \in 1..Len(signals') : i \in 1..Len(signals) \/ i = Len(signals) + 1
      /\ Len(signals) + 1 \in 1..Len(signals')
  BY <1>2
<1>4. /\ Signal("Opened", socket) # Signal("Closed", socket)
      /\ Signal("Opened", socket).id <= sockets
  BY <1>1 DEF Signal
<1>5. \A i \in 1..Len(signals) : signals[i].id <= sockets /\ signals[i] # Signal("Closed", socket)
  BY <1>0 DEF Placed, SignalsAreTrue
<1>6. \A i \in 1..Len(signals') :
        signals'[i].id <= sockets /\ signals'[i] # Signal("Closed", socket)
  BY <1>2, <1>3, <1>4, <1>5
<1>7. HeldIsLast'
  BY <1>0 DEF Placed, HeldIsLast
<1>8. SignalsAreTrue'
  BY <1>0, <1>6 DEF SignalsAreTrue
<1>9. SocketIsKnown'
  BY <1>0, <1>1, <1>2, <1>3 DEF SocketIsKnown
<1>10. OpeningComes'
  BY <1>0, <1>1, <1>2, <1>3, <1>6 DEF OpeningComes
<1>11. OpensOnce'
  BY <1>0, <1>1, <1>10 DEF OpensOnce
<1> QED
  BY <1>7, <1>8, <1>9, <1>11 DEF Placed

\* The socket closes, behind all it had to say.
LEMMA PlacedCloses ==
  ASSUME TypeOK, Placed, SocketCloses
  PROVE  Placed'
<1>0. /\ phase \in {"Connecting", "Open"} /\ phase' = "Shut" /\ Signalled("Closed")
      /\ UNCHANGED <<taskGen, task, socket, sockets, socketGen, opened>>
  BY DEF SocketCloses
<1>1. /\ socket # NoSocket /\ socket = sockets /\ sockets \in Nat
      /\ task \notin {"Waiting", "Backoff"}
  BY <1>0, PlacedTypes DEF Placed, HeldIsLast
<1>2. /\ Len(signals') = Len(signals) + 1 /\ Len(signals) \in Nat
      /\ \A i \in 1..Len(signals) : signals'[i] = signals[i]
      /\ signals'[Len(signals) + 1] = Signal("Closed", socket)
  BY <1>0, SignalledFacts DEF SignalTypes
<1>3. /\ \A i \in 1..Len(signals') : i \in 1..Len(signals) \/ i = Len(signals) + 1
      /\ \A i \in 1..Len(signals) : i \in 1..Len(signals') /\ i < Len(signals) + 1
      /\ Len(signals) + 1 \in 1..Len(signals')
  BY <1>2
<1>4. /\ Signal("Opened", socket) # Signal("Closed", socket)
      /\ Signal("Closed", socket).id <= sockets
  BY <1>1 DEF Signal
<1>5. \A i \in 1..Len(signals) :
        /\ signals[i].id <= sockets
        /\ signals[i] = Signal("Opened", socket) => opened = socketGen
        /\ signals[i] # Signal("Closed", socket)
  BY <1>0 DEF Placed, SignalsAreTrue
<1>6. HeldIsLast'
  BY <1>0 DEF Placed, HeldIsLast
<1>7. SignalsAreTrue'
  <2>1. \A i \in 1..Len(signals') :
          signals'[i].id <= sockets /\ (signals'[i] = Signal("Opened", socket) => opened = socketGen)
    BY <1>2, <1>3, <1>4, <1>5
  <2> QED
    BY <1>0, <2>1 DEF SignalsAreTrue
<1>8. SocketIsKnown'
  BY <1>0, <1>2, <1>3 DEF SocketIsKnown
<1>9. OpeningComes => OpeningComes'
  <2> SUFFICES ASSUME OpeningComes PROVE OpeningComes'
    OBVIOUS
  <2>1. PICK i \in 1..Len(signals) : signals[i] = Signal("Opened", socket)
    BY DEF OpeningComes
  <2>2. i \in 1..Len(signals') /\ signals'[i] = Signal("Opened", socket)
    BY <1>2, <1>3, <2>1
  <2>3. \A j \in 1..Len(signals') : signals'[j] = Signal("Closed", socket) => i < j
    BY <1>2, <1>3, <1>5
  <2> QED
    BY <1>0, <1>1, <2>2, <2>3 DEF OpeningComes
<1>10. OpensOnce'
  BY <1>0, <1>1, <1>9 DEF Placed, OpensOnce
<1> QED
  BY <1>6, <1>7, <1>8, <1>10 DEF Placed

\* What the client decided leaves the task well placed.
LEMMA ControlPlaced ==
  ASSUME TypeOK, InOrder, Placed, TakeControl
  PROVE  Placed'
<1> DEFINE n == Head(notices)
<1>0. /\ taskGen \in Nat /\ opened \in Nat \cup {-1} /\ opened <= taskGen /\ ChannelTypes
      /\ task = "Waiting" => opened < taskGen
  BY PlacedTypes DEF Placed, OpensOnce, TypeOK
<1>1. ASSUME UNCHANGED <<signals, opened>>, KeepSocket,
             \/ task' = task /\ taskGen' = taskGen
             \/ task = "Live" /\ task' = "Closing" /\ taskGen' \in {taskGen, taskGen + 1}
             \/ task = "Waiting" /\ task' = "Backoff" /\ taskGen' = taskGen
      PROVE  Placed'
  <2>1. UNCHANGED socketVars /\ taskGen' \in Nat /\ taskGen <= taskGen'
    BY <1>0, <1>1 DEF KeepSocket
  <2> QED
    BY <1>1, <2>1, PlacedKept
<1>2. CASE OnShutdown
  <2>1. UNCHANGED <<signals, opened>> /\ taskGen' = taskGen
    BY <1>2 DEF OnShutdown, peerVars
  <2>2. CASE task = "Live" /\ task' = "Closing" /\ KeepSocket
    BY <1>1, <2>1, <2>2
  <2>3. CASE task' = task /\ KeepSocket
    BY <1>1, <2>1, <2>3
  <2>4. CASE task' = "Done" /\ DropSocket
    BY <1>0, <2>1, <2>4, PlacedDropped DEF Heard
  <2> QED
    BY <1>2, <2>2, <2>3, <2>4 DEF OnShutdown, Close
<1>3. CASE OnHandshaken
  <2>1. UNCHANGED <<signals, opened, taskGen, task>> /\ KeepSocket
    BY <1>3 DEF OnHandshaken, peerVars
  <2> QED
    BY <1>1, <2>1
<1>4. CASE OnReconnect
  <2>1. /\ UNCHANGED <<signals, opened, taskGen>> /\ KeepSocket
        /\ task' = task \/ (task = "Waiting" /\ task' = "Backoff")
    BY <1>4 DEF OnReconnect, peerVars
  <2> QED
    BY <1>1, <2>1
<1>5. CASE OnStop
  <2>1. UNCHANGED <<signals, opened>>
    BY <1>5 DEF OnStop, peerVars
  <2>2. CASE task = "Live" /\ task' = "Closing" /\ taskGen' = taskGen + 1 /\ KeepSocket
    BY <1>1, <2>1, <2>2
  <2>3. CASE task' = "Idle" /\ taskGen' = taskGen + 1 /\ DropSocket
    <3>1. taskGen' \in Nat /\ taskGen <= taskGen'
      BY <1>0, <2>3
    <3> QED
      BY <2>1, <2>3, <3>1, PlacedDropped DEF Heard
  <2>4. CASE task' = task /\ taskGen' = taskGen /\ KeepSocket
    BY <1>1, <2>1, <2>4
  <2> QED
    BY <1>5, <2>2, <2>3, <2>4 DEF OnStop, Close
<1>6. CASE OnRestart
  <2>1. UNCHANGED <<signals, opened>> /\ Take("Restart")
    BY <1>6 DEF OnRestart
  <2>2. n.gen \in Nat
    BY <1>0, <2>1, TakeTypes DEF Generation
  <2>3. taskGen <= n.gen /\ opened < n.gen
    <3>1. taskGen < n.gen \/ (taskGen = n.gen /\ task = "Waiting")
      BY <2>1, RestartIsAhead
    <3> QED
      BY <1>0, <2>2, <3>1
  <2>4. CASE task' = task /\ taskGen' = taskGen /\ KeepSocket
    BY <1>1, <2>1, <2>4
  <2>5. CASE taskGen' = n.gen /\ task' = "Dialing" /\ OpenSocket(n.gen)
    BY <2>1, <2>2, <2>3, <2>5, PlacedOpened DEF Heard
  <2>6. CASE DropSocket /\ taskGen' = n.gen /\ task' = "Dialing"
    BY <2>1, <2>2, <2>3, <2>6, PlacedDropped DEF Heard
  <2>7. CASE DropSocket /\ taskGen' = n.gen + 1 /\ task' = "Waiting"
    <3>1. taskGen' \in Nat /\ taskGen <= taskGen' /\ opened < taskGen'
      BY <1>0, <2>2, <2>3, <2>7
    <3> QED
      BY <2>1, <2>7, <3>1, PlacedDropped DEF Heard
  <2> QED
    BY <1>6, <2>4, <2>5, <2>6, <2>7 DEF OnRestart
<1> QED
  BY <1>2, <1>3, <1>4, <1>5, <1>6 DEF TakeControl

\* An attempt or a connection that is over leaves the task well placed, if nothing newer than the
\* generation it was made for opened.
LEMMA EndPlaced ==
  ASSUME TypeOK, Placed, Heard, opened' = opened
  PROVE  /\ \A why : Lose(why) => Placed'
         /\ DialFailed /\ task = "Dialing" /\ opened < taskGen => Placed'
         /\ RedialFailed /\ opened < taskGen => Placed'
         /\ Closed /\ taskGen' = taskGen => Placed'
<1>0. taskGen \in Nat /\ opened \in Nat \cup {-1} /\ opened <= taskGen
  BY PlacedTypes DEF Placed, OpensOnce
<1>1. ASSUME NEW why, Lose(why) PROVE Placed'
  <2>1. DropSocket /\ task' = "Waiting" /\ taskGen' = taskGen + 1
    BY <1>1 DEF Lose
  <2>2. taskGen' \in Nat /\ taskGen <= taskGen' /\ opened < taskGen'
    BY <1>0, <2>1
  <2> QED
    BY <2>1, <2>2, PlacedDropped
<1>2. ASSUME DialFailed, task = "Dialing", opened < taskGen PROVE Placed'
  <2>1. CASE DropSocket /\ UNCHANGED <<taskGen, task>>
    BY <1>0, <1>2, <2>1, PlacedDropped
  <2> QED
    BY <1>1, <1>2, <2>1 DEF DialFailed
<1>3. ASSUME RedialFailed, opened < taskGen PROVE Placed'
  <2>1. DropSocket /\ task' = "Backoff" /\ taskGen' = taskGen
    BY <1>3 DEF RedialFailed
  <2> QED
    BY <1>0, <1>3, <2>1, PlacedDropped
<1>4. ASSUME Closed, taskGen' = taskGen PROVE Placed'
  <2>1. DropSocket /\ task' \in {"Done", "Idle"}
    BY <1>4 DEF Closed
  <2> QED
    BY <1>0, <1>4, <2>1, PlacedDropped
<1> QED
  BY <1>1, <1>2, <1>3, <1>4

\* So do the signals the task hears.
LEMMA SignalPlaced ==
  ASSUME TypeOK, Placed, TakeSignals
  PROVE  Placed'
<1> DEFINE s == Head(signals)
<1>0. /\ signals # <<>> /\ signals' = Tail(signals) /\ opened' = opened
  BY DEF TakeSignals, OnOpened, OnClosed, OnReplied, TakeSignal, peerVars
<1>1. /\ s = signals[1] /\ 1 \in 1..Len(signals) /\ s \in [type : SignalTypes, id : Nat]
      /\ Heard
  <2>1. signals \in Seq([type : SignalTypes, id : Nat])
    BY DEF TypeOK, TaskTypes
  <2>2. \A S : \A q \in Seq(S) : q # <<>> => Head(q) = q[1] /\ 1 \in 1..Len(q) /\ Head(q) \in S
    OBVIOUS
  <2> QED
    BY <1>0, <2>1, <2>2 DEF Heard
<1>2. s = Signal(s.type, s.id)
  BY <1>1 DEF Signal
<1>3. ASSUME KeepSocket, UNCHANGED <<task, taskGen>>,
             \/ s.type = "Replied" \/ s.id # socket
             \/ s.type = "Opened" /\ task \notin {"Dialing", "Redialing"}
      PROVE  Placed'
  <2>1. /\ s # Signal("Closed", socket)
        /\ task \in {"Dialing", "Redialing"} => s # Signal("Opened", socket)
    BY <1>3 DEF Signal
  <2> QED
    BY <1>0, <1>3, <2>1, PlacedTaken DEF KeepSocket
<1>4. CASE OnOpened
  <2>1. s.type = "Opened"
    BY <1>4 DEF OnOpened, TakeSignal
  <2>2. CASE task \in {"Dialing", "Redialing"} /\ Held(s)
    <3>1. /\ task' = "Live" /\ taskGen' = taskGen
          /\ UNCHANGED <<socket, sockets, socketGen, phase>>
      BY <1>4, <2>2 DEF OnOpened, Live, KeepSocket, socketVars
    <3>2. s = Signal("Opened", socket)
      BY <1>2, <2>1, <2>2 DEF Held
    <3>3. phase \in {"Open", "Shut"} /\ opened = socketGen
      BY <1>1, <3>2 DEF Placed, SignalsAreTrue
    <3>4. HeldIsLast'
      BY <2>2, <3>1 DEF Placed, HeldIsLast
    <3>5. SignalsAreTrue'
      <4>1. \A i \in 1..Len(signals') : \E j \in 1..Len(signals) : signals'[i] = signals[j]
        BY <1>1, HeardFacts
      <4> QED
        BY <1>0, <3>1, <4>1 DEF Placed, SignalsAreTrue
    <3>6. SocketIsKnown'
      <4>1. ASSUME phase = "Shut"
            PROVE  \E i \in 1..Len(signals') : signals'[i] = Signal("Closed", socket)
        <5>1. PICK i \in 1..Len(signals) : signals[i] = Signal("Closed", socket)
          BY <4>1 DEF Placed, SocketIsKnown
        <5>2. i # 1
          BY <1>1, <3>2, <5>1 DEF Signal
        <5>3. /\ Len(signals) \in Nat \ {0} /\ Len(signals') = Len(signals) - 1
              /\ \A k \in 1..Len(signals') : signals'[k] = signals[k + 1]
          <6>1. signals \in Seq([type : SignalTypes, id : Nat])
            BY DEF TypeOK, TaskTypes
          <6> QED
            BY <1>0, <6>1, TakeFacts
        <5>4. i - 1 \in 1..Len(signals') /\ signals'[i - 1] = signals[i]
          BY <5>2, <5>3
        <5> QED
          BY <5>1, <5>4
      <4> QED
        BY <3>1, <3>3, <4>1 DEF SocketIsKnown
    <3>7. OpensOnce'
      BY <1>0, <3>1, <3>3 DEF Placed, OpensOnce
    <3> QED
      BY <3>4, <3>5, <3>6, <3>7 DEF Placed
  <2>3. CASE ~(task \in {"Dialing", "Redialing"} /\ Held(s))
    <3>1. KeepSocket /\ UNCHANGED <<task, taskGen>>
      BY <1>4, <2>3 DEF OnOpened, Untouched
    <3>2. s.id # socket \/ task \notin {"Dialing", "Redialing"}
      BY <2>3 DEF Held
    <3> QED
      BY <1>3, <2>1, <3>1, <3>2
  <2> QED
    BY <2>2, <2>3
<1>5. CASE OnReplied
  <2>1. s.type = "Replied" /\ KeepSocket /\ UNCHANGED <<task, taskGen>>
    BY <1>5 DEF OnReplied, TakeSignal
  <2> QED
    BY <1>3, <2>1
<1>6. CASE OnClosed
  <2>1. s.type = "Closed"
    BY <1>6 DEF OnClosed, TakeSignal
  <2>2. CASE ~Held(s) /\ Untouched
    <3>1. s.id # socket /\ KeepSocket /\ UNCHANGED <<task, taskGen>>
      BY <2>2 DEF Held, Untouched
    <3> QED
      BY <1>3, <3>1
  <2>3. ASSUME Held(s) PROVE task \in {"Dialing", "Redialing"} => opened < taskGen
    <3>1. s = Signal("Closed", socket)
      BY <1>2, <2>1, <2>3 DEF Held
    <3>2. ~OpeningComes
      <4> SUFFICES ASSUME OpeningComes PROVE FALSE
        OBVIOUS
      <4>1. PICK i \in 1..Len(signals) :
              \A j \in 1..Len(signals) : signals[j] = Signal("Closed", socket) => i < j
        BY DEF OpeningComes
      <4>2. i < 1
        BY <1>1, <3>1, <4>1
      <4> QED
        BY <4>2
    <3> QED
      BY <3>2 DEF Placed, OpensOnce
  <2> QED
    BY <1>0, <1>1, <1>6, <2>2, <2>3, EndPlaced DEF OnClosed
<1> QED
  BY <1>4, <1>5, <1>6 DEF TakeSignals

\* And what the task does when a timer wakes it, with no signal left to hear.
LEMMA TickPlaced ==
  ASSUME TypeOK, Placed, AttemptTimesOut \/ Dial \/ Redial \/ DeadlineFires \/ StepExpires
  PROVE  Placed'
<1>1. /\ signals = <<>> /\ signals' = signals /\ opened' = opened /\ taskGen \in Nat
      /\ Heard
  BY PlacedTypes
  DEF AttemptTimesOut, Dial, Redial, DeadlineFires, StepExpires, Woken, peerVars, Heard
<1>2. task \in {"Dialing", "Redialing", "Backoff"} => opened < taskGen
  <2>1. ~OpeningComes
    BY <1>1 DEF OpeningComes
  <2> QED
    BY <2>1 DEF Placed, OpensOnce
<1>3. CASE AttemptTimesOut
  BY <1>1, <1>2, <1>3, EndPlaced DEF AttemptTimesOut
<1>4. ASSUME OpenSocket(taskGen), taskGen' = taskGen, task \in {"Dialing", "Backoff"},
             task' \in {"Dialing", "Redialing"}
      PROVE  Placed'
  BY <1>1, <1>2, <1>4, PlacedOpened
<1>5. CASE Dial
  BY <1>1, <1>2, <1>4, <1>5, EndPlaced DEF Dial
<1>6. CASE Redial
  BY <1>1, <1>2, <1>4, <1>6, EndPlaced DEF Redial
<1>7. CASE DeadlineFires
  BY <1>1, <1>7, EndPlaced DEF DeadlineFires
<1>8. CASE StepExpires
  <2>1. CASE KeepSocket /\ task' = task
    <3>1. taskGen' = taskGen /\ UNCHANGED socketVars
      BY <1>8, <2>1 DEF StepExpires, KeepSocket
    <3> QED
      BY <1>1, <2>1, <3>1, PlacedKept
  <2>2. CASE Closed
    <3>1. taskGen' = taskGen
      BY <1>8 DEF StepExpires
    <3> QED
      BY <1>1, <2>2, <3>1, EndPlaced
  <2> QED
    BY <1>8, <2>1, <2>2 DEF StepExpires
<1> QED
  BY <1>3, <1>5, <1>6, <1>7, <1>8

\* And the page.
LEMMA PagePlaced ==
  ASSUME TypeOK, Placed, PageNext
  PROVE  Placed'
<1>0. taskGen \in Nat
  BY PlacedTypes
<1>1. CASE PeerAnswers
  <2>1. /\ UNCHANGED socketVars /\ UNCHANGED <<signals, opened>>
        /\ task' = task /\ taskGen' = taskGen
    BY <1>1 DEF PeerAnswers
  <2> QED
    BY <1>0, <2>1, PlacedKept
<1>2. CASE MessageComes
  <2>1. /\ UNCHANGED socketVars /\ opened' = opened /\ task' = task /\ taskGen' = taskGen
        /\ phase # "None" /\ (signals' = signals \/ Signalled("Replied"))
    BY <1>2 DEF MessageComes, peerVars
  <2>2. CASE signals' = signals
    BY <1>0, <2>1, <2>2, PlacedKept
  <2>3. CASE Signalled("Replied")
    BY <2>1, <2>3, PlacedReplied
  <2> QED
    BY <2>1, <2>2, <2>3
<1> QED
  BY <1>1, <1>2, PlacedOpens, PlacedCloses DEF PageNext

\* Whatever steps, the task stays in order and well placed.
LEMMA StepKeeps ==
  ASSUME TypeOK, InOrder, Placed, [Next]_vars
  PROVE  InOrder' /\ Placed'
<1>1. CASE ClientNext /\ UNCHANGED taskVars
  <2>1. UNCHANGED <<taskGen, task, socketVars, signals, opened>>
    BY <1>1 DEF taskVars, peerVars
  <2>2. Placed'
    <3>1. taskGen \in Nat
      BY PlacedTypes
    <3> QED
      BY <2>1, <3>1, PlacedKept
  <2>3. InOrder'
    <3>1. /\ ChannelTypes /\ ClientTypes /\ taskGen \in Nat
          /\ (task \in {"Waiting", "Done"}) \in BOOLEAN
          /\ WorkerInOrder(taskGen, task \in {"Waiting", "Done"})
      BY PlacedTypes DEF TypeOK, InOrder
    <3>2. InOrderAfter(taskGen, task \in {"Waiting", "Done"})
      BY <1>1, <3>1, ClientKeepsOrder
    <3> QED
      BY <2>1, <3>2 DEF InOrder, WorkerInOrder, InOrderAfter
  <2> QED
    BY <2>2, <2>3
<1>2. CASE (TaskNext \/ PageNext) /\ UNCHANGED clientVars
  <2>1. InOrder'
    BY <1>2, StepIsOrdered, OrderedKeepsOrder DEF clientVars
  <2>2. Placed'
    BY <1>2, ControlPlaced, SignalPlaced, TickPlaced, PagePlaced DEF TaskNext
  <2> QED
    BY <2>1, <2>2
<1>3. CASE UNCHANGED <<clientVars, taskVars, channelVars>>
  <2>1. UNCHANGED <<taskGen, task, socketVars, signals, opened, notices, clientGen>>
    BY <1>3 DEF taskVars, peerVars, clientVars, channelVars
  <2>2. Placed'
    <3>1. taskGen \in Nat
      BY PlacedTypes
    <3> QED
      BY <2>1, <3>1, PlacedKept
  <2>3. InOrder'
    BY <2>1 DEF InOrder, WorkerInOrder, ToldIsReached, RestartsAreNewer
  <2> QED
    BY <2>2, <2>3
<1> QED
  BY <1>1, <1>2, <1>3, Steps DEF TaskNext
----------------------------------------------------------------------------
\* What the client hears: of a connection first, and then its messages.

\* No message in q is of a connection announced behind it.
Announced(q) ==
  \A i \in 1..Len(q) :
    q[i].type = "Reconnected" =>
      \A j \in 1..i : ~(q[j].type = "Message" /\ q[j].gen = q[i].gen)

\* No message in q is of a connection announced in p, which comes behind it.
Follows(p, q) ==
  \A i \in 1..Len(p), j \in 1..Len(q) :
    p[i].type = "Reconnected" /\ q[j].type = "Message" => p[i].gen # q[j].gen

\* The messages in q are of connections that opened by g.
Until(q, g) == \A i \in 1..Len(q) : q[i].type = "Message" => q[i].gen <= g

HeardInOrder == Announced(events) /\ Announced(inbox) /\ Follows(events, inbox)
           /\ Until(events, opened) /\ Until(inbox, opened)

LEMMA HeardForm == MessagesFollow /\ AnnouncedFirst <=> HeardInOrder
<1>1. AnnouncedFirst <=> Announced(events) /\ Announced(inbox)
  BY DEF AnnouncedFirst, Announced
<1>2. (\A e \in InFlight : e.type = "Message" => e.gen <= opened)
        <=> Until(events, opened) /\ Until(inbox, opened)
  BY DEF InFlight, Carried, Until
<1> QED
  BY <1>1, <1>2 DEF MessagesFollow, Follows, HeardInOrder

LEMMA AnnouncedMore ==
  ASSUME NEW q \in Seq(Event), NEW e \in Event, Announced(q),
         e.type = "Reconnected" =>
           \A j \in 1..Len(q) : q[j].type = "Message" => q[j].gen # e.gen
  PROVE  Announced(Append(q, e))
<1> DEFINE r == Append(q, e)
<1>1. /\ Len(q) \in Nat /\ Len(r) = Len(q) + 1
      /\ \A i \in 1..Len(q) : r[i] = q[i]
      /\ r[Len(q) + 1] = e
  BY AppendFacts
<1> SUFFICES Announced(r)
  OBVIOUS
<1> HIDE DEF r
<1> SUFFICES ASSUME NEW i \in 1..Len(r), r[i].type = "Reconnected", NEW j \in 1..i,
                    r[j].type = "Message", r[j].gen = r[i].gen
             PROVE  FALSE
  BY DEF Announced
<1>2. CASE i \in 1..Len(q)
  <2>1. j \in 1..Len(q) /\ j \in 1..i
    BY <1>1, <1>2
  <2> QED
    BY <1>1, <1>2, <2>1 DEF Announced
<1>3. CASE i = Len(q) + 1
  <2>1. r[i] = e
    BY <1>1, <1>3
  <2>2. j \in 1..Len(q) \/ j = i
    BY <1>1, <1>3
  <2>3. j # i
    OBVIOUS
  <2> QED
    BY <1>1, <2>1, <2>2, <2>3
<1> QED
  BY <1>1, <1>2, <1>3

LEMMA AnnouncedLess ==
  ASSUME NEW q \in Seq(Event), q # <<>>, Announced(q)
  PROVE  Announced(Tail(q))
<1>1. /\ Len(q) \in Nat \ {0} /\ Len(Tail(q)) = Len(q) - 1
      /\ \A i \in 1..Len(Tail(q)) : Tail(q)[i] = q[i + 1]
  BY TakeFacts
<1> SUFFICES ASSUME NEW i \in 1..Len(Tail(q)), Tail(q)[i].type = "Reconnected", NEW j \in 1..i
             PROVE  ~(Tail(q)[j].type = "Message" /\ Tail(q)[j].gen = Tail(q)[i].gen)
  BY DEF Announced
<1>2. /\ i + 1 \in 1..Len(q) /\ j + 1 \in 1..(i + 1) /\ j \in 1..Len(Tail(q))
  BY <1>1
<1>3. Tail(q)[i] = q[i + 1] /\ Tail(q)[j] = q[j + 1]
  BY <1>1, <1>2
<1> QED
  BY <1>2, <1>3 DEF Announced

\* What was polled is what was at the head of the feed.
LEMMA PolledFollows ==
  ASSUME NEW p \in Seq(Event), p # <<>>, NEW q \in Seq(Event),
         Announced(p), Announced(q), Follows(p, q)
  PROVE  /\ Announced(Tail(p)) /\ Announced(Append(q, Head(p)))
         /\ Follows(Tail(p), Append(q, Head(p)))
<1> DEFINE t == Tail(p)
           h == Head(p)
           r == Append(q, h)
<1>1. /\ Len(p) \in Nat \ {0} /\ Len(t) = Len(p) - 1
      /\ \A i \in 1..Len(t) : t[i] = p[i + 1]
      /\ h = p[1] /\ h \in Event
  BY TakeFacts
<1>2. /\ Len(q) \in Nat /\ Len(r) = Len(q) + 1
      /\ \A i \in 1..Len(q) : r[i] = q[i]
      /\ r[Len(q) + 1] = h
  BY <1>1, AppendFacts
<1>3. 1 \in 1..Len(p)
  BY <1>1
<1>4. h.type = "Reconnected" => \A j \in 1..Len(q) : q[j].type = "Message" => q[j].gen # h.gen
  BY <1>1, <1>3 DEF Follows
<1>5. Announced(r)
  BY <1>1, <1>4, AnnouncedMore
<1>6. Announced(t)
  BY AnnouncedLess
<1> SUFFICES Announced(t) /\ Announced(r) /\ Follows(t, r)
  OBVIOUS
<1> HIDE DEF t, h, r
<1>7. Follows(t, r)
  <2> SUFFICES ASSUME NEW i \in 1..Len(t), NEW j \in 1..Len(r),
                      t[i].type = "Reconnected", r[j].type = "Message"
               PROVE  t[i].gen # r[j].gen
    BY DEF Follows
  <2>1. i + 1 \in 1..Len(p) /\ 1 \in 1..(i + 1) /\ t[i] = p[i + 1]
    BY <1>1
  <2>2. CASE j \in 1..Len(q)
    BY <1>2, <2>1, <2>2 DEF Follows
  <2>3. CASE j = Len(q) + 1
    <3>1. r[j] = p[1]
      BY <1>1, <1>2, <2>3
    <3> QED
      BY <2>1, <3>1 DEF Announced
  <2> QED
    BY <1>2, <2>2, <2>3
<1> QED
  BY <1>5, <1>6, <1>7

\* A message of no connection changes nothing wherever it is.
LEMMA FollowsMore ==
  ASSUME NEW p \in Seq(Event), NEW q \in Seq(Event), NEW e \in Event, Follows(p, q)
  PROVE  /\ e.type # "Message" => Follows(p, Append(q, e))
         /\ /\ e.type = "Reconnected"
            /\ \A j \in 1..Len(q) : q[j].type = "Message" => q[j].gen # e.gen
            => Follows(Append(p, e), q)
         /\ e.type # "Reconnected" => Follows(Append(p, e), q)
<1>1. /\ Len(q) \in Nat /\ Len(Append(q, e)) = Len(q) + 1
      /\ \A i \in 1..Len(q) : Append(q, e)[i] = q[i]
      /\ Append(q, e)[Len(q) + 1] = e
  BY AppendFacts
<1>2. /\ Len(p) \in Nat /\ Len(Append(p, e)) = Len(p) + 1
      /\ \A i \in 1..Len(p) : Append(p, e)[i] = p[i]
      /\ Append(p, e)[Len(p) + 1] = e
  BY AppendFacts
<1>3. \A i \in 1..Len(Append(q, e)) : i \in 1..Len(q) \/ i = Len(q) + 1
  BY <1>1
<1>4. \A i \in 1..Len(Append(p, e)) : i \in 1..Len(p) \/ i = Len(p) + 1
  BY <1>2
<1>5. ASSUME e.type # "Message" PROVE Follows(p, Append(q, e))
  BY <1>1, <1>3, <1>5 DEF Follows
<1>6. ASSUME e.type # "Reconnected" PROVE Follows(Append(p, e), q)
  BY <1>2, <1>4, <1>6 DEF Follows
<1>7. ASSUME e.type = "Reconnected",
             \A j \in 1..Len(q) : q[j].type = "Message" => q[j].gen # e.gen
      PROVE  Follows(Append(p, e), q)
  BY <1>2, <1>4, <1>7 DEF Follows
<1> QED
  BY <1>5, <1>6, <1>7

LEMMA FollowsLess ==
  ASSUME NEW p \in Seq(Event), NEW q \in Seq(Event), q # <<>>, Follows(p, q)
  PROVE  Follows(p, Tail(q))
<1>1. /\ Len(q) \in Nat \ {0} /\ Len(Tail(q)) = Len(q) - 1
      /\ \A i \in 1..Len(Tail(q)) : Tail(q)[i] = q[i + 1]
  BY TakeFacts
<1>2. \A i \in 1..Len(Tail(q)) : i + 1 \in 1..Len(q)
  BY <1>1
<1> QED
  BY <1>1, <1>2 DEF Follows

LEMMA UntilMore ==
  ASSUME NEW q \in Seq(Event), NEW e \in Event, NEW g, Until(q, g),
         e.type = "Message" => e.gen <= g
  PROVE  Until(Append(q, e), g)
<1>1. /\ Len(q) \in Nat /\ Len(Append(q, e)) = Len(q) + 1
      /\ \A i \in 1..Len(q) : Append(q, e)[i] = q[i]
      /\ Append(q, e)[Len(q) + 1] = e
  BY AppendFacts
<1>2. \A i \in 1..Len(Append(q, e)) : i \in 1..Len(q) \/ i = Len(q) + 1
  BY <1>1
<1> QED
  BY <1>1, <1>2 DEF Until

LEMMA UntilLess ==
  ASSUME NEW q \in Seq(Event), q # <<>>, NEW g, Until(q, g)
  PROVE  Until(Tail(q), g) /\ (Head(q).type = "Message" => Head(q).gen <= g)
<1>1. /\ Len(q) \in Nat \ {0} /\ Len(Tail(q)) = Len(q) - 1 /\ Head(q) = q[1]
      /\ \A i \in 1..Len(Tail(q)) : Tail(q)[i] = q[i + 1]
  BY TakeFacts
<1>2. 1 \in 1..Len(q) /\ \A i \in 1..Len(Tail(q)) : i + 1 \in 1..Len(q)
  BY <1>1
<1> QED
  BY <1>1, <1>2 DEF Until

LEMMA ClientHears ==
  ASSUME TypeOK, OwnAreStatuses, HeardInOrder, ClientNext, opened' = opened
  PROVE  HeardInOrder'
<1>0. events \in Seq(Event) /\ inbox \in Seq(Event) /\ local \in Seq(Event)
  BY DEF TypeOK, ChannelTypes, ClientTypes
<1>1. CASE UNCHANGED <<events, inbox>>
  BY <1>1 DEF HeardInOrder, Announced, Follows, Until
<1>2. CASE Poll /\ local # <<>>
  <2> DEFINE h == Head(local)
  <2>1. inbox' = Append(inbox, h) /\ events' = events
    BY <1>2 DEF Poll
  <2>2. h \in Event /\ h.type = "Status"
    <3>1. h \in Carried(local)
      BY <1>0, <1>2, CarriedLess
    <3> QED
      BY <1>0, <1>2, <3>1, TakeFacts DEF OwnAreStatuses
  <2> HIDE DEF h
  <2>3. Announced(inbox')
    BY <1>0, <2>1, <2>2, AnnouncedMore DEF HeardInOrder
  <2>4. Follows(events', inbox')
    BY <1>0, <2>1, <2>2, FollowsMore DEF HeardInOrder
  <2>5. Until(inbox', opened')
    BY <1>0, <2>1, <2>2, UntilMore DEF HeardInOrder
  <2> QED
    BY <2>1, <2>3, <2>4, <2>5 DEF HeardInOrder, Announced, Follows, Until
<1>3. CASE Poll /\ local = <<>>
  <2>1. inbox' = Append(inbox, Head(events)) /\ events' = Tail(events) /\ events # <<>>
    BY <1>3 DEF Poll
  <2>2. Announced(Tail(events)) /\ Announced(Append(inbox, Head(events)))
          /\ Follows(Tail(events), Append(inbox, Head(events)))
    BY <1>0, <2>1, PolledFollows DEF HeardInOrder
  <2>3. /\ Until(Tail(events), opened)
        /\ Head(events).type = "Message" => Head(events).gen <= opened
    BY <1>0, <2>1, UntilLess DEF HeardInOrder
  <2>4. Until(Append(inbox, Head(events)), opened)
    <3>1. Head(events) \in Event
      BY <1>0, <2>1, TakeFacts
    <3> QED
      BY <1>0, <2>3, <3>1, UntilMore DEF HeardInOrder
  <2>5. Announced(events') /\ Announced(inbox') /\ Follows(events', inbox')
          /\ Until(events', opened') /\ Until(inbox', opened')
    BY <2>1, <2>2, <2>3, <2>4
  <2> QED
    BY <2>5 DEF HeardInOrder, Announced, Follows, Until
<1>4. CASE inbox # <<>> /\ inbox' = Tail(inbox) /\ events' = events
  <2>1. Announced(inbox')
    BY <1>0, <1>4, AnnouncedLess DEF HeardInOrder
  <2>2. Follows(events', inbox')
    BY <1>0, <1>4, FollowsLess DEF HeardInOrder
  <2>3. Until(inbox', opened')
    BY <1>0, <1>4, UntilLess DEF HeardInOrder
  <2> QED
    BY <1>4, <2>1, <2>2, <2>3 DEF HeardInOrder, Announced, Follows, Until
<1>5. CASE RestartCall \/ RestartReturn \/ ShutdownCall \/ DropClient
  BY <1>1, <1>5 DEF RestartCall, RestartReturn, ShutdownCall, DropClient, channelVars
<1>6. CASE Receive
  BY <1>4, <1>6 DEF Receive, ReceiveInitialized, ReceiveRefused, ReceiveStale, ReceiveLost,
                    ReceiveAttempting, ReceiveReconnected, ReceiveStopped, ReceiveStatus, Ignored,
                    Taking, channelVars
<1> QED
  BY <1>2, <1>3, <1>5, <1>6 DEF ClientNext

\* What is reported is a message of a connection that opened, an announcement of one that never
\* did before, or neither.
LEMMA ReportHears ==
  ASSUME TypeOK, HeardInOrder, NEW e \in Event, Reported(e), inbox' = inbox,
         opened' \in Nat \cup {-1}, opened <= opened',
         e.type = "Message" => e.gen <= opened',
         e.type = "Reconnected" => opened < e.gen
  PROVE  HeardInOrder'
<1>0. /\ events \in Seq(Event) /\ inbox \in Seq(Event) /\ opened \in Nat \cup {-1}
      /\ events' = Append(events, e)
      /\ \A x \in Event : x.gen \in Nat
  BY PlacedTypes DEF TypeOK, ChannelTypes, ClientTypes, Reported, Event, Generation
<1>1. /\ \A j \in 1..Len(events) : events[j] \in Event
      /\ \A j \in 1..Len(inbox) : inbox[j] \in Event
  BY <1>0
<1>2. Until(events, opened') /\ Until(inbox, opened')
  BY <1>0, <1>1 DEF HeardInOrder, Until
<1>3. ASSUME e.type = "Reconnected"
      PROVE  /\ \A j \in 1..Len(events) : events[j].type = "Message" => events[j].gen # e.gen
             /\ \A j \in 1..Len(inbox) : inbox[j].type = "Message" => inbox[j].gen # e.gen
  BY <1>0, <1>1, <1>3 DEF HeardInOrder, Until
<1>4. Announced(Append(events, e))
  BY <1>0, <1>3, AnnouncedMore DEF HeardInOrder
<1>5. Follows(Append(events, e), inbox)
  BY <1>0, <1>3, FollowsMore DEF HeardInOrder
<1>6. Until(Append(events, e), opened')
  BY <1>0, <1>2, UntilMore
<1>7. Announced(events') /\ Announced(inbox') /\ Follows(events', inbox')
        /\ Until(events', opened') /\ Until(inbox', opened')
  BY <1>0, <1>2, <1>4, <1>5, <1>6 DEF HeardInOrder
<1> QED
  BY <1>7 DEF HeardInOrder, Announced, Follows, Until

\* The task itself reports neither, and what the page was to hand out is gone when the socket is.
LEMMA TaskSays ==
  ASSUME TypeOK, TaskNext
  PROVE  /\ \/ events' = events
            \/ \E e \in Event : Reported(e) /\ e.type \notin {"Message", "Reconnected"}
         /\ UNCHANGED <<opened, acked>>
         /\ (pipe' = pipe /\ socketGen' = socketGen) \/ pipe' = {}
<1>0. /\ taskGen \in Generation
      /\ \A g \in Generation, why \in Reasons :
           /\ Report("Lost", g, why) \in Event
           /\ Report("Lost", g, why).type \notin {"Message", "Reconnected"}
      /\ Report("Stopped", 0, "Shutdown") \in Event
      /\ Report("Stopped", 0, "Shutdown").type \notin {"Message", "Reconnected"}
      /\ Report("Attempting", taskGen, "none") \in Event
      /\ Report("Attempting", taskGen, "none").type \notin {"Message", "Reconnected"}
      /\ taskGen + 1 \in Generation
  BY TaskReports DEF TypeOK, TaskTypes, Report
<1> DEFINE Quietly == events' = events
                        \/ \E e \in Event : Reported(e) /\ e.type \notin {"Message", "Reconnected"}
           Emptied == (pipe' = pipe /\ socketGen' = socketGen) \/ pipe' = {}
<1>1. /\ KeepSocket => Emptied
      /\ DropSocket => Emptied
      /\ \A g : OpenSocket(g) => Emptied
  BY DEF KeepSocket, DropSocket, OpenSocket, socketVars
<1>2. \A why \in Reasons : Lose(why) => Quietly /\ DropSocket
  BY <1>0 DEF Lose
<1>3. /\ DialFailed => Quietly /\ DropSocket
      /\ RedialFailed => Quietly /\ DropSocket
      /\ Closed => Quietly /\ DropSocket
  BY <1>0, <1>2 DEF DialFailed, RedialFailed, Closed, Reasons
<1> HIDE DEF Emptied, Quietly
<1>q. events' = events => Quietly
  BY DEF Quietly
<1>4. UNCHANGED <<opened, acked>>
  BY DEF TaskNext, TakeControl, TakeSignals, OnShutdown, OnHandshaken, OnReconnect, OnStop,
         OnRestart, OnOpened, OnClosed, OnReplied, AttemptTimesOut, Dial, Redial, DeadlineFires,
         StepExpires, peerVars
<1>5. CASE OnShutdown
  <2>1. \/ KeepSocket /\ events' = events
        \/ DropSocket /\ Reported(Report("Stopped", 0, "Shutdown"))
    BY <1>5 DEF OnShutdown
  <2>2. Reported(Report("Stopped", 0, "Shutdown")) => Quietly
    BY <1>0 DEF Quietly
  <2> QED
    BY <1>1, <1>4, <1>q, <2>1, <2>2 DEF Quietly, Emptied
<1>6. CASE OnHandshaken \/ OnReconnect
  BY <1>1, <1>4, <1>6 DEF OnHandshaken, OnReconnect, Emptied
<1>7. CASE OnStop
  BY <1>1, <1>4, <1>7 DEF OnStop, Emptied
<1>8. CASE OnRestart
  <2>1. Head(notices).gen + 1 \in Generation
    <3>1. Head(notices).gen \in Generation
      BY <1>8, TakeTypes DEF OnRestart, TypeOK
    <3> QED
      BY <3>1, NextGeneration
  <2>2. Reported(Report("Lost", Head(notices).gen + 1, "Failed")) => Quietly
    BY <1>0, <2>1 DEF Quietly, Reasons
  <2>3. KeepSocket \/ DropSocket \/ \E g : OpenSocket(g)
    BY <1>8 DEF OnRestart
  <2>4. events' = events \/ Reported(Report("Lost", Head(notices).gen + 1, "Failed"))
    BY <1>8 DEF OnRestart
  <2> QED
    BY <1>1, <1>4, <1>q, <2>2, <2>3, <2>4 DEF Quietly, Emptied
<1>9. CASE TakeSignals
  <2>1. Lose("Closed") => Quietly /\ DropSocket
    BY <1>2 DEF Reasons
  <2>2. OnOpened \/ OnReplied => KeepSocket /\ events' = events
    BY DEF OnOpened, OnReplied, Untouched
  <2>3. OnClosed => (Quietly /\ DropSocket) \/ (KeepSocket /\ events' = events)
    BY <1>3, <2>1 DEF OnClosed, Untouched
  <2>4. Quietly /\ Emptied
    BY <1>1, <1>9, <1>q, <2>2, <2>3 DEF TakeSignals
  <2> QED
    BY <1>4, <2>4 DEF Quietly, Emptied
<1>10. CASE AttemptTimesOut \/ DeadlineFires
  <2>1. Quietly /\ DropSocket
    BY <1>2, <1>3, <1>10 DEF AttemptTimesOut, DeadlineFires, Reasons
  <2> QED
    BY <1>1, <1>4, <2>1 DEF Quietly, Emptied
<1>11. CASE Dial \/ Redial
  <2>1. (Quietly /\ DropSocket) \/ (OpenSocket(taskGen) /\ events' = events)
    BY <1>3, <1>11 DEF Dial, Redial
  <2>2. Quietly /\ Emptied
    BY <1>1, <1>q, <2>1
  <2> QED
    BY <1>4, <2>2 DEF Quietly, Emptied
<1>12. CASE StepExpires
  <2>1. (Quietly /\ DropSocket) \/ (KeepSocket /\ events' = events)
    BY <1>3, <1>12 DEF StepExpires
  <2>2. Quietly /\ Emptied
    BY <1>1, <1>q, <2>1
  <2> QED
    BY <1>4, <2>2 DEF Quietly, Emptied
<1> QED
  BY <1>5, <1>6, <1>7, <1>8, <1>9, <1>10, <1>11, <1>12 DEF TaskNext, TakeControl

\* So a step of the task or of the page leaves the client to hear things in their order.
LEMMA StepHears ==
  ASSUME TypeOK, Placed, HeardInOrder, TaskNext \/ PageNext, inbox' = inbox
  PROVE  HeardInOrder'
<1>0. /\ opened \in Nat \cup {-1} /\ socketGen \in Nat
      /\ Report("Reconnected", socketGen, "none") \in Event
      /\ \A reply \in Replies : Report("Message", socketGen, reply) \in Event
  BY PlacedTypes, TaskReports DEF TypeOK
<1>1. ASSUME events' = events, opened' \in Nat \cup {-1}, opened <= opened' PROVE HeardInOrder'
  <2>1. events \in Seq(Event) /\ inbox \in Seq(Event) /\ \A x \in Event : x.gen \in Nat
    BY DEF TypeOK, ChannelTypes, ClientTypes, Event, Generation
  <2>2. /\ \A j \in 1..Len(events) : events[j] \in Event
        /\ \A j \in 1..Len(inbox) : inbox[j] \in Event
    BY <2>1
  <2>3. Until(events, opened') /\ Until(inbox, opened')
    BY <1>0, <1>1, <2>1, <2>2 DEF HeardInOrder, Until
  <2> QED
    BY <1>1, <2>3 DEF HeardInOrder, Announced, Follows, Until
<1>2. CASE TaskNext
  <2>1. opened' = opened
    BY <1>2, TaskSays
  <2>2. CASE events' = events
    BY <1>0, <1>1, <2>1, <2>2
  <2>3. CASE \E e \in Event : Reported(e) /\ e.type \notin {"Message", "Reconnected"}
    BY <1>0, <2>1, <2>3, ReportHears
  <2> QED
    BY <1>2, <2>2, <2>3, TaskSays
<1>3. CASE SocketOpens
  <2>1. /\ opened' = socketGen /\ phase = "Connecting"
        /\ events' = events \/ Reported(Report("Reconnected", socketGen, "none"))
    BY <1>3 DEF SocketOpens
  <2>2. opened < socketGen
    BY <2>1 DEF Placed, OpensOnce
  <2>3. Report("Reconnected", socketGen, "none").type = "Reconnected"
          /\ Report("Reconnected", socketGen, "none").gen = socketGen
    BY DEF Report
  <2> QED
    BY <1>0, <1>1, <2>1, <2>2, <2>3, ReportHears
<1>4. CASE SocketCloses \/ PeerAnswers
  BY <1>0, <1>1, <1>4 DEF SocketCloses, PeerAnswers, channelVars
<1>5. CASE MessageComes
  <2>1. PICK reply \in pipe :
          events' = events \/ Reported(Report("Message", socketGen, reply))
    BY <1>5 DEF MessageComes
  <2>2. opened' = opened /\ opened = socketGen
    BY <1>5 DEF MessageComes, peerVars, Placed, OpensOnce
  <2>3. reply \in Replies
    BY DEF TypeOK, TaskTypes
  <2>4. Report("Message", socketGen, reply).type = "Message"
          /\ Report("Message", socketGen, reply).gen = socketGen
    BY DEF Report
  <2> QED
    BY <1>0, <1>1, <2>1, <2>2, <2>3, <2>4, ReportHears
<1> QED
  BY <1>2, <1>3, <1>4, <1>5 DEF PageNext
----------------------------------------------------------------------------
\* The manners of a shutdown.

LEMMA PoliteForm == PoliteGoodbye <=> \A g : <<g, "shutdown">> \in sent => g \in acked
<1>1. ASSUME NEW g, <<g, "shutdown">> \in sent PROVE g \in {pair[1] : pair \in sent}
  <2>1. <<g, "shutdown">>[1] = g
    OBVIOUS
  <2> QED
    BY <1>1, <2>1
<1> QED
  BY <1>1 DEF PoliteGoodbye

LEMMA PoliteNext ==
  ASSUME \A g : <<g, "shutdown">> \in sent' => g \in acked'
  PROVE  PoliteGoodbye'
<1>1. (PoliteGoodbye <=> \A g : <<g, "shutdown">> \in sent => g \in acked)'
  BY PoliteForm, PTL
<1> QED
  BY <1>1

\* A report is in flight once it is made, and until the client received it.
LEMMA ReportedFlies ==
  ASSUME TypeOK, NEW e \in Event, Reported(e), inbox' = inbox
  PROVE  \A x : x \in InFlight' <=> x \in InFlight \/ x = e
<1>1. \A x : x \in Carried(events)' <=> x \in Carried(events) \/ x = e
  BY CarriedMore DEF TypeOK, ChannelTypes, Carried, Reported
<1>2. Carried(inbox)' = Carried(inbox)
  BY DEF Carried
<1> QED
  BY <1>1, <1>2 DEF InFlight

LEMMA ClientHandshake ==
  ASSUME TypeOK, HandshakeIsTrue, PoliteGoodbye, ClientNext, UNCHANGED taskVars
  PROVE  HandshakeIsTrue' /\ PoliteGoodbye'
<1>0. UNCHANGED <<pipe, acked, socketGen>>
  BY DEF taskVars, peerVars, socketVars
<1>1. /\ \A e \in InFlight' : e.type = "Message" /\ e.arg = "initialized" => e.gen \in acked
      /\ \A e \in Carried(local)' : e.type = "Status"
  BY ClientFlight DEF HandshakeIsTrue, OwnAreStatuses, TypeOK
<1>2. \A n \in Carried(notices) : TrueGoodbye(n, acked)
  BY DEF HandshakeIsTrue, TrueGoodbye
<1>3. /\ session' = "Running" => link' \in acked
      /\ \/ notices' = notices
         \/ \E n \in Notice : notices' = Append(notices, n) /\ TrueGoodbye(n, acked)
  <2>1. /\ \A e \in InFlight : e.type = "Message" /\ e.arg = "initialized" => e.gen \in acked
        /\ session = "Running" => link \in acked
    BY DEF HandshakeIsTrue
  <2> QED
    BY <2>1, ClientBelieves DEF TypeOK
<1>4. \A n \in Carried(notices)' : TrueGoodbye(n, acked)
  BY <1>2, <1>3, ToldCarries, FlightUnmoved DEF TypeOK
<1>5. HandshakeIsTrue'
  BY <1>0, <1>1, <1>3, <1>4 DEF HandshakeIsTrue, TrueGoodbye
<1>6. \A g : <<g, "shutdown">> \in sent' => <<g, "shutdown">> \in sent
  BY DEF ClientNext, Receive, RestartCall, RestartReturn, ShutdownCall, DropClient, Poll,
         ReceiveInitialized, ReceiveRefused, ReceiveStale, ReceiveLost, ReceiveAttempting,
         ReceiveReconnected, ReceiveStopped, ReceiveStatus, Ignored, channelVars
<1>7. PoliteGoodbye'
  BY <1>0, <1>6, PoliteForm, PoliteNext
<1> QED
  BY <1>5, <1>7

\* The task asks for a shutdown only on the word of a client that heard the server of this very
\* connection answer.
LEMMA TaskAsks ==
  ASSUME TypeOK, Placed, HandshakeIsTrue, PoliteGoodbye, TaskNext
  PROVE  \A g : <<g, "shutdown">> \in sent' => g \in acked
<1>0. \A g : <<g, "shutdown">> \in sent => g \in acked
  BY PoliteForm
<1>1. \A g : <<g, "shutdown">> \in sent \cup {<<socketGen, "exit">>} => g \in acked
  BY <1>0
<1>2. CASE OnShutdown
  <2> DEFINE n == Head(notices)
  <2>1. n \in Carried(notices) /\ n.type = "Shutdown"
    BY <1>2, CarriedLess DEF OnShutdown, Take, TypeOK, ChannelTypes
  <2>2. n.done => n.gen \in acked
    BY <2>1 DEF HandshakeIsTrue
  <2>3. task = "Live" => socketGen = taskGen
    BY DEF Placed, HeldIsLast, SocketIsKnown, TypeOK, TaskTypes
  <2>4. CASE sent' = sent \cup {<<socketGen, "shutdown">>} /\ n.done /\ n.gen = taskGen
             /\ task = "Live"
    <3>1. socketGen \in acked
      BY <2>2, <2>3, <2>4
    <3> QED
      BY <1>0, <2>4, <3>1
  <2>5. \/ sent' = sent \/ sent' = sent \cup {<<socketGen, "exit">>}
        \/ sent' = sent \cup {<<socketGen, "shutdown">>} /\ n.done /\ n.gen = taskGen
             /\ task = "Live"
    BY <1>2 DEF OnShutdown, Close, Leave
  <2> QED
    BY <1>0, <1>1, <2>4, <2>5
<1>3. CASE ~OnShutdown
  <2>1. sent' = sent \/ sent' = sent \cup {<<socketGen, "exit">>}
    <3>1. CASE OnHandshaken \/ OnReconnect \/ OnRestart \/ OnStop
      BY <3>1 DEF OnHandshaken, OnReconnect, OnRestart, OnStop, Close, Leave
    <3>2. CASE TakeSignals
      BY <3>2 DEF TakeSignals, OnOpened, OnClosed, OnReplied, Untouched, Leave
    <3>3. CASE AttemptTimesOut \/ Dial \/ Redial \/ DeadlineFires \/ StepExpires
      BY <3>3 DEF AttemptTimesOut, Dial, Redial, DeadlineFires, StepExpires, Leave
    <3> QED
      BY <1>3, <3>1, <3>2, <3>3 DEF TaskNext, TakeControl
  <2> QED
    BY <1>0, <1>1, <2>1
<1> QED
  BY <1>2, <1>3

LEMMA TaskHandshake ==
  ASSUME TypeOK, InOrder, Placed, HandshakeIsTrue, PoliteGoodbye, TaskNext, UNCHANGED clientVars
  PROVE  HandshakeIsTrue' /\ PoliteGoodbye'
<1>0. /\ inbox' = inbox /\ local' = local /\ session' = session /\ link' = link
      /\ acked' = acked
  BY TaskSays DEF clientVars
<1>1. \A x \in InFlight' : x \in InFlight \/ x.type # "Message"
  BY <1>0, TaskSays, ReportedFlies, FlightUnmoved
<1>2. \A x \in Carried(notices)' : x \in Carried(notices)
  <2>1. notices' = notices \/ (notices # <<>> /\ notices' = Tail(notices))
    BY StepIsOrdered DEF Ordered
  <2> QED
    BY <2>1, TakenCarries, FlightUnmoved DEF TypeOK
<1>3. Carried(local)' = Carried(local)
  BY <1>0, FlightUnmoved
<1>4. "initialized" \in pipe' => socketGen' \in acked
  <2>1. (pipe' = pipe /\ socketGen' = socketGen) \/ pipe' = {}
    BY TaskSays
  <2> QED
    BY <2>1 DEF HandshakeIsTrue
<1>5. HandshakeIsTrue'
  BY <1>0, <1>1, <1>2, <1>3, <1>4 DEF HandshakeIsTrue
<1>6. PoliteGoodbye'
  BY <1>0, TaskAsks, PoliteNext
<1> QED
  BY <1>5, <1>6

\* The callbacks pass on what the server wrote.
LEMMA PageHandshake ==
  ASSUME TypeOK, Placed, HandshakeIsTrue, PoliteGoodbye, PageNext, UNCHANGED clientVars
  PROVE  HandshakeIsTrue' /\ PoliteGoodbye'
<1>0. /\ inbox' = inbox /\ local' = local /\ session' = session /\ link' = link
      /\ "initialized" \in pipe => socketGen \in acked
      /\ Report("Reconnected", socketGen, "none") \in Event
      /\ \A reply \in Replies : Report("Message", socketGen, reply) \in Event
      /\ pipe \subseteq Replies
  BY TaskReports DEF HandshakeIsTrue, clientVars, TypeOK, TaskTypes
<1>1. /\ sent' = sent /\ notices' = notices /\ socketGen' = socketGen /\ acked \subseteq acked'
      /\ "initialized" \in pipe' => socketGen \in acked'
      /\ \/ events' = events
         \/ Reported(Report("Reconnected", socketGen, "none"))
         \/ \E reply \in pipe : Reported(Report("Message", socketGen, reply))
  <2>1. CASE SocketOpens
    BY <1>0, <2>1 DEF SocketOpens
  <2>2. CASE SocketCloses
    BY <1>0, <2>2 DEF SocketCloses
  <2>3. CASE PeerAnswers
    BY <1>0, <2>3 DEF PeerAnswers, channelVars, socketVars
  <2>4. CASE MessageComes
    BY <1>0, <2>4 DEF MessageComes, socketVars, peerVars
  <2> QED
    BY <2>1, <2>2, <2>3, <2>4 DEF PageNext
<1>2. \A x \in InFlight' : x.type = "Message" /\ x.arg = "initialized" => x.gen \in acked'
  <2>1. CASE events' = events
    BY <1>0, <1>1, <2>1, FlightUnmoved DEF HandshakeIsTrue
  <2>2. CASE Reported(Report("Reconnected", socketGen, "none"))
    <3>1. \A x \in InFlight' : x \in InFlight \/ x = Report("Reconnected", socketGen, "none")
      BY <1>0, <2>2, ReportedFlies
    <3> QED
      BY <1>1, <3>1 DEF HandshakeIsTrue, Report
  <2>3. CASE \E reply \in pipe : Reported(Report("Message", socketGen, reply))
    <3>1. PICK reply \in pipe : Reported(Report("Message", socketGen, reply))
      BY <2>3
    <3>2. \A x \in InFlight' : x \in InFlight \/ x = Report("Message", socketGen, reply)
      BY <1>0, <3>1, ReportedFlies
    <3>3. reply = "initialized" => socketGen \in acked
      BY <1>0
    <3> QED
      BY <1>1, <3>2, <3>3 DEF HandshakeIsTrue, Report
  <2> QED
    BY <1>1, <2>1, <2>2, <2>3
<1>3. Carried(notices)' = Carried(notices) /\ Carried(local)' = Carried(local)
  BY <1>0, <1>1, FlightUnmoved
<1>4. HandshakeIsTrue'
  BY <1>0, <1>1, <1>2, <1>3 DEF HandshakeIsTrue
<1>5. PoliteGoodbye'
  BY <1>1, PoliteForm, PoliteNext
<1> QED
  BY <1>4, <1>5
----------------------------------------------------------------------------
\* Placed and InOrder are what BrowserInv says of them.
LEMMA InvForm ==
  BrowserInv <=> /\ TypeOK /\ InOrder /\ Placed /\ HeardInOrder
                 /\ HandshakeIsTrue /\ PoliteGoodbye
BY HeardForm DEF BrowserInv, InOrder, Placed

LEMMA InvNext ==
  ASSUME TypeOK', InOrder', Placed', HeardInOrder', HandshakeIsTrue', PoliteGoodbye'
  PROVE  BrowserInv'
<1>1. (BrowserInv <=> /\ TypeOK /\ InOrder /\ Placed /\ HeardInOrder
                      /\ HandshakeIsTrue /\ PoliteGoodbye)'
  BY InvForm, PTL
<1> QED
  BY <1>1

LEMMA InitInv == Bounded /\ Init => BrowserInv
<1> SUFFICES ASSUME Bounded, Init PROVE BrowserInv
  OBVIOUS
<1>1. /\ notices = <<>> /\ events = <<>> /\ inbox = <<>> /\ local = <<>> /\ clientGen = 0
      /\ taskGen = 0 /\ socketGen = 0 /\ sockets = 0 /\ task = "Dialing" /\ opened = -1
      /\ \/ socket = 0 /\ phase = "Connecting"
         \/ socket = NoSocket /\ phase = "None"
      /\ signals = <<>> /\ pipe = {} /\ session = "Initializing" /\ sent = {<<0, "initialize">>}
  BY DEF Init, ClientInit, TaskInit
<1>2. TypeOK
  BY InitTypes
<1>3. InOrder
  BY <1>1 DEF InOrder, WorkerInOrder, ToldIsReached, RestartsAreNewer
<1>4. Placed
  <2>1. HeldIsLast
    BY <1>1 DEF HeldIsLast
  <2>2. SignalsAreTrue
    BY <1>1 DEF SignalsAreTrue
  <2>3. SocketIsKnown
    BY <1>1 DEF SocketIsKnown
  <2>4. OpensOnce
    BY <1>1 DEF OpensOnce
  <2> QED
    BY <2>1, <2>2, <2>3, <2>4 DEF Placed
<1>5. HeardInOrder
  BY <1>1 DEF HeardInOrder, Announced, Follows, Until
<1>6. HandshakeIsTrue
  BY <1>1, CarriedNone DEF HandshakeIsTrue, InFlight
<1>7. PoliteGoodbye
  BY <1>1, PoliteForm
<1> QED
  BY <1>2, <1>3, <1>4, <1>5, <1>6, <1>7, InvForm

LEMMA NextInv ==
  ASSUME Bounded, BrowserInv, [Next]_vars PROVE BrowserInv'
<1>0. /\ TypeOK /\ InOrder /\ Placed /\ HeardInOrder /\ HandshakeIsTrue /\ PoliteGoodbye
      /\ OwnAreStatuses
  BY InvForm DEF HandshakeIsTrue, OwnAreStatuses
<1>1. InOrder' /\ Placed' /\ TypeOK'
  BY <1>0, StepKeeps, NextTypes
<1>2. HeardInOrder' /\ HandshakeIsTrue' /\ PoliteGoodbye'
  <2>1. CASE ClientNext /\ UNCHANGED taskVars
    <3>1. opened' = opened
      BY <2>1 DEF taskVars, peerVars
    <3> QED
      BY <1>0, <2>1, <3>1, ClientHears, ClientHandshake
  <2>2. CASE TaskNext /\ UNCHANGED clientVars
    <3>1. inbox' = inbox
      BY <2>2 DEF clientVars
    <3> QED
      BY <1>0, <2>2, <3>1, StepHears, TaskHandshake
  <2>3. CASE PageNext /\ UNCHANGED clientVars
    <3>1. inbox' = inbox
      BY <2>3 DEF clientVars
    <3> QED
      BY <1>0, <2>3, <3>1, StepHears, PageHandshake
  <2>4. CASE UNCHANGED <<clientVars, taskVars, channelVars>>
    <3>1. UNCHANGED <<events, inbox, local, notices, sent, session, link, pipe, acked, opened,
                      socketGen>>
      BY <2>4 DEF clientVars, taskVars, channelVars, peerVars, socketVars
    <3>2. HeardInOrder'
      BY <1>0, <3>1 DEF HeardInOrder, Announced, Follows, Until
    <3>3. HandshakeIsTrue' /\ PoliteGoodbye'
      BY <1>0, <3>1 DEF HandshakeIsTrue, PoliteGoodbye, InFlight, Carried
    <3> QED
      BY <3>2, <3>3
  <2> QED
    BY <2>1, <2>2, <2>3, <2>4, Steps DEF TaskNext
<1> QED
  BY <1>1, <1>2, InvNext

LEMMA InvIsSafe == BrowserInv => BrowserSafety
<1> SUFFICES ASSUME BrowserInv PROVE BrowserSafety
  OBVIOUS
<1>1. /\ ChannelTypes /\ ClientTypes /\ taskGen \in Nat
      /\ WorkerInOrder(taskGen, task \in {"Waiting", "Done"})
  BY DEF BrowserInv, TypeOK, TaskTypes, Generation
<1>2. \A i \in 1..Len(notices) : notices[i].type = "Restart" => notices[i].gen >= taskGen
  <2> DEFINE w == task \in {"Waiting", "Done"}
  <2>1. w \in BOOLEAN /\ WorkerInOrder(taskGen, w)
    BY <1>1
  <2> HIDE DEF w
  <2> QED
    BY <1>1, <2>1, InOrderNeverBehind
<1> QED
  BY <1>2 DEF BrowserInv, BrowserSafety, NeverBehind
----------------------------------------------------------------------------
\* The generations whose connection is up, one at most.
Connected == IF phase = "Open" THEN {socketGen} ELSE {}

\* What a step may do to the connection: nothing or end it, be done, or open a newer one.
OneConnection ==
  \/ opened' = opened /\ Connected' \in {Connected, {}} /\ (task' = "Done" <=> task = "Done")
  \/ opened' = opened /\ Connected' = {} /\ task' = "Done"
  \/ /\ task # "Done" /\ task' # "Done"
     /\ opened' \in Nat /\ opened' > opened /\ Connected' = {opened'}

LEMMA StepConnects ==
  ASSUME Bounded, BrowserInv, [Next]_vars PROVE OneConnection
<1>0. TypeOK /\ Placed /\ TypeOK' /\ Placed'
  <2>1. TypeOK /\ InOrder /\ Placed
    BY InvForm
  <2> QED
    BY <2>1, StepKeeps, NextTypes
<1>1. ASSUME UNCHANGED <<opened, phase, socketGen, task>> PROVE OneConnection
  BY <1>1 DEF OneConnection, Connected
<1>2. CASE (ClientNext /\ UNCHANGED taskVars) \/ UNCHANGED <<clientVars, taskVars, channelVars>>
  BY <1>1, <1>2 DEF taskVars, socketVars, peerVars
<1>3. CASE TaskNext
  <2>1. opened' = opened
    BY <1>0, <1>3, TaskSays
  <2>2. task # "Done"
    <3>1. CASE TakeControl
      BY <3>1 DEF TakeControl, OnShutdown, OnHandshaken, OnReconnect, OnStop, OnRestart, Take
    <3>2. CASE TakeSignals
      BY <3>2 DEF TakeSignals, OnOpened, OnClosed, OnReplied, TakeSignal
    <3>3. CASE AttemptTimesOut \/ Dial \/ Redial \/ DeadlineFires \/ StepExpires
      BY <3>3 DEF AttemptTimesOut, Dial, Redial, DeadlineFires, StepExpires, Woken
    <3> QED
      BY <1>3, <3>1, <3>2, <3>3 DEF TaskNext
  <2>3. Connected' \in {Connected, {}}
    <3>1. KeepSocket => Connected' = Connected
      BY DEF KeepSocket, socketVars, Connected
    <3>2. \A g : DropSocket \/ OpenSocket(g) => Connected' = {}
      BY DEF DropSocket, OpenSocket, Connected
    <3>3. CASE TakeControl
      BY <3>1, <3>2, <3>3 DEF TakeControl, OnShutdown, OnHandshaken, OnReconnect, OnStop, OnRestart
    <3>4. CASE TakeSignals
      BY <3>1, <3>2, <3>4
      DEF TakeSignals, OnOpened, OnClosed, OnReplied, Untouched, Lose, DialFailed, RedialFailed, Closed
    <3>5. CASE AttemptTimesOut \/ Dial \/ Redial \/ DeadlineFires \/ StepExpires
      BY <3>1, <3>2, <3>5
      DEF AttemptTimesOut, Dial, Redial, DeadlineFires, StepExpires, Lose, DialFailed, RedialFailed,
          Closed
    <3> QED
      BY <1>3, <3>3, <3>4, <3>5 DEF TaskNext
  <2>4. task' = "Done" => Connected' = {}
    BY <1>0 DEF Placed, HeldIsLast, TypeOK, TaskTypes, Connected
  <2> QED
    BY <2>1, <2>2, <2>3, <2>4 DEF OneConnection
<1>4. CASE SocketOpens
  <2>1. socketGen \in Nat /\ socket # NoSocket /\ opened < socketGen
    BY <1>0, <1>4, PlacedTypes DEF SocketOpens, Placed, OpensOnce
  <2>2. task # "Done"
    BY <1>0, <2>1 DEF Placed, HeldIsLast
  <2> QED
    BY <1>4, <2>1, <2>2 DEF SocketOpens, OneConnection, Connected
<1>5. CASE SocketCloses
  BY <1>5 DEF SocketCloses, OneConnection, Connected
<1>6. CASE PeerAnswers \/ MessageComes
  BY <1>1, <1>6 DEF PeerAnswers, MessageComes, socketVars, peerVars
<1> QED
  BY <1>2, <1>3, <1>4, <1>5, <1>6, Steps DEF TaskNext, PageNext
----------------------------------------------------------------------------
\* The two halves.

\* What is seen of the task; no client over it ever loses the means to get another connection.
SeenTask == WorkerSeen(taskGen, TaskPart, opened, FALSE)

\* What a step of the task finds, and what it has to leave.
Standing ==
  /\ TypeOK /\ InOrder /\ Placed /\ OnlyRestartsFollow /\ (queued => task = "Dialing")
  /\ InStep(ClientSeen, SeenTask)

\* What is seen of the task, part by part.
LEMMA SeenTaskParts ==
  /\ SeenTask.gen = taskGen /\ (SeenTask').gen = taskGen'
  /\ SeenTask.part = TaskPart /\ (SeenTask').part = TaskPart'
  /\ SeenTask.newest = opened /\ (SeenTask').newest = opened'
  /\ ~SeenTask.alone /\ (SeenTask').alone = SeenTask.alone
BY DEF SeenTask, WorkerSeen

\* The parts the states play, now and after a step.
LEMMA PartNow ==
  ASSUME TaskTypes
  PROVE  /\ TaskPart \in Parts
         /\ task = "Live" => TaskPart = "Serving"
         /\ task \in {"Dialing", "Redialing"} =>
              TaskPart = IF queued \/ opened = taskGen THEN "Serving" ELSE "Trying"
         /\ task = "Backoff" => TaskPart = "Trying"
         /\ task = "Idle" => TaskPart = "Resting"
         /\ task = "Closing" => TaskPart = IF ending = "Stopped" THEN "Leaving" ELSE "Resting"
         /\ task = "Done" <=> TaskPart = "Gone"
         /\ task = "Waiting" <=> TaskPart = "Waiting"
BY DEF TaskTypes, TaskPart, Parts

\* The parts the states play after a step.
LEMMA PartNext ==
  ASSUME TaskTypes'
  PROVE  /\ TaskPart' \in Parts
         /\ task' = "Live" => TaskPart' = "Serving"
         /\ task' \in {"Dialing", "Redialing"} =>
              TaskPart' = IF queued' \/ opened' = taskGen' THEN "Serving" ELSE "Trying"
         /\ task' = "Backoff" => TaskPart' = "Trying"
         /\ task' = "Idle" => TaskPart' = "Resting"
         /\ task' = "Closing" => TaskPart' = IF ending' = "Stopped" THEN "Leaving" ELSE "Resting"
         /\ task' = "Done" <=> TaskPart' = "Gone"
         /\ task' = "Waiting" <=> TaskPart' = "Waiting"
BY DEF TaskTypes, TaskPart, Parts

\* What is seen of the task is a view of a worker.
LEMMA SeenTaskTypes ==
  /\ TypeOK => SeenTask \in WorkerViews
  /\ TypeOK' => SeenTask' \in WorkerViews
<1>1. TypeOK => SeenTask \in WorkerViews
  BY PartNow DEF TypeOK, TaskTypes, SeenTask, WorkerSeen, WorkerViews, Generation
<1>2. TypeOK' => SeenTask' \in WorkerViews
  BY PartNext DEF TypeOK, TaskTypes, SeenTask, WorkerSeen, WorkerViews, Generation
<1> QED
  BY <1>1, <1>2

\* The task is in order with what is seen of the client.
LEMMA StandsInOrder ==
  ASSUME Standing PROVE InOrderSeen(ClientSeen, SeenTask)
<1>1. WorkerInOrder(SeenTask.gen, SeenTask.part \in {"Waiting", "Gone"})
  <2>1. task \in {"Waiting", "Done"} <=> TaskPart \in {"Waiting", "Gone"}
    BY PartNow DEF Standing, TypeOK
  <2> QED
    BY <2>1, SeenTaskParts DEF Standing, InOrder, WorkerInOrder
<1> QED
  BY <1>1, SeenInOrder DEF Standing, TypeOK

\* What is seen at a step of the task or of the page.
LEMMA TaskSteps ==
  ASSUME Standing, TypeOK', UNCHANGED clientVars
  PROVE  /\ ClientSeen \in ClientViews /\ ClientSeen' \in ClientViews
         /\ SeenTask \in WorkerViews /\ SeenTask' \in WorkerViews
         /\ Unmoved(ClientSeen, ClientSeen')
         /\ InStep(ClientSeen, SeenTask) /\ InOrderSeen(ClientSeen, SeenTask)
         /\ UNCHANGED <<taskGen, TaskPart, opened>> => SeenTask' = SeenTask
<1>1. ChannelTypes /\ ClientTypes /\ ChannelTypes' /\ ClientTypes' /\ RestartsAreNewer
  BY DEF Standing, TypeOK, InOrder, WorkerInOrder
<1>2. UNCHANGED <<taskGen, TaskPart, opened>> => SeenTask' = SeenTask
  BY DEF SeenTask, WorkerSeen
<1> QED
  BY <1>1, <1>2, StandsInOrder, SeenAtWork, SeenTaskTypes DEF Standing

\* The task takes what the client told it.
LEMMA TakesInStep ==
  ASSUME Standing, TypeOK', UNCHANGED clientVars, NEW type, Take(type)
  PROVE  /\ Taken(ClientSeen, ClientSeen', Head(notices)) /\ Head(notices).type = type
         /\ OnlyRestartsFollow' /\ SeenTask.part # "Gone"
<1>1. notices # <<>> /\ notices' = Tail(notices) /\ Head(notices).type = type /\ task # "Done"
  BY DEF Take
<1>2. ChannelTypes /\ RestartsAreNewer /\ OnlyRestartsFollow /\ TaskTypes
  BY DEF Standing, TypeOK, InOrder, WorkerInOrder
<1>3. SeenTask.part # "Gone"
  BY <1>1, <1>2, PartNow, SeenTaskParts
<1> QED
  BY <1>1, <1>2, <1>3, FirstIsTaken

\* What the task does that moves neither its part nor what the client waits for.
LEMMA IdlesInStep ==
  ASSUME Standing, TypeOK', UNCHANGED clientVars, UNCHANGED <<taskGen, TaskPart, opened>>,
         \/ notices' = notices
         \/ notices # <<>> /\ notices' = Tail(notices) /\ Head(notices).type \notin Weighty,
         events' = events \/ \E e \in Event : events' = Append(events, e) /\ e.type = "Message"
  PROVE  InStep(ClientSeen', SeenTask') /\ OnlyRestartsFollow'
<1>1. /\ ChannelTypes /\ ClientTypes /\ ChannelTypes' /\ ClientTypes'
      /\ RestartsAreNewer /\ OnlyRestartsFollow
  BY DEF Standing, TypeOK, InOrder, WorkerInOrder
<1>2. SeenTask \in WorkerViews /\ InStep(ClientSeen, SeenTask) /\ SeenTask' = SeenTask
  BY TaskSteps
<1>3. InStep(ClientSeen', SeenTask) /\ OnlyRestartsFollow'
  BY <1>1, <1>2, WorkerMarksTime
<1> QED
  BY <1>2, <1>3

\* A task that hears of the end of an attempt, or of nothing, did not miss that it had succeeded.
LEMMA NothingOpened ==
  ASSUME TypeOK, Placed, task \in {"Dialing", "Redialing"},
         signals = <<>> \/ (signals # <<>> /\ Head(signals) = Signal("Closed", socket))
  PROVE  opened < taskGen
<1>1. ~OpeningComes
  <2>1. CASE signals = <<>>
    BY <2>1 DEF OpeningComes
  <2>2. CASE signals # <<>> /\ Head(signals) = Signal("Closed", socket)
    <3>1. signals \in Seq([type : SignalTypes, id : Nat])
      BY DEF TypeOK, TaskTypes
    <3>2. Len(signals) \in Nat \ {0} /\ Head(signals) = signals[1]
      BY <2>2, <3>1, TakeFacts
    <3>3. 1 \in 1..Len(signals) /\ signals[1] = Signal("Closed", socket)
      BY <2>2, <3>2
    <3>4. \A i \in 1..Len(signals) : ~(i < 1)
      BY <3>2
    <3> QED
      BY <3>3, <3>4 DEF OpeningComes
  <2> QED
    BY <2>1, <2>2
<1> QED
  BY <1>1 DEF Placed, OpensOnce

\* The task loses a connection, or the dials for one.
LEMMA LosesInStep ==
  ASSUME Standing, TypeOK', UNCHANGED <<clientVars, opened, notices>>,
         task \in {"Dialing", "Live"}, NEW why \in Reasons, Lose(why)
  PROVE  InStep(ClientSeen', SeenTask')
<1> DEFINE c == ClientSeen
           d == ClientSeen'
           w == SeenTask
           v == SeenTask'
           e == Report("Lost", taskGen + 1, why)
<1>1. /\ c \in ClientViews /\ d \in ClientViews /\ w \in WorkerViews /\ v \in WorkerViews
      /\ Unmoved(c, d) /\ InStep(c, w) /\ v.alone = w.alone /\ ~w.alone
  BY TaskSteps, SeenTaskParts DEF clientVars
<1>2. /\ d.told = c.told
      /\ v.part = "Waiting" /\ v.gen = w.gen + 1 /\ v.newest = w.newest /\ w.gen = taskGen
      /\ w.part \in {"Serving", "Trying"}
  BY FlightUnmoved, SeenParts, PartNow, PartNext, SeenTaskParts DEF TypeOK, Standing, Lose
<1>3. e \in Event /\ e.type = "Lost" /\ e.gen = taskGen + 1
  BY TaskReports DEF Report, Standing, TypeOK
<1>4. Sent(c, d, e)
  BY <1>3, SeenSent DEF Lose, Reported, Standing, TypeOK, clientVars
<1> HIDE DEF c, d, w, v, e
<1>5. InStep(d, v)
  BY <1>1, <1>2, <1>3, <1>4, WorkerLoses
<1> QED
  BY <1>5 DEF d, v

\* A redial fails.
LEMMA AttemptInStep ==
  ASSUME Standing, TypeOK', UNCHANGED <<clientVars, opened, notices>>,
         task \in {"Redialing", "Backoff"}, opened < taskGen, RedialFailed
  PROVE  InStep(ClientSeen', SeenTask')
<1> DEFINE c == ClientSeen
           d == ClientSeen'
           w == SeenTask
           e == Report("Attempting", taskGen, "none")
<1>1. TaskPart = "Trying" /\ TaskPart' = "Trying"
  <2>1. ~queued /\ opened # taskGen /\ task' = "Backoff"
    BY PlacedTypes DEF Standing, RedialFailed
  <2> QED
    BY <2>1, PartNow, PartNext DEF TypeOK, Standing
<1>2. /\ c \in ClientViews /\ d \in ClientViews /\ w \in WorkerViews
      /\ Unmoved(c, d) /\ InStep(c, w) /\ SeenTask' = w
  BY <1>1, TaskSteps DEF clientVars, RedialFailed
<1>3. d.told = c.told /\ w.part = "Trying" /\ w.gen = taskGen /\ ~w.alone
  BY <1>1, FlightUnmoved, SeenParts, SeenTaskParts
<1>4. e \in Event /\ e.type = "Attempting" /\ e.gen = taskGen
  BY TaskReports DEF Report, Standing, TypeOK
<1>5. Sent(c, d, e)
  BY <1>4, SeenSent DEF RedialFailed, Reported, Standing, TypeOK, clientVars
<1> HIDE DEF c, d, w, e
<1>6. InStep(d, w)
  BY <1>2, <1>3, <1>4, <1>5, WorkerFailsAgain
<1> QED
  BY <1>2, <1>6 DEF d

\* The task ends, which it was told to.
LEMMA EndsInStep ==
  ASSUME Standing, TypeOK', UNCHANGED <<clientVars, taskGen, opened>>, task' = "Done",
         Reported(Report("Stopped", 0, "Shutdown")),
         \/ task = "Closing" /\ ending = "Stopped" /\ notices' = notices
         \/ Take("Shutdown")
  PROVE  InStep(ClientSeen', SeenTask')
<1> DEFINE c == ClientSeen
           d == ClientSeen'
           w == SeenTask
           v == SeenTask'
           n == Head(notices)
           e == Report("Stopped", 0, "Shutdown")
<1>1. /\ c \in ClientViews /\ d \in ClientViews /\ w \in WorkerViews /\ v \in WorkerViews
      /\ Unmoved(c, d) /\ InStep(c, w) /\ v.alone = w.alone
  BY TaskSteps, SeenTaskParts DEF clientVars
<1>2. v.part = "Gone" /\ v.gen = w.gen /\ v.newest = w.newest
  BY PartNext, SeenTaskParts DEF TypeOK
<1>3. e \in Event /\ e.type = "Stopped" /\ e.arg # "Initialize"
  BY TaskReports DEF Report, Standing, TypeOK
<1>4. Sent(c, d, e)
  BY <1>3, SeenSent DEF Reported, Standing, TypeOK, clientVars
<1>5. \/ w.part = "Leaving" /\ d.told = c.told
      \/ Taken(c, d, n) /\ n.type = "Shutdown"
  BY PartNow, SeenTaskParts, FlightUnmoved, SeenParts, TakesInStep DEF Standing, TypeOK
<1> HIDE DEF c, d, w, v, n, e
<1>6. /\ d.told \subseteq c.told /\ \A x \in c.told : x \in d.told \/ x.type = "Shutdown"
      /\ ~Engaged(c)
  BY <1>1, <1>5 DEF InStep, GoesUnasked, Taken
<1>7. InStep(d, v)
  BY <1>1, <1>2, <1>3, <1>4, <1>6, WorkerGoes
<1> QED
  BY <1>7 DEF d, v

\* The task is told to shut down: it says goodbye, or is done.
LEMMA ShutdownInStep ==
  ASSUME Standing, TypeOK', UNCHANGED clientVars, OnShutdown
  PROVE  InStep(ClientSeen', SeenTask')
<1> DEFINE c == ClientSeen
           d == ClientSeen'
           w == SeenTask
           v == SeenTask'
           n == Head(notices)
<1>0. taskGen' = taskGen /\ opened' = opened /\ Take("Shutdown")
  BY DEF OnShutdown, peerVars
<1>1. CASE task \in {"Live", "Closing"}
  <2>1. task' = "Closing" /\ ending' = "Stopped" /\ events' = events
    BY <1>1 DEF OnShutdown, Close, Unconnected
  <2>2. /\ c \in ClientViews /\ d \in ClientViews /\ w \in WorkerViews /\ v \in WorkerViews
        /\ Unmoved(c, d) /\ InStep(c, w) /\ v.alone = w.alone
    BY TaskSteps, SeenTaskParts
  <2>3. Taken(c, d, n) /\ n.type = "Shutdown" /\ w.part # "Gone"
    BY <1>0, TakesInStep
  <2>4. v.part = "Leaving" /\ d.due = c.due /\ v.gen = w.gen /\ v.newest = w.newest
    BY <1>0, <2>1, PartNext, SeenTaskParts, FlightUnmoved, SeenParts DEF TypeOK, clientVars
  <2> HIDE DEF c, d, w, v, n
  <2>5. InStep(d, v)
    BY <2>2, <2>3, <2>4, WorkerLeaves
  <2> QED
    BY <2>5 DEF d, v
<1>2. CASE task \notin {"Live", "Closing"}
  <2>1. task' = "Done" /\ Reported(Report("Stopped", 0, "Shutdown"))
    BY <1>2 DEF OnShutdown
  <2> QED
    BY <1>0, <2>1, EndsInStep
<1> QED
  BY <1>1, <1>2

\* It is told to try again, which it does if it waits for that.
LEMMA ReconnectInStep ==
  ASSUME Standing, TypeOK', UNCHANGED clientVars, OnReconnect
  PROVE  InStep(ClientSeen', SeenTask')
<1> DEFINE c == ClientSeen
           d == ClientSeen'
           w == SeenTask
           v == SeenTask'
           n == Head(notices)
<1>1. /\ c \in ClientViews /\ d \in ClientViews /\ w \in WorkerViews /\ v \in WorkerViews
      /\ Unmoved(c, d) /\ InStep(c, w) /\ v.alone = w.alone
  BY TaskSteps, SeenTaskParts
<1>2. Taken(c, d, n) /\ n.type = "Reconnect" /\ w.part # "Gone"
  BY TakesInStep DEF OnReconnect
<1>3. v.gen = w.gen /\ v.newest = w.newest /\ d.due = c.due
  BY SeenTaskParts, FlightUnmoved, SeenParts DEF OnReconnect, clientVars, peerVars
<1>4. v.part = IF w.part = "Waiting" /\ n.gen = w.gen THEN "Trying" ELSE w.part
  <2>1. w.part = "Waiting" <=> task = "Waiting"
    BY PartNow, SeenTaskParts DEF Standing, TypeOK
  <2>2. CASE task = "Waiting" /\ n.gen = taskGen
    <3>1. task' = "Backoff"
      BY <2>2 DEF OnReconnect
    <3> QED
      BY <2>1, <2>2, <3>1, PartNext, SeenTaskParts DEF TypeOK
  <2>3. CASE ~(task = "Waiting" /\ n.gen = taskGen)
    <3>1. UNCHANGED <<task, taskGen, queued, ending, opened>>
      BY <2>3 DEF OnReconnect, peerVars
    <3>2. TaskPart' = TaskPart
      BY <3>1 DEF TaskPart
    <3> QED
      BY <2>1, <2>3, <3>2, SeenTaskParts
  <2> QED
    BY <2>2, <2>3
<1> HIDE DEF c, d, w, v, n
<1>5. InStep(d, v)
  BY <1>1, <1>2, <1>3, <1>4, WorkerTriesAgain
<1> QED
  BY <1>5 DEF d, v

\* It is told to stop for good.
LEMMA StopInStep ==
  ASSUME Standing, TypeOK', UNCHANGED clientVars, OnStop
  PROVE  InStep(ClientSeen', SeenTask')
<1> DEFINE c == ClientSeen
           d == ClientSeen'
           w == SeenTask
           v == SeenTask'
           n == Head(notices)
<1>1. /\ c \in ClientViews /\ d \in ClientViews /\ w \in WorkerViews /\ v \in WorkerViews
      /\ Unmoved(c, d) /\ InStep(c, w) /\ v.alone = w.alone
  BY TaskSteps, SeenTaskParts
<1>2. Taken(c, d, n) /\ n.type = "Stop" /\ w.part # "Gone"
  BY TakesInStep DEF OnStop
<1>3. v.newest = w.newest /\ d.due = c.due
  BY SeenTaskParts, FlightUnmoved, SeenParts DEF OnStop, clientVars, peerVars
<1>4. CASE task # "Closing" /\ n.gen = taskGen
  <2>1. /\ taskGen' = n.gen + 1
        /\ task' = "Idle" \/ (task' = "Closing" /\ ending' = "Idle")
    BY <1>4 DEF OnStop, Close
  <2>2. v.part = "Resting" /\ n.gen = w.gen /\ v.gen = w.gen + 1
    BY <1>4, <2>1, PartNext, SeenTaskParts DEF TypeOK
  <2>3. w.part # "Leaving"
    BY <1>4, SeenTaskParts DEF TaskPart
  <2> HIDE DEF c, d, w, v, n
  <2>4. InStep(d, v)
    BY <1>1, <1>2, <1>3, <2>2, <2>3, WorkerRests
  <2> QED
    BY <2>4 DEF d, v
<1>5. CASE task = "Closing" \/ n.gen # taskGen
  <2>1. UNCHANGED <<taskGen, task, queued, ending, opened>>
    BY <1>5 DEF OnStop, Unconnected, peerVars
  <2>2. v.part = w.part /\ v.gen = w.gen
    BY <2>1, SeenTaskParts DEF TaskPart
  <2>3. w.part \in {"Resting", "Leaving"} \/ n.gen # w.gen
    BY <1>5, PartNow, SeenTaskParts DEF Standing, TypeOK
  <2> HIDE DEF c, d, w, v, n
  <2>4. InStep(d, v)
    BY <1>1, <1>2, <1>3, <2>2, <2>3, WorkerRests
  <2> QED
    BY <2>4 DEF d, v
<1> QED
  BY <1>4, <1>5

\* The first new dial may end as it starts, and with it the budget: the task restarts and loses at
\* once.
LEMMA RestartInStep ==
  ASSUME Standing, TypeOK', UNCHANGED clientVars, OnRestart
  PROVE  InStep(ClientSeen', SeenTask')
<1> DEFINE c == ClientSeen
           d == ClientSeen'
           w == SeenTask
           v == SeenTask'
           n == Head(notices)
<1>1. /\ c \in ClientViews /\ d \in ClientViews /\ w \in WorkerViews /\ v \in WorkerViews
      /\ Unmoved(c, d) /\ InStep(c, w) /\ InOrderSeen(c, w) /\ v.alone = w.alone /\ ~w.alone
  BY TaskSteps, SeenTaskParts
<1>2. Taken(c, d, n) /\ n.type = "Restart" /\ w.part # "Gone"
  BY TakesInStep DEF OnRestart
<1>3. v.newest = w.newest
  BY SeenTaskParts DEF OnRestart
<1>4. w.part = "Leaving" <=> task = "Closing" /\ ending = "Stopped"
  BY PartNow, SeenTaskParts DEF Standing, TypeOK, TaskPart
<1>5. n.gen \in Nat /\ ~(n.gen < taskGen) /\ opened # n.gen /\ taskGen \in Nat
  <2>1. /\ n.gen \in Nat /\ taskGen \in Nat /\ opened \in Int /\ opened <= taskGen
        /\ task = "Waiting" => opened < taskGen
        /\ taskGen < n.gen \/ (taskGen = n.gen /\ task = "Waiting")
    BY RestartIsAhead, TakeTypes, PlacedTypes
    DEF OnRestart, Standing, TypeOK, Generation, Placed, OpensOnce
  <2> QED
    BY <2>1
<1>6. CASE task = "Closing" /\ ending = "Stopped"
  <2>1. UNCHANGED <<taskGen, task, queued, ending, opened, events>>
    BY <1>6 DEF OnRestart
  <2>2. v = w /\ d.due = c.due
    BY <2>1, TaskSteps, FlightUnmoved, SeenParts DEF TaskPart, clientVars
  <2>3. w.part = "Leaving"
    BY <1>4, <1>6
  <2> HIDE DEF c, d, w, v, n
  <2>4. InStep(d, v)
    BY <1>1, <1>2, <2>2, <2>3, RestartIsMoot
  <2> QED
    BY <2>4 DEF d, v
<1>7. CASE ~(task = "Closing" /\ ending = "Stopped")
  <2>0. w.part \notin {"Leaving", "Gone"}
    BY <1>2, <1>4, <1>7
  <2>1. \/ taskGen' = n.gen /\ task' = "Dialing" /\ events' = events
        \/ /\ taskGen' = n.gen + 1 /\ task' = "Waiting"
           /\ Reported(Report("Lost", n.gen + 1, "Failed"))
    BY <1>5, <1>7 DEF OnRestart
  <2>2. queued' = FALSE /\ opened' = opened
    BY <1>5, <1>7 DEF OnRestart
  <2>3. CASE taskGen' = n.gen /\ task' = "Dialing" /\ events' = events
    <3>1. v.part = "Trying" /\ v.gen = n.gen /\ d.due = c.due
      BY <1>5, <2>2, <2>3, PartNext, SeenTaskParts, FlightUnmoved, SeenParts DEF TypeOK, clientVars
    <3> HIDE DEF c, d, w, v, n
    <3>2. InStep(d, v)
      BY <1>1, <1>2, <1>3, <2>0, <3>1, WorkerRestarts
    <3> QED
      BY <3>2 DEF d, v
  <2>4. CASE /\ taskGen' = n.gen + 1 /\ task' = "Waiting"
             /\ Reported(Report("Lost", n.gen + 1, "Failed"))
    <3> DEFINE e == Report("Lost", n.gen + 1, "Failed")
               m == [conn |-> d.conn, gen |-> d.gen, link |-> d.link, status |-> d.status,
                     dropped |-> d.dropped, told |-> d.told, due |-> c.due]
               u == [gen |-> n.gen, part |-> "Trying", newest |-> w.newest, alone |-> w.alone]
    <3>1. v.part = "Waiting" /\ v.gen = n.gen + 1
      BY <2>4, PartNext, SeenTaskParts DEF TypeOK
    <3>2. e \in Event /\ e.type = "Lost" /\ e.gen = n.gen + 1
      BY <1>5, TaskReports, NextGeneration DEF Report, Standing, TypeOK, Generation, Reasons
    <3>3. Sent(c, d, e)
      BY <2>4, <3>2, SeenSent DEF Reported, Standing, TypeOK
    <3> HIDE DEF c, d, w, v, n, e
    <3>4. m \in ClientViews /\ u \in WorkerViews
      BY <1>1, <1>5 DEF ClientViews, WorkerViews, Parts
    <3>5. Unmoved(c, m) /\ Taken(c, m, n) /\ m.due = c.due
      BY <1>1, <1>2 DEF Unmoved, Taken, Asks
    <3>6. Unmoved(m, d) /\ d.told = m.told /\ Sent(m, d, e)
      BY <1>1, <3>3 DEF Unmoved, Sent
    <3>7. /\ u.part = "Trying" /\ u.gen = n.gen /\ u.newest = w.newest /\ u.alone = w.alone
      OBVIOUS
    <3> HIDE DEF m, u
    <3>8. InStep(m, u)
      BY <1>1, <1>2, <2>0, <3>4, <3>5, <3>7, WorkerRestarts
    <3>9. InStep(d, v)
      BY <1>1, <1>3, <3>1, <3>2, <3>4, <3>6, <3>7, <3>8, WorkerLoses
    <3> QED
      BY <3>9 DEF d, v
  <2> QED
    BY <2>1, <2>3, <2>4
<1> QED
  BY <1>6, <1>7

\* A socket opens: the client's first link, or another one that the client is told of.
LEMMA OpensInStep ==
  ASSUME Standing, TypeOK', UNCHANGED clientVars, SocketOpens
  PROVE  InStep(ClientSeen', SeenTask') /\ OnlyRestartsFollow'
<1> DEFINE c == ClientSeen
           d == ClientSeen'
           w == SeenTask
           v == SeenTask'
           e == Report("Reconnected", socketGen, "none")
<1>0. /\ UNCHANGED <<taskGen, task, queued, notices>> /\ opened' = socketGen
      /\ IF queued THEN events' = events ELSE Reported(e)
  BY DEF SocketOpens
<1>1. task \in {"Dialing", "Redialing"} /\ socketGen = taskGen /\ opened < socketGen
  BY PlacedTypes
  DEF SocketOpens, Standing, Placed, SocketIsKnown, HeldIsLast, OpensOnce, TypeOK, TaskTypes
<1>2. OnlyRestartsFollow'
  BY <1>0, OnlyRestartsStillFollow DEF Standing, TypeOK
<1>3. /\ c \in ClientViews /\ d \in ClientViews /\ w \in WorkerViews /\ v \in WorkerViews
      /\ Unmoved(c, d) /\ InStep(c, w) /\ v.alone = w.alone /\ ~w.alone
  BY TaskSteps, SeenTaskParts
<1>4. /\ d.told = c.told
      /\ v.part = "Serving" /\ v.gen = w.gen /\ v.newest = w.gen /\ w.gen = socketGen
  BY <1>0, <1>1, FlightUnmoved, SeenParts, PartNext, SeenTaskParts DEF TypeOK
<1>5. CASE queued
  <2>1. w.part = "Serving" /\ d.due = c.due
    BY <1>0, <1>1, <1>5, PartNow, SeenTaskParts, FlightUnmoved, SeenParts
    DEF Standing, TypeOK, clientVars
  <2> HIDE DEF c, d, w, v, e
  <2>2. InStep(d, v)
    BY <1>3, <1>4, <2>1, WorkerServes
  <2> QED
    BY <1>2, <2>2 DEF d, v
<1>6. CASE ~queued
  <2>1. e \in Event /\ e.type = "Reconnected" /\ e.gen = socketGen
    BY TaskReports DEF Report, Standing, TypeOK
  <2>2. w.part = "Trying"
    <3>1. opened # taskGen
      BY <1>1, PlacedTypes DEF Standing
    <3> QED
      BY <1>1, <1>6, <3>1, PartNow, SeenTaskParts DEF Standing, TypeOK
  <2>3. Sent(c, d, e)
    BY <1>0, <1>6, <2>1, SeenSent DEF Reported, Standing, TypeOK
  <2> HIDE DEF c, d, w, v, e
  <2>4. InStep(d, v)
    BY <1>3, <1>4, <2>1, <2>2, <2>3, WorkerServes
  <2> QED
    BY <1>2, <2>4 DEF d, v
<1> QED
  BY <1>5, <1>6 DEF Standing, TypeOK, TaskTypes

\* The first queue is gone once the task leaves the first dials.
LEMMA QueueIsFirst ==
  ASSUME queued => task = "Dialing", TaskNext \/ PageNext
  PROVE  queued' => task' = "Dialing"
<1>1. CASE TakeControl
  <2>1. CASE OnShutdown
    BY <2>1 DEF OnShutdown
  <2>2. CASE OnHandshaken
    BY <2>2 DEF OnHandshaken
  <2>3. CASE OnReconnect
    BY <2>3 DEF OnReconnect
  <2>4. CASE OnStop
    BY <2>4 DEF OnStop, Close
  <2>5. CASE OnRestart
    BY <2>5 DEF OnRestart
  <2> QED
    BY <1>1, <2>1, <2>2, <2>3, <2>4, <2>5 DEF TakeControl
<1>2. CASE TakeSignals
  BY <1>2
  DEF TakeSignals, OnOpened, OnClosed, OnReplied, Live, Untouched, DialFailed, RedialFailed, Lose,
      Closed
<1>3. CASE AttemptTimesOut \/ Dial \/ Redial \/ DeadlineFires \/ StepExpires
  BY <1>3
  DEF AttemptTimesOut, Dial, Redial, DeadlineFires, StepExpires, DialFailed, RedialFailed, Lose,
      Closed
<1>4. CASE PageNext
  BY <1>4 DEF PageNext, SocketOpens, SocketCloses, PeerAnswers, MessageComes
<1> QED
  BY <1>1, <1>2, <1>3, <1>4 DEF TaskNext

\* What the signals move leaves both halves in step.
LEMMA SignalsInStep ==
  ASSUME Standing, TypeOK', UNCHANGED clientVars, TakeSignals
  PROVE  InStep(ClientSeen', SeenTask')
<1>0. /\ UNCHANGED <<notices, opened>> /\ signals # <<>> /\ TypeOK /\ Placed /\ TaskTypes
      /\ {"Closed", "Failed"} \subseteq Reasons
  BY DEF TakeSignals, OnOpened, OnClosed, OnReplied, TakeSignal, peerVars, Standing, TypeOK, Reasons
<1>1. ASSUME UNCHANGED <<events, taskGen, task, queued, ending>>
      PROVE  InStep(ClientSeen', SeenTask')
  BY <1>0, <1>1, IdlesInStep DEF TaskPart
<1>2. CASE OnOpened
  <2>1. CASE task \in {"Dialing", "Redialing"} /\ Held(Head(signals)) /\ Live
    <3>0. /\ Head(signals).type = "Opened" /\ Head(signals).id = socket
          /\ Head(signals) = signals[1] /\ 1 \in 1..Len(signals)
          /\ signals[1] \in [type : SignalTypes, id : Nat]
      <4>1. signals \in Seq([type : SignalTypes, id : Nat])
        BY <1>0 DEF TaskTypes
      <4>2. Len(signals) \in Nat \ {0} /\ Head(signals) = signals[1]
        BY <1>0, <4>1, TakeFacts
      <4>3. 1 \in 1..Len(signals)
        BY <4>2
      <4> QED
        BY <1>0, <1>2, <2>1, <4>2, <4>3, PlacedTypes DEF OnOpened, TakeSignal, Held
    <3>1. signals[1] = Signal("Opened", socket)
      BY <3>0 DEF Signal
    <3>2. opened = socketGen /\ phase \in {"Open", "Shut"}
      BY <1>0, <3>0, <3>1 DEF Placed, SignalsAreTrue
    <3>3. opened = taskGen
      BY <1>0, <2>1, <3>2, PlacedTypes DEF Placed, HeldIsLast
    <3>4. UNCHANGED <<events, taskGen>> /\ task' = "Live"
      BY <1>0, <1>2, <2>1 DEF OnOpened, Live, Untouched
    <3>5. TaskPart' = TaskPart
      BY <2>1, <3>3, <3>4 DEF TaskPart
    <3> QED
      BY <1>0, <3>4, <3>5, IdlesInStep
  <2>2. CASE Untouched
    BY <1>1, <2>2 DEF Untouched
  <2> QED
    BY <1>2, <2>1, <2>2 DEF OnOpened
<1>3. CASE OnClosed
  <2>0. ASSUME Held(Head(signals)), task \in {"Dialing", "Redialing"} PROVE opened < taskGen
    <3>1. signals \in Seq([type : SignalTypes, id : Nat])
      BY <1>0 DEF TaskTypes
    <3>2. Head(signals) \in [type : SignalTypes, id : Nat]
      BY <1>0, <3>1, TakeFacts
    <3>3. Head(signals) = Signal("Closed", socket)
      BY <1>3, <2>0, <3>2 DEF OnClosed, TakeSignal, Held, Signal
    <3> QED
      BY <1>0, <2>0, <3>3, NothingOpened
  <2>1. CASE /\ task = "Dialing" /\ Held(Head(signals)) /\ DialFailed
             /\ UNCHANGED <<ending, step, sent>>
    <3>1. CASE Lose("Failed")
      BY <1>0, <2>1, <3>1, LosesInStep
    <3>2. CASE UNCHANGED <<taskGen, task, queued, deadline, events>>
      BY <1>1, <2>1, <3>2
    <3> QED
      BY <2>1, <3>1, <3>2 DEF DialFailed
  <2>2. CASE task = "Redialing" /\ Held(Head(signals)) /\ RedialFailed
    BY <1>0, <2>0, <2>2, AttemptInStep
  <2>3. CASE task = "Live" /\ Lose("Closed")
    BY <1>0, <2>3, LosesInStep
  <2>4. CASE task = "Closing" /\ Closed /\ UNCHANGED <<taskGen, queued, deadline, sent>>
    <3>1. CASE ending = "Stopped"
      BY <1>0, <2>4, <3>1, EndsInStep DEF Closed
    <3>2. CASE ending # "Stopped"
      <4>1. UNCHANGED <<events, taskGen>> /\ task' = "Idle"
        BY <2>4, <3>2 DEF Closed
      <4>2. TaskPart' = TaskPart
        BY <2>4, <3>2, <4>1 DEF TaskPart
      <4> QED
        BY <1>0, <4>1, <4>2, IdlesInStep
    <3> QED
      BY <3>1, <3>2
  <2>5. CASE Untouched
    BY <1>1, <2>5 DEF Untouched
  <2> QED
    BY <1>3, <2>1, <2>2, <2>3, <2>4, <2>5 DEF OnClosed
<1>4. CASE OnReplied
  BY <1>1, <1>4 DEF OnReplied
<1> QED
  BY <1>2, <1>3, <1>4 DEF TakeSignals

\* So does what moves when a timer wakes the task.
LEMMA TicksInStep ==
  ASSUME Standing, TypeOK', UNCHANGED clientVars,
         AttemptTimesOut \/ Dial \/ Redial \/ DeadlineFires \/ StepExpires
  PROVE  InStep(ClientSeen', SeenTask')
<1>0. /\ UNCHANGED <<notices, opened>> /\ signals = <<>> /\ TypeOK /\ Placed /\ TaskTypes
      /\ {"Timeout", "Failed"} \subseteq Reasons
  BY DEF AttemptTimesOut, Dial, Redial, DeadlineFires, StepExpires, Woken, peerVars, Standing,
         TypeOK, Reasons
<1>1. ASSUME UNCHANGED <<events, taskGen, task, queued, ending>>
      PROVE  InStep(ClientSeen', SeenTask')
  BY <1>0, <1>1, IdlesInStep DEF TaskPart
<1>2. ASSUME task = "Dialing", DialFailed, UNCHANGED ending PROVE InStep(ClientSeen', SeenTask')
  <2>1. CASE Lose("Failed")
    BY <1>0, <1>2, <2>1, LosesInStep
  <2>2. CASE UNCHANGED <<taskGen, task, queued, deadline, events>>
    BY <1>1, <1>2, <2>2
  <2> QED
    BY <1>2, <2>1, <2>2 DEF DialFailed
<1>3. CASE AttemptTimesOut
  <2>1. CASE task = "Dialing" /\ DialFailed
    BY <1>2, <1>3, <2>1 DEF AttemptTimesOut
  <2>2. CASE task = "Redialing" /\ RedialFailed
    <3>1. opened < taskGen
      BY <1>0, <2>2, NothingOpened
    <3> QED
      BY <1>0, <2>2, <3>1, AttemptInStep
  <2> QED
    BY <1>3, <2>1, <2>2 DEF AttemptTimesOut
<1>4. CASE Dial
  BY <1>1, <1>2, <1>4 DEF Dial
<1>5. CASE Redial
  <2>1. task = "Backoff" /\ opened < taskGen /\ ~queued /\ opened # taskGen
    BY <1>0, <1>5, PlacedTypes DEF Redial, Placed, OpensOnce, Standing
  <2>2. CASE task' = "Redialing" /\ UNCHANGED <<taskGen, queued, deadline, events>>
    <3>1. TaskPart' = TaskPart
      BY <1>0, <2>1, <2>2 DEF TaskPart
    <3> QED
      BY <1>0, <2>2, <3>1, IdlesInStep
  <2>3. CASE RedialFailed
    BY <1>0, <2>1, <2>3, AttemptInStep
  <2> QED
    BY <1>5, <2>2, <2>3 DEF Redial
<1>6. CASE DeadlineFires
  BY <1>0, <1>6, LosesInStep DEF DeadlineFires
<1>7. CASE StepExpires
  <2>1. task = "Closing" /\ taskGen' = taskGen /\ queued' = queued
    BY <1>7 DEF StepExpires
  <2>2. CASE UNCHANGED <<task, ending, events>>
    BY <1>1, <2>1, <2>2
  <2>3. CASE Closed /\ ending = "Stopped"
    BY <1>0, <2>1, <2>3, EndsInStep DEF Closed
  <2>4. CASE Closed /\ ending # "Stopped"
    <3>1. events' = events /\ task' = "Idle"
      BY <2>4 DEF Closed
    <3>2. TaskPart' = TaskPart
      BY <2>1, <2>4, <3>1 DEF TaskPart
    <3> QED
      BY <1>0, <2>1, <3>1, <3>2, IdlesInStep
  <2> QED
    BY <1>7, <2>2, <2>3, <2>4 DEF StepExpires
<1> QED
  BY <1>3, <1>4, <1>5, <1>6, <1>7

\* A step of the task or of the page leaves both halves in step.
LEMMA TaskStaysInStep ==
  ASSUME Standing, TypeOK', UNCHANGED clientVars, TaskNext \/ PageNext
  PROVE  InStep(ClientSeen', SeenTask') /\ OnlyRestartsFollow'
<1>0. ASSUME notices' = notices PROVE OnlyRestartsFollow'
  BY <1>0, OnlyRestartsStillFollow DEF Standing, TypeOK
<1>1. CASE OnShutdown
  BY <1>1, ShutdownInStep, TakesInStep DEF OnShutdown
<1>2. CASE OnReconnect
  BY <1>2, ReconnectInStep, TakesInStep DEF OnReconnect
<1>3. CASE OnStop
  BY <1>3, StopInStep, TakesInStep DEF OnStop
<1>4. CASE OnRestart
  BY <1>4, RestartInStep, TakesInStep DEF OnRestart
<1>5. CASE OnHandshaken
  <2>1. /\ notices # <<>> /\ notices' = Tail(notices) /\ Head(notices).type \notin Weighty
        /\ events' = events /\ UNCHANGED <<taskGen, task, queued, ending, opened>>
    BY <1>5 DEF OnHandshaken, Take, Weighty, peerVars
  <2>2. TaskPart' = TaskPart
    BY <2>1 DEF TaskPart
  <2> QED
    BY <2>1, <2>2, IdlesInStep
<1>6. CASE TakeSignals
  <2>1. notices' = notices
    BY <1>6 DEF TakeSignals, OnOpened, OnClosed, OnReplied
  <2> QED
    BY <1>0, <1>6, <2>1, SignalsInStep
<1>7. CASE AttemptTimesOut \/ Dial \/ Redial \/ DeadlineFires \/ StepExpires
  <2>1. notices' = notices
    BY <1>7 DEF AttemptTimesOut, Dial, Redial, DeadlineFires, StepExpires, Woken
  <2> QED
    BY <1>0, <1>7, <2>1, TicksInStep
<1>8. CASE SocketOpens
  BY <1>8, OpensInStep
<1>9. CASE SocketCloses \/ PeerAnswers \/ MessageComes
  <2>1. UNCHANGED <<taskGen, task, queued, ending, opened, notices>>
    BY <1>9 DEF SocketCloses, PeerAnswers, MessageComes, peerVars, channelVars
  <2>2. TaskPart' = TaskPart
    BY <2>1 DEF TaskPart
  <2>3. events' = events \/ \E e \in Event : events' = Append(events, e) /\ e.type = "Message"
    <3>1. \A reply \in Replies : /\ Report("Message", socketGen, reply) \in Event
                                 /\ Report("Message", socketGen, reply).type = "Message"
      BY TaskReports DEF Standing, TypeOK, Report
    <3>2. pipe \subseteq Replies
      BY DEF Standing, TypeOK, TaskTypes
    <3> QED
      BY <1>9, <3>1, <3>2 DEF SocketCloses, PeerAnswers, MessageComes, Reported, channelVars
  <2> QED
    BY <2>1, <2>2, <2>3, IdlesInStep
<1> QED
  BY <1>1, <1>2, <1>3, <1>4, <1>5, <1>6, <1>7, <1>8, <1>9 DEF TaskNext, TakeControl, PageNext

\* A client and the task it starts with are in step.
LEMMA InitStands == Init => TaskStands
<1> SUFFICES ASSUME Init PROVE TaskStands
  OBVIOUS
<1>1. /\ notices = <<>> /\ events = <<>> /\ inbox = <<>>
      /\ conn = "Live" /\ clientGen = 0 /\ link = 0 /\ dropped = FALSE
      /\ taskGen = 0 /\ opened = -1 /\ queued = TRUE /\ task = "Dialing"
  BY DEF Init, ClientInit, TaskInit
<1>2. LetGoBeforeReconnect /\ LinkIsCurrent /\ OnlyRestartsFollow
  BY <1>1 DEF LetGoBeforeReconnect, LinkIsCurrent, OnlyRestartsFollow
<1> DEFINE c == ClientSeen
           w == SeenTask
<1>3. c.conn = "Live" /\ c.gen = 0 /\ ~c.dropped /\ c.told = {} /\ c.due = {}
  BY <1>1, SeenParts, CarriedNone DEF InFlight
<1>4. w.gen = 0 /\ w.part = "Serving" /\ w.newest = -1 /\ ~w.alone
  BY <1>1, SeenTaskParts DEF TaskPart
<1> HIDE DEF c, w
<1>5. Engaged(c) /\ Asks(c) = {}
  BY <1>3 DEF Engaged, Asks, ShutKinds
<1>6. InStep(c, w)
  BY <1>3, <1>4, <1>5
  DEF InStep, NewsIsOld, AloneForGood, GoesUnasked, HeardAndDone, UnheardAndDue, GoodbyeHeeded,
      Engaged
<1> QED
  BY <1>1, <1>2, <1>6 DEF TaskStands, SeenTask, c, w

\* TaskStands is what it says of SeenTask.
LEMMA StandsForm ==
  TaskStands <=> /\ LetGoBeforeReconnect /\ LinkIsCurrent /\ OnlyRestartsFollow
                 /\ queued => task = "Dialing"
                 /\ InStep(ClientSeen, SeenTask)
BY DEF TaskStands, SeenTask

\* What a step has to leave, put together.
LEMMA StandsOn ==
  ASSUME LetGoBeforeReconnect', LinkIsCurrent', OnlyRestartsFollow', queued' => task' = "Dialing",
         InStep(ClientSeen', SeenTask')
  PROVE  TaskStands'
<1>1. (TaskStands <=> /\ LetGoBeforeReconnect /\ LinkIsCurrent /\ OnlyRestartsFollow
                      /\ queued => task = "Dialing"
                      /\ InStep(ClientSeen, SeenTask))'
  BY StandsForm, PTL
<1> QED
  BY <1>1

\* What the two halves expect of each other stays true at every step of either.
LEMMA StandsNext ==
  ASSUME Bounded, BrowserInv, TaskStands, [Next]_vars PROVE TaskStands'
<1>0. /\ TypeOK /\ TypeOK' /\ Standing /\ LetGoBeforeReconnect /\ LinkIsCurrent /\ OwnAreStatuses
      /\ ChannelTypes /\ ClientTypes
  <2>1. TypeOK' /\ TypeOK /\ InOrder /\ Placed /\ HandshakeIsTrue
    BY NextTypes, InvForm
  <2> QED
    BY <2>1 DEF TaskStands, Standing, SeenTask, HandshakeIsTrue, OwnAreStatuses, TypeOK
<1>1. CASE ClientNext /\ UNCHANGED taskVars
  <2>1. SeenTask' = SeenTask /\ (queued' => task' = "Dialing")
    BY <1>0, <1>1
    DEF SeenTask, WorkerSeen, TaskPart, Standing, taskVars, peerVars
  <2>2. SeenTask \in WorkerViews /\ InStep(ClientSeen, SeenTask) /\ OnlyRestartsFollow
    BY <1>0, SeenTaskTypes DEF Standing
  <2>3. ~SeenTask.alone
    BY SeenTaskParts
  <2>4. InOrderSeen(ClientSeen, SeenTask)
    BY <1>0, StandsInOrder
  <2>5. InStep(ClientSeen', SeenTask) /\ OnlyRestartsFollow'
    BY <1>0, <1>1, <2>2, <2>3, <2>4, ClientStaysInStep
  <2>6. LetGoBeforeReconnect' /\ LinkIsCurrent'
    BY <1>0, <1>1, ClientLetsGo, ClientKeepsLink
  <2> QED
    BY <2>1, <2>5, <2>6, StandsOn
<1>2. CASE (TaskNext \/ PageNext) /\ UNCHANGED clientVars
  <2>1. queued' => task' = "Dialing"
    BY <1>0, <1>2, QueueIsFirst DEF Standing
  <2>2. InStep(ClientSeen', SeenTask') /\ OnlyRestartsFollow'
    BY <1>0, <1>2, TaskStaysInStep
  <2>3. LetGoBeforeReconnect' /\ LinkIsCurrent'
    BY <1>0, <1>2 DEF LetGoBeforeReconnect, LinkIsCurrent, clientVars
  <2> QED
    BY <2>1, <2>2, <2>3, StandsOn
<1>3. CASE UNCHANGED <<clientVars, taskVars, channelVars>>
  <2>1. /\ SeenTask' = SeenTask /\ ClientSeen' = ClientSeen
        /\ (queued' => task' = "Dialing")
    BY <1>0, <1>3
    DEF SeenTask, WorkerSeen, TaskPart, ClientSeen, InFlight, Carried, Standing,
        clientVars, taskVars, peerVars, channelVars
  <2>2. LetGoBeforeReconnect' /\ LinkIsCurrent' /\ OnlyRestartsFollow'
    BY <1>0, <1>3
    DEF LetGoBeforeReconnect, LinkIsCurrent, OnlyRestartsFollow, Standing, clientVars, channelVars
  <2> QED
    BY <1>0, <2>1, <2>2, StandsOn DEF Standing
<1> QED
  BY <1>1, <1>2, <1>3, Steps DEF TaskNext

\* With nothing on its way, two halves in step do not wait for each other.
LEMMA StandsIsNoStandoff == BrowserInv /\ TaskStands => NoStandoff
<1> SUFFICES ASSUME BrowserInv, TaskStands, Quiet PROVE NoStandoff
  BY DEF NoStandoff
<1> DEFINE c == ClientSeen
           w == SeenTask
<1>0. TypeOK /\ TaskTypes /\ Placed /\ LinkIsCurrent /\ InStep(c, w)
      /\ conn \in {"Live", "Reconnecting", "Stopped", "ShutLinked", "Shut"}
      /\ (queued => task = "Dialing")
  BY InvForm DEF TaskStands, TypeOK, SeenTask, ClientTypes, ShutKinds
<1>1. /\ c.told = {} /\ c.due = {} /\ ~c.dropped /\ c.conn = conn /\ c.gen = clientGen
      /\ c.status = status
  BY SeenParts, CarriedNone DEF Quiet, InFlight
<1>2. w.gen = taskGen /\ w.part = TaskPart /\ ~w.alone
  BY SeenTaskParts
<1> HIDE DEF c, w
<1>3. Asks(c) = {}
  BY <1>1 DEF Asks
<1>4. ASSUME Engaged(c) PROVE w.part # "Gone" /\ ~LossIsDue(c, w)
  BY <1>0, <1>1, <1>2, <1>4 DEF InStep, GoesUnasked, LossIsDue
<1>5. ASSUME conn = "Live" PROVE w.part = "Serving" /\ taskGen = link
  BY <1>0, <1>1, <1>2, <1>3, <1>4, <1>5
  DEF InStep, HeardAndDone, Engaged, ShutKinds, LinkIsCurrent
<1>6. ASSUME conn = "Reconnecting" PROVE w.part = "Trying" /\ taskGen = clientGen
  BY <1>0, <1>1, <1>2, <1>3, <1>4, <1>6 DEF InStep, HeardAndDone, Engaged, ShutKinds
<1>7. ASSUME conn = "Stopped" PROVE w.part \in {"Resting", "Waiting"} /\ taskGen = clientGen
  BY <1>0, <1>1, <1>2, <1>3, <1>4, <1>7 DEF InStep, HeardAndDone, Engaged, ShutKinds
<1>8. ASSUME conn \in ShutKinds
      PROVE  w.part = "Leaving" \/ (w.part = "Gone" /\ status.kind = "Stopped")
  BY <1>0, <1>1, <1>2, <1>8 DEF InStep, GoodbyeHeeded
<1>9. CASE conn = "Live"
  <2>1. CASE task = "Live"
    <3>1. socketGen = taskGen
      BY <1>0, <2>1, PlacedTypes DEF Placed, SocketIsKnown, HeldIsLast
    <3> QED
      BY <1>5, <1>9, <2>1, <3>1 DEF NoStandoff
  <2>2. CASE task \in {"Dialing", "Redialing"}
    <3>1. opened < taskGen
      BY <1>0, <2>2, NothingOpened DEF Quiet
    <3>2. opened # taskGen
      BY <1>0, <3>1, PlacedTypes
    <3>3. queued
      BY <1>2, <1>5, <1>9, <2>2, <3>2 DEF TaskPart
    <3> QED
      BY <1>0, <1>5, <1>9, <3>3 DEF NoStandoff
  <2>3. CASE task \notin {"Live", "Dialing", "Redialing"}
    BY <1>0, <1>2, <1>5, <1>9, <2>3 DEF TaskPart
  <2> QED
    BY <2>1, <2>2, <2>3
<1>10. CASE conn = "Reconnecting"
  BY <1>0, <1>2, <1>6, <1>10 DEF NoStandoff, TaskPart, TaskTypes
<1>11. CASE conn = "Stopped"
  BY <1>0, <1>2, <1>7, <1>11 DEF NoStandoff, TaskPart, TaskTypes
<1>12. CASE conn \in ShutKinds
  BY <1>0, <1>2, <1>8, <1>12 DEF NoStandoff, TaskPart, TaskTypes, ShutKinds
<1> QED
  BY <1>0, <1>9, <1>10, <1>11, <1>12 DEF ShutKinds
=============================================================================
