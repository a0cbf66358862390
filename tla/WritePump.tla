------------------------------ MODULE WritePump ------------------------------
(***************************************************************************)
(* One connection's way out and in: transport/writer.rs's queue with its   *)
(* hung-server guard, and what drains it: the writer thread of a byte      *)
(* stream (Outgoing::write), or the readiness loop of a native WebSocket   *)
(* (websocket/native/pump.rs), which also reads.                           *)
(*                                                                         *)
(* The loop's poll is edge-triggered: an edge is announced once, and lost  *)
(* with the poll that returns it.                                          *)
(***************************************************************************)
EXTENDS Integers, Sequences, FiniteSetsExt, SequencesExt

CONSTANTS
  Lengths,       \* lengths of bodies
  Limit,         \* Settings::backlog
  Room,          \* frames the kernel's send buffer takes
  ReadBudget,    \* READ_BUDGET
  MaxBodies,     \* bound: bodies the senders send over each kind of io
  MaxInput       \* bound: frames the server sends

ASSUME PumpAssumption ==
  /\ Limit \in Nat /\ Lengths \subseteq Nat \ {0}
  /\ {Room, ReadBudget} \subseteq Nat \ {0} /\ MaxInput \in Nat /\ MaxBodies \in [{"Pump", "Stream", "Ended"} -> Nat]

VARIABLES
  io,          \* "Pump" or "Stream"; "Ended" once its thread has ended
  sender,      \* what each sender is at
  posted,      \* how many bodies the senders were given to send
  queue,       \* the channel: lengths of bodies, or 0 for Item::Close
  unwritten,   \* Backlog::unwritten
  tripped,     \* Backlog::tripped
  notices,     \* what the worker was told, in order
  held,        \* a body the writer thread has taken and not written, or 0
  buffer,      \* tungstenite's write buffer: "Body", "Close" or "Pong" frames
  kernel,      \* frames in the kernel's send buffer
  pc,          \* where the loop is: Write, Read or Poll
  turn,        \* what the loop's turn has seen: written, drained and flushed, and the reads it made
  close,       \* Close
  interest,    \* the socket is registered for writability too
  edges,       \* edges announced and not yet returned: Wake, Readable and Writable
  abort,       \* Command::Abort is in the channel of commands
  input,       \* what the server sent and the loop has not read: "Text", "Ping"
  sentIn       \* frames the server has sent

sendVars == <<sender, posted>>
guardVars == <<queue, unwritten, tripped, notices>>
loopVars == <<pc, turn, close, interest, abort>>
pumpVars == <<io, sendVars, guardVars, held, buffer, kernel, loopVars, edges, input, sentIn>>

\* The threads that hold a clone of the Writer.
Senders == {"host", "worker"}

Idle == [at |-> "Idle", length |-> 0, seen |-> 0]
NewTurn == [written |-> "Done", drained |-> "Idle", flushed |-> "Done", reads |-> 0]

PumpInit ==
  /\ io \in {"Pump", "Stream"}
  /\ sender = [s \in Senders |-> Idle] /\ posted = 0
  /\ queue = <<>> /\ unwritten = 0 /\ tripped = FALSE /\ notices = <<>>
  /\ held = 0 /\ buffer = <<>> /\ kernel = 0
  /\ pc = "Write" /\ turn = NewTurn /\ close = "Open" /\ interest = FALSE /\ abort = FALSE
  /\ edges = {} /\ input = <<>> /\ sentIn = 0

----------------------------------------------------------------------------
\* Writer::send, one shared thing at a step. Link::send then wakes the loop of a WebSocket.
Woken == IF io = "Pump" THEN edges \cup {"Wake"} ELSE edges

Send(s, length) ==
  /\ sender[s].at = "Idle" /\ posted < MaxBodies[io]
  /\ posted' = posted + 1
  /\ IF tripped THEN edges' = Woken /\ UNCHANGED sender
     ELSE sender' = [sender EXCEPT ![s] = [at |-> "Count", length |-> length, seen |-> 0]] /\ UNCHANGED edges
  /\ UNCHANGED guardVars

CountBody(s, at, next) ==
  /\ sender[s].at = at
  /\ unwritten' = unwritten + sender[s].length
  /\ sender' = [sender EXCEPT ![s].at = next, ![s].seen = unwritten']
  /\ UNCHANGED <<posted, queue, tripped, notices, edges>>

\* The send fails once the thread that drains the queue is gone; the count is then given back.
QueueBody(s, at, next) ==
  /\ sender[s].at = at
  /\ IF io = "Ended"
     THEN /\ unwritten' = unwritten - sender[s].length
          /\ sender' = [sender EXCEPT ![s] = Idle]
          /\ UNCHANGED queue
     ELSE /\ queue' = Append(queue, sender[s].length)
          /\ sender' = [sender EXCEPT ![s].at = next]
          /\ UNCHANGED unwritten
  /\ UNCHANGED <<posted, tripped, notices, edges>>

\* A defect: a body is counted once it is queued, when it may be written already.
QueueFirst(s) == QueueBody(s, "Count", "Queue") \/ CountBody(s, "Queue", "Check")

\* "Counted before the send and given back after the write, so the count never goes below zero."
CountAndQueue(s) == CountBody(s, "Count", "Queue") \/ QueueBody(s, "Queue", "Check")

\* A defect: whoever sees a count past the limit tells the worker.
CheckEach(s) ==
  /\ sender[s].at = "Check"
  /\ tripped' = (tripped \/ sender[s].seen > Limit)
  /\ notices' = IF sender[s].seen > Limit THEN Append(notices, "Backlog") ELSE notices
  /\ sender' = [sender EXCEPT ![s] = Idle]
  /\ edges' = Woken
  /\ UNCHANGED <<posted, queue, unwritten>>

CheckBacklog(s) ==
  /\ sender[s].at = "Check"
  /\ tripped' = (tripped \/ sender[s].seen > Limit)
  /\ notices' = IF sender[s].seen > Limit /\ ~tripped THEN Append(notices, "Backlog") ELSE notices
  /\ sender' = [sender EXCEPT ![s] = Idle]
  /\ edges' = Woken
  /\ UNCHANGED <<posted, queue, unwritten>>

\* Link::close: the worker's, behind its last message.
CloseInput ==
  /\ sender["worker"] = Idle /\ io # "Ended" /\ close = "Open"
  /\ \A k \in DOMAIN queue : queue[k] # 0
  /\ queue' = Append(queue, 0)
  /\ sender' = [sender EXCEPT !["worker"].at = "Check"]
  /\ UNCHANGED <<posted, unwritten, tripped, notices, edges>>

Begins == CloseInput \/ \E s \in Senders, l \in Lengths : Send(s, l)

OnlySends == UNCHANGED <<io, held, buffer, kernel, loopVars, input, sentIn>>
Finishes(s) == (CountAndQueue(s) \/ CheckBacklog(s)) /\ OnlySends
Sends == (Begins /\ OnlySends) \/ \E s \in Senders : Finishes(s)

----------------------------------------------------------------------------
\* Outgoing::write, the writer thread of a byte stream: each body in one write that blocks.
TakeItem ==
  /\ io = "Stream" /\ held = 0 /\ queue # <<>>
  /\ queue' = Tail(queue)
  /\ IF Head(queue) = 0 THEN io' = "Ended" /\ UNCHANGED held ELSE held' = Head(queue) /\ UNCHANGED io
  /\ UNCHANGED <<unwritten, tripped, notices, kernel>>

WriteAll ==
  /\ io = "Stream" /\ held # 0
  /\ held' = 0 /\ unwritten' = unwritten - held
  /\ \/ kernel < Room /\ kernel' = kernel + 1 /\ UNCHANGED <<io, notices>>
     \/ io' = "Ended" /\ notices' = Append(notices, "WriteFailed") /\ UNCHANGED kernel
  /\ UNCHANGED <<queue, tripped>>

Streams ==
  /\ TakeItem \/ WriteAll
  /\ UNCHANGED <<sendVars, buffer, loopVars, edges, input, sentIn>>

----------------------------------------------------------------------------
\* Pump::flush: what the kernel takes of tungstenite's buffer, and whether that was all.
Fits == IF Len(buffer) <= Room - kernel THEN Len(buffer) ELSE Room - kernel
Left == SubSeq(buffer, Fits + 1, Len(buffer))
Flush == IF Fits = Len(buffer) THEN "Done" ELSE "Blocked"

\* Pump::command: an abort ends the thread, silently; a close that is due is sent. Nothing another
\* thread does between the phases of a turn tells one step from two, so this one ends the writing.
Command(written, due, frames) ==
  /\ IF abort THEN io' = "Ended" /\ close' = due /\ buffer' = frames /\ UNCHANGED <<pc, turn>>
     ELSE /\ pc' = "Read" /\ turn' = [turn EXCEPT !.written = written]
          /\ close' = IF due = "Requested" THEN "Sent" ELSE due
          /\ buffer' = IF due = "Requested" THEN Append(frames, "Close") ELSE frames
          /\ UNCHANGED io

\* One pass of Pump::write: flush, then the next item. A frame that would block is buffered.
WriteBlocked ==
  /\ Flush = "Blocked"
  /\ kernel' = kernel + Fits
  /\ Command("Blocked", close, Left)
  /\ UNCHANGED <<queue, unwritten>>

WriteOver ==
  /\ Flush = "Done" /\ (close # "Open" \/ queue = <<>>)
  /\ kernel' = kernel + Fits
  /\ Command("Done", close, <<>>)
  /\ UNCHANGED <<queue, unwritten>>

WriteClose ==
  /\ Flush = "Done" /\ close = "Open" /\ queue # <<>> /\ Head(queue) = 0
  /\ queue' = Tail(queue)
  /\ kernel' = kernel + Fits
  /\ Command("Done", "Requested", <<>>)
  /\ UNCHANGED unwritten

WriteBody ==
  /\ Flush = "Done" /\ close = "Open" /\ queue # <<>> /\ Head(queue) # 0
  /\ queue' = Tail(queue) /\ unwritten' = unwritten - Head(queue)
  /\ kernel' = kernel + Fits
  /\ \/ buffer' = <<"Body">> /\ UNCHANGED <<io, pc, turn, close>>
     \/ kernel' = Room /\ Command("Blocked", close, <<"Body">>)

Writes ==
  /\ io = "Pump" /\ pc = "Write"
  /\ WriteBlocked \/ WriteOver \/ WriteClose \/ WriteBody
  /\ UNCHANGED <<tripped, notices, interest, abort, edges, input>>

\* Pump::flush, so that pongs and the close go out before the loop sleeps, and Pump::register, which
\* asks for writability exactly while that blocked. Registering anew announces what is there again.
Settle(drained) ==
  /\ buffer' = Left /\ kernel' = kernel + Fits
  /\ pc' = "Poll" /\ turn' = [turn EXCEPT !.drained = drained, !.flushed = Flush]
  /\ interest' = (Flush = "Blocked")
  /\ edges' = IF interest' = interest THEN edges
              ELSE edges \cup (IF input # <<>> THEN {"Readable"} ELSE {})
                         \cup (IF interest' /\ kernel' < Room THEN {"Writable"} ELSE {})
  /\ UNCHANGED <<io, notices, input>>

\* One pass of Pump::read. A ping is answered by tungstenite, in its buffer; a server that is gone
\* ends the thread, which says so.
ReadFrame ==
  /\ Head(input) # "Gone"
  /\ input' = Tail(input)
  /\ turn' = [turn EXCEPT !.reads = @ + 1]
  /\ buffer' = IF Head(input) = "Ping" THEN Append(buffer, "Pong") ELSE buffer
  /\ UNCHANGED <<io, pc, notices, kernel, interest, edges>>

ReadGone ==
  /\ Head(input) = "Gone"
  /\ io' = "Ended" /\ notices' = Append(notices, "Ended")
  /\ UNCHANGED <<pc, turn, buffer, input, kernel, interest, edges>>

Reads ==
  /\ io = "Pump" /\ pc = "Read"
  /\ \/ turn.reads = ReadBudget /\ Settle("Budget")
     \/ turn.reads < ReadBudget /\ input = <<>> /\ Settle("Idle")
     \/ turn.reads < ReadBudget /\ input # <<>> /\ (ReadFrame \/ ReadGone)
  /\ UNCHANGED <<queue, unwritten, tripped, close, abort>>

\* A defect: only the read phase asks for another turn.
AgainForReads == turn.drained = "Budget"

\* "A read stopped by the budget may leave data no new edge announces, and messages behind a write
\* that blocked and then flushed get no wake either."
Again == turn.drained = "Budget" \/ (turn.written = "Blocked" /\ turn.flushed = "Done")

PollReturns ==
  /\ io = "Pump" /\ pc = "Poll" /\ (Again \/ edges # {})
  /\ edges' = {} /\ pc' = "Write" /\ turn' = NewTurn
  /\ UNCHANGED <<io, guardVars, buffer, kernel, close, interest, abort, input>>

Loops ==
  /\ Writes \/ Reads \/ PollReturns
  /\ UNCHANGED <<sendVars, held, sentIn>>

----------------------------------------------------------------------------
\* The worker: Connection::end sends the abort and wakes the loop.
Abort ==
  /\ io = "Pump" /\ ~abort
  /\ abort' = TRUE /\ edges' = edges \cup {"Wake"}
  /\ UNCHANGED <<io, sendVars, guardVars, held, buffer, kernel, pc, turn, close, interest,
                 input, sentIn>>

\* The server, which reads what the kernel holds, or stops to, sends, and goes.
ServerReads ==
  /\ kernel > 0
  /\ kernel' = kernel - 1
  /\ edges' = IF io = "Pump" /\ interest /\ kernel = Room THEN edges \cup {"Writable"} ELSE edges
  /\ UNCHANGED <<io, sendVars, guardVars, held, buffer, loopVars, input, sentIn>>

ServerSends ==
  /\ io = "Pump" /\ sentIn < MaxInput
  /\ "Gone" \notin ToSet(input)
  /\ sentIn' = sentIn + 1
  /\ \E frame \in {"Text", "Ping", "Gone"} : input' = Append(input, frame)
  /\ edges' = edges \cup {"Readable"}
  /\ UNCHANGED <<io, sendVars, guardVars, held, buffer, kernel, loopVars>>

Servers == ServerReads \/ ServerSends

PumpNext == Sends \/ Streams \/ Loops \/ Abort \/ Servers

----------------------------------------------------------------------------
PumpSpec == PumpInit /\ [][PumpNext]_pumpVars

\* Writer's count between several senders and the thread that drains the queue: it is what is
\* queued, about to be, or taken and not yet written, never less.
Pending == {s \in Senders : sender[s].at = "Queue"}
GuardIsExact ==
  io # "Ended" =>
    unwritten = SumFunction(queue) + held
                  + SumFunctionOnSet([s \in Senders |-> sender[s].length], Pending)

\* Writer::send's guard is tested on a count that others have changed since: still, a count past the
\* limit has tripped it or is about to, by a sender that saw one past the limit, and the worker is
\* told of it once, however many saw one.
GuardTrips ==
  /\ unwritten > Limit /\ io # "Ended" =>
       tripped \/ \E s \in Senders : sender[s].at \in {"Queue", "Check"} /\ sender[s].seen > Limit
  /\ tripped <=> \E k \in DOMAIN notices : notices[k] = "Backlog"
  /\ \A j, k \in DOMAIN notices : notices[j] = "Backlog" /\ notices[k] = "Backlog" => j = k

\* What the guard goes by has its type; the count may not be negative, but nothing here rests on that.
GuardTypes ==
  /\ io \in {"Pump", "Stream", "Ended"}
  /\ sender \in [Senders -> [at : {"Idle", "Count", "Queue", "Check"}, length : Nat, seen : Int]]
  /\ queue \in Seq(Nat) /\ held \in Nat /\ unwritten \in Int
  /\ notices \in Seq({"Backlog", "WriteFailed", "Ended"}) /\ tripped \in BOOLEAN

GuardInv == GuardTypes /\ GuardTrips

\* The loop sleeps on edges alone and loses none that matters: what is queued is written while the
\* server reads, what the server sends is delivered, a close follows the bodies ahead of it, and an
\* abort ends the thread whatever the server does.
PumpRuns ==
  /\ WF_pumpVars(ServerReads) =>
       /\ queue # <<>> ~> (queue = <<>> \/ close # "Open" \/ io = "Ended")
       /\ buffer # <<>> ~> (buffer = <<>> \/ io = "Ended")
  /\ input # <<>> ~> (input = <<>> \/ io # "Pump")
  /\ abort ~> io # "Pump"
=============================================================================
