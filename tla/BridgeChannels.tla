--------------------------- MODULE BridgeChannels ---------------------------
(***************************************************************************)
(* The two channels between a matcha-lsp Client and the worker of its      *)
(* bridge, and what one server connection has been sent.                   *)
(*                                                                         *)
(*   notices  the worker's inbox (std mpsc): what the client decided, and  *)
(*            what the reader and writer threads of a connection noticed.  *)
(*   events   the bridge's unbounded feed to the Events stream.            *)
(*   sent     <<generation, message>> pairs: the handshake and shutdown    *)
(*            messages queued so far on a connection's outgoing link.      *)
(*                                                                         *)
(* Document traffic, log lines and traces move no state of the lifecycle   *)
(* and are left out. A message is a record whose fields every kind shares; *)
(* "done" and "arg" are fillers where a kind does not use them.            *)
(***************************************************************************)
EXTENDS Integers, Sequences

VARIABLES notices, events, sent

channelVars == <<notices, events, sent>>

\* Which connection something belongs to; FIRST is 0 and next() adds one.
Generation == Nat

Reasons ==
  {"Shutdown", "Initialize", "Exited", "Closed", "Failed", "Unresponsive", "Timeout", "GaveUp"}

ControlTypes == {"Shutdown", "Handshaken", "Reconnect", "Stop", "Restart"}
ThreadTypes  == {"Ended", "WriteFailed", "Backlog", "Replied"}

Notice == [type : ControlTypes \cup ThreadTypes, gen : Generation, done : BOOLEAN]

\* Lifecycle::{Handshaken, Reconnect, Stop, Restart}(generation), and the thread notices.
Tell(type, g) == [type |-> type, gen |-> g, done |-> FALSE]

\* Lifecycle::Shutdown { generation, handshake }; "done" is Handshake::Done.
Goodbye(g, done) == [type |-> "Shutdown", gen |-> g, done |-> done]

\* What a server's messages can be here: the reply to initialize (a result or an error), and
\* the reply to the shutdown request.
Replies == {"initialized", "refused", "bye"}

Event ==
  [type : {"Message"}, gen : Generation, arg : Replies]
    \cup [type : {"Lost", "Stopped"}, gen : Generation, arg : Reasons]
    \cup [type : {"Attempting", "Reconnected", "Status"}, gen : Generation, arg : {"none"}]

Report(type, g, arg) == [type |-> type, gen |-> g, arg |-> arg]

Wire == {"initialize", "shutdown", "exit"}

\* The messages on their way in a queue.
Carried(queue) == {queue[i] : i \in 1..Len(queue)}

ChannelTypes ==
  /\ notices \in Seq(Notice)
  /\ events \in Seq(Event)
  /\ sent \in SUBSET (Generation \X Wire)
=============================================================================
