------------------------------ MODULE MCPipes ------------------------------
(* What carries bytes and messages under the bridges, one part in each     *)
(* behaviour: the in-process inbox, a connection's queue and its loop, or  *)
(* the decoder of a byte stream.  The other parts then do not move.        *)
EXTENDS MemoryInbox, WritePump, FrameDecoder

VARIABLE part

pipeVars == <<part, inboxVars, pumpVars, frameVars>>

MCPieces == {<<"C2", "n">>, <<"C3", "r", "n">>, <<"r", "n">>, <<"n">>, <<"x">>, <<":", "x">>, <<"C0">>,
             <<"C4", "n">>, <<"C2", "n", "n">>}
MCBodies == [Pump |-> 1, Stream |-> 3, Ended |-> 3]

PipeInit ==
  /\ part \in {"Inbox", "Pump", "Frames"}
  /\ InboxInit
  /\ PumpInit /\ (part # "Pump" => io = "Stream")
  /\ FrameInit /\ (part # "Frames" => stream = <<>>)

InInbox(A) == part = "Inbox" /\ A /\ UNCHANGED <<part, pumpVars, frameVars>>
InPump(A) == part = "Pump" /\ A /\ UNCHANGED <<part, inboxVars, frameVars>>
InFrames(A) == part = "Frames" /\ A /\ UNCHANGED <<part, inboxVars, pumpVars>>

PipeNext == InInbox(InboxNext) \/ InPump(PumpNext) \/ InFrames(FrameNext)

\* A task that is woken is polled, a poll goes on to its end, and the threads run.
PipeFairness ==
  /\ WF_pipeVars(InInbox(woken /\ Poll) \/ InPump(Loops))
  /\ WF_pipeVars(InInbox(Arms) \/ InPump(Streams))
  /\ WF_pipeVars(InInbox(Watches) \/ InPump(Finishes("host")))
  /\ WF_pipeVars(InPump(Finishes("worker")))

PipeSpec == PipeInit /\ [][PipeNext]_pipeVars /\ PipeFairness
----------------------------------------------------------------------------
\* What is sent is delivered, written or noticed: the inbox is polled for it and the loop turns for
\* it, neither of which asks of its own accord.
PipesRun == InboxWakes /\ PumpRuns
=============================================================================
