-------------------------- MODULE MCSocketBridges --------------------------
(* The bridges to a server behind a socket, one of them in each behaviour: *)
(* mode is "Browser" where the browser's task is what the client has, and  *)
(* the variables of the other bridge then stay as they are.                *)
EXTENDS SocketBridge

VARIABLES taskGen, task, sockets, socketGen, phase, opened, signals

pageVars == <<taskGen, task, sockets, socketGen, phase, opened, signals>>
nativeVars == <<mode, workerGen, worker, tried, cause, hungUp, open, peers, reading>>
allVars == <<vars, pageVars>>

Browser == INSTANCE BrowserBridge WITH Timed <- TRUE

OnPage == mode = "Browser"

AnyInit ==
  \/ /\ Init
     /\ taskGen = 0 /\ task = "Done" /\ sockets = 0 /\ socketGen = 0 /\ phase = "None"
     /\ opened = -1 /\ signals = <<>>
  \/ /\ mode = "Browser"
     /\ Browser!Init
     /\ workerGen = 0 /\ worker = "Done" /\ tried = FALSE /\ cause = "Closed" /\ hungUp = FALSE
     /\ open = {} /\ peers = {} /\ reading = {}

AnyNext ==
  \/ ~OnPage /\ Next /\ UNCHANGED pageVars
  \/ OnPage /\ Browser!Next /\ UNCHANGED nativeVars

\* The threads run, as in StdioBridge, and so do the page's callbacks and tasks. A dial ends one
\* way or the other, and so does its budget; a timer that is set fires; a server answers what it
\* is asked. Nothing says a server ever dials in to a listener.
ByWorker(A) == ~OnPage /\ A /\ UNCHANGED <<mode, clientVars, pageVars>>
ByTask(A) == OnPage /\ A /\ UNCHANGED <<clientVars, nativeVars>>
ByHost(A) == A /\ UNCHANGED <<workerVars, peerVars, mode, pageVars>>

AnyFairness ==
  /\ WF_allVars(ByWorker(TakeNotice) \/ ByTask(Browser!TakeControl))
  /\ WF_allVars(ByWorker(DialUp \/ DialGivesUp) \/ ByTask(Browser!SocketOpens \/ Browser!AttemptTimesOut))
  /\ WF_allVars(ByWorker(DrainDone \/ Redial \/ ReplyExpires \/ ClosingOver)
                  \/ ByTask(Browser!Dial \/ Browser!Redial \/ Browser!StepExpires))
  /\ WF_allVars(ByWorker(PeerAnswers) \/ ByTask(Browser!PeerAnswers))
  /\ WF_allVars(ByWorker(ReaderDelivers) \/ ByTask(Browser!MessageComes))
  /\ WF_allVars(ByTask(Browser!TakeSignals))
  /\ WF_allVars(ByHost(Poll))
  /\ WF_allVars(ByHost(Receive))
  /\ WF_allVars(ByHost(RestartReturn))

AnySpec == AnyInit /\ [][AnyNext]_allVars /\ AnyFairness

----------------------------------------------------------------------------
\* Whatever carries the socket: the order of generations, the manners of a shutdown, and that a
\* client is told of a connection before it hears of it.
AnySafety == IF OnPage THEN Browser!BrowserSafety ELSE SocketSafety

\* The two halves never wait for each other.
AnyStandoff == IF OnPage THEN Browser!NoStandoff ELSE NoStandoff

\* The connections as one slot of OneServer.
Slots == INSTANCE OneServer
  WITH newest  <- IF OnPage THEN opened ELSE socket,
       running <- IF ~OnPage THEN open ELSE IF phase = "Open" THEN {socketGen} ELSE {},
       over    <- IF OnPage THEN task = "Done" ELSE worker = "Done"

\* One connection is up at a time, each under a generation newer than the last, and none once the
\* bridge is done.
AnyRunsOneConnection == Slots!Spec

\* A client that waits for its server again gets it or stops; one that is dropped or shut down
\* takes its worker or task, and the socket, with it.
AnyLiveness ==
  /\ conn = "Reconnecting" ~> (conn # "Reconnecting" \/ dropped)
  /\ (conn \in ShutKinds \/ dropped) ~>
       IF OnPage THEN task = "Done" /\ phase = "None" ELSE worker = "Done" /\ open = {}

\* Why AnySafety holds, as an inductive invariant.
AnyInv == IF OnPage THEN Browser!BrowserInv ELSE SocketInv

\* Why AnyStandoff holds, as an inductive invariant on top of AnyInv.
AnyStands == IF OnPage THEN Browser!TaskStands ELSE SocketStands
=============================================================================
