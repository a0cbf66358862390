---------------------------- MODULE StdioBridge ----------------------------
(***************************************************************************)
(* A Client over the stdio bridge: ClientRecovery and StdioSupervisor on   *)
(* their shared channels, with what has to hold between the two.           *)
(***************************************************************************)
EXTENDS ClientRecovery, StdioSupervisor

vars == <<clientVars, supVars, serverVars, channelVars>>

Init ==
  /\ ClientInit /\ SupInit
  /\ notices = <<>> /\ events = <<>> /\ sent = {<<0, "initialize">>}

Next ==
  \/ ClientNext /\ UNCHANGED <<supVars, serverVars>>
  \/ (SupervisorNext \/ ServerNext) /\ UNCHANGED clientVars

Spec == Init /\ [][Next]_vars

\* The threads run: the supervisor takes notices and its timers run out, the host polls Events
\* and receives what it polled, restart() returns. A server that is asked answers, and a reader
\* whose pipe has bytes reads them. Nothing says a server ever exits by itself, that the host
\* ever calls anything, or that a pipe ever ends.
Fairness ==
  /\ WF_vars(TakeNotice /\ UNCHANGED clientVars)
  /\ WF_vars((ExitSeen \/ DrainDone \/ ReplyExpires \/ ClosingOver) /\ UNCHANGED clientVars)
  /\ WF_vars(BackoffDone /\ UNCHANGED clientVars)
  /\ WF_vars(Poll /\ UNCHANGED <<supVars, serverVars>>)
  /\ WF_vars(Receive /\ UNCHANGED <<supVars, serverVars>>)
  /\ WF_vars(RestartReturn /\ UNCHANGED <<supVars, serverVars>>)
  /\ WF_vars(ServerAnswers /\ UNCHANGED clientVars)
  /\ WF_vars(ReaderDelivers /\ UNCHANGED clientVars)

FairSpec == Spec /\ Fairness

----------------------------------------------------------------------------
\* Every variable has its type.
TypeOK == ChannelTypes /\ ClientTypes /\ SupTypes /\ ServerTypes

\* The debug_assert of Supervisor::control: a Restart the client sent is never behind the
\* generation the supervisor reached by the time it reads it, whatever losses, stops and failed
\* attempts the supervisor ran ahead with meanwhile.
NeverBehind ==
  \A i \in 1..Len(notices) : notices[i].type = "Restart" => notices[i].gen >= supGen

\* "It runs ahead of the client by at most one, after a loss, and then waits for the client's
\* answer" (Supervisor::generation).
OneAhead ==
  /\ supGen <= clientGen + 1
  /\ supGen = clientGen + 1 => sup \in {"Waiting", "Done"}

\* Two servers never run at once, and none runs that the supervisor does not hold: no path
\* through a loss, a stop, a restart or a shutdown leaves a process behind.
NoOrphan == procs \subseteq (IF sup \in {"Live", "Closing"} THEN {child} ELSE {})

\* The shutdown request only ever goes to a server that answered initialize (anything before that
\* is a protocol error), although what the supervisor acts on is what the client believed of the
\* handshake when it said goodbye, of a connection that may have been replaced since.
PoliteGoodbye == \A g \in {pair[1] : pair \in sent} : <<g, "shutdown">> \in sent => g \in acked

\* "No restart before the first successful initialize: a server that can't start once stops at
\* once" (Client::decide). Unless the host asks for a restart, no second server is started.
StopsAtOnce == handshaken \/ calls > 0 \/ (child = 0 /\ sup # "Backoff")

\* Nothing is on its way between the client and its supervisor.
Quiet ==
  notices = <<>> /\ events = <<>> /\ local = <<>> /\ inbox = <<>> /\ ~calling /\ ~dropped

\* The two halves never wait for each other: once every message is delivered, a client that
\* expects a server has one running or being retried, under the generation it will accept; a
\* client that let it go has a supervisor that still hears restart(); and after shutdown the
\* supervisor is on its way out.
NoStandoff ==
  Quiet =>
    CASE conn = "Live"         -> sup \in {"Live", "Draining"} /\ child = link
      [] conn = "Reconnecting" -> sup = "Backoff" /\ supGen = clientGen
      [] conn = "Stopped"      -> \/ sup \in {"Idle", "Waiting"} /\ supGen = clientGen
                                  \/ sup = "Closing" /\ ending = "Idle" /\ supGen = clientGen
      [] OTHER                 -> \/ sup = "Closing" /\ ending = "Stopped"
                                  \/ sup = "Done" /\ status = StoppedBy("Shutdown")

\* "after shutdown(), a server that is lost or comes back changes nothing" (Client::receive): a
\* shut client sends no more decisions to the worker and never connects again.
StaysShut ==
  conn \in ShutKinds =>
    /\ conn' \in ShutKinds
    /\ clientGen' = clientGen
    /\ \A i \in 1..Len(notices') :
         notices'[i].type \in ControlTypes => \E j \in 1..Len(notices) : notices[j] = notices'[i]

ShutIsFinal == [][StaysShut]_vars

----------------------------------------------------------------------------
\* The server processes as one slot: OneServer says what the bridge promises of it.
Servers == INSTANCE OneServer WITH newest <- child, running <- procs, over <- sup = "Done"

\* However losses, stops, restarts and a shutdown interleave, servers run one at a time, each
\* under a generation newer than the last, and none starts once the supervisor is done.
RunsOneServer == Servers!Spec

----------------------------------------------------------------------------
\* Why NeverBehind holds, as an inductive invariant.

\* A restart in the inbox is ahead of the supervisor, unless a loss just took the supervisor to
\* the same generation, where it waits.
RestartsAreAhead ==
  \A i \in 1..Len(notices) :
    notices[i].type = "Restart" =>
      supGen < notices[i].gen \/ (supGen = notices[i].gen /\ sup \in {"Waiting", "Done"})

\* The last process started under the supervisor's generation or an older one; a supervisor that
\* may start another without being told the generation has moved past it.
ChildIsBehind ==
  /\ child <= supGen
  /\ sup \in {"Waiting", "Backoff"} => child < supGen

IInv ==
  /\ TypeOK
  /\ OneAhead
  /\ ToldIsReached /\ RestartsAreNewer /\ RestartsAreAhead
  /\ ChildIsBehind
  /\ NoOrphan

----------------------------------------------------------------------------
\* Why PoliteGoodbye holds: whoever believes that a server answered initialize heard it from that
\* server, and what it heard is true for ever.

\* The supervisor's generation is that of the process it holds.
HeldIsCurrent == sup \in {"Live", "Draining"} => child = supGen

\* A reply to initialize is the server's own, in its pipe and on the way to the client.
RepliesAreTrue ==
  /\ \A reply \in pipe : reply[2] = "initialized" => reply[1] \in acked
  /\ \A e \in InFlight : e.type = "Message" /\ e.arg = "initialized" => e.gen \in acked
  /\ \A e \in Carried(local) : e.type = "Status"

\* A session that runs was answered by its server, and so was one said goodbye to as done.
BeliefIsTrue ==
  /\ session = "Running" => link \in acked
  /\ \A n \in Carried(notices) : n.type = "Shutdown" /\ n.done => n.gen \in acked

HandshakeInv == HeldIsCurrent /\ RepliesAreTrue /\ BeliefIsTrue /\ PoliteGoodbye

\* Why StopsAtOnce holds: before the first handshake and the first call of restart() nothing tells
\* the supervisor to start a server.
FirstServerInv ==
  ~handshaken /\ calls = 0 =>
    /\ child = 0 /\ sup # "Backoff"
    /\ \A n \in Carried(notices) : n.type \notin {"Reconnect", "Restart"}

----------------------------------------------------------------------------
\* Why NoStandoff holds: what each half waits for is on its way.

\* A report on its way is of a generation the supervisor has reached; one of an attempt came before
\* the loss it waits on, one of a connection before any it has yet to start.
ReportsAreOld ==
  \A e \in InFlight :
    /\ e.type \in {"Lost", "Attempting"} => e.gen <= supGen
    /\ e.type = "Attempting" /\ sup = "Waiting" => e.gen < supGen
    /\ e.type = "Reconnected" => e.gen <= child
    /\ e.type = "Stopped" => e.arg = "Shutdown"

\* As long as it has not, the supervisor has not gone, and is not about to.
GoneOnlyWhenTold ==
  AtWork =>
    /\ sup # "Done" /\ ~(sup = "Closing" /\ ending = "Stopped")
    /\ \A n \in Carried(notices) : n.type # "Shutdown"
    /\ \A e \in InFlight : e.type # "Stopped"

\* A loss the client has not heard of: the supervisor waits ahead of it.
LossComing == sup = "Waiting" /\ supGen = clientGen + 1 /\ \E e \in InFlight : e.type = "Lost" /\ e.gen = supGen

\* With every decision heard, the supervisor does what the client expects, or tells it otherwise.
HeardMeansDone ==
  AtWork /\ Decisions = {} =>
    \/ conn \in {"Live", "Reconnecting"} /\ LossComing
    \/ conn = "Live" /\ sup \in {"Live", "Draining"} /\ supGen = clientGen
    \/ conn = "Reconnecting" /\ sup = "Backoff" /\ supGen = clientGen
    \/ /\ conn = "Reconnecting" /\ sup \in {"Live", "Draining"} /\ supGen = clientGen
       /\ \E e \in InFlight : e.type = "Reconnected" /\ e.gen = clientGen
    \/ conn = "Stopped" /\ sup \in {"Idle", "Waiting", "Closing"} /\ supGen = clientGen

\* With one on its way, the supervisor is where that decision will move it as the client expects.
UnheardWillDo ==
  AtWork /\ Decisions # {} =>
    \/ conn = "Reconnecting" /\ Tell("Restart", clientGen) \in Decisions
    \/ /\ conn = "Reconnecting" /\ Decisions = {Tell("Reconnect", clientGen)}
       /\ sup = "Waiting" /\ supGen = clientGen
    \/ /\ conn = "Stopped" /\ Decisions = {Tell("Stop", clientGen - 1)}
       /\ \/ supGen = clientGen - 1 /\ sup \in {"Live", "Draining", "Waiting", "Backoff"}
          \/ supGen = clientGen /\ sup = "Waiting"

\* A client that said goodbye is answered.
GoodbyeIsAnswered ==
  conn \in ShutKinds /\ ~dropped =>
    \/ \E n \in Carried(notices) : n.type = "Shutdown"
    \/ sup = "Closing" /\ ending = "Stopped"
    \/ sup = "Done" /\ (status = StoppedBy("Shutdown") \/ \E e \in InFlight : e.type = "Stopped")

StandoffInv ==
  /\ LetGoBeforeReconnect /\ LinkIsCurrent
  /\ OnlyRestartsFollow /\ ReportsAreOld /\ GoneOnlyWhenTold
  /\ HeardMeansDone /\ UnheardWillDo /\ GoodbyeIsAnswered

\* All of it.
Inv == IInv /\ HandshakeInv /\ FirstServerInv /\ StandoffInv

----------------------------------------------------------------------------
\* A lost server is always decided on: it comes back, or the client stops. No lost answer, no
\* race of a loss with a restart leaves the client reconnecting for ever.
ReconnectingEnds == conn = "Reconnecting" ~> (conn # "Reconnecting" \/ dropped)

\* Dropping the client or shutting it down takes the server process with it, whatever state the
\* supervisor was in and however deaf the server is.
ServerGoesToo == (conn \in ShutKinds \/ dropped) ~> (sup = "Done" /\ procs = {})

\* "Status::Stopped(Reason::Shutdown) follows through Events" (Client::shutdown).
ShutdownIsReported == conn \in ShutKinds ~> (reported = StoppedBy("Shutdown") \/ dropped)

\* Losses, shutdowns and drops come to their ends: the three of them.
RecoveryEnds == ReconnectingEnds /\ ServerGoesToo /\ ShutdownIsReported

----------------------------------------------------------------------------
\* What a status says of the bridge: a running server answered initialize and is the one the
\* supervisor holds; after a stop none runs that is not on its way out, and none comes by itself;
\* the first server is still starting; another comes, or came and has not answered.
SaysTheTruth(s) ==
  CASE s.kind = "Running"  -> sup \in {"Live", "Draining"} /\ child = link /\ link \in acked
    [] s.kind = "Stopped"  -> sup \in {"Idle", "Waiting", "Closing"} /\ procs \subseteq {child}
    [] s.kind = "Starting" -> sup \in {"Live", "Draining"} /\ child = 0 /\ calls = 0
    [] OTHER               -> sup \in {"Live", "Draining", "Backoff"} /\ session # "Running"

\* Whatever losses, stops and restarts crossed, Client::status describes the bridge once nothing is
\* on its way, and the host was told it: the one update that may be out of date is Restarting(1)
\* from restart() itself, which is queued after the worker was told and can be overtaken by what
\* the worker reports.
HostIsTold ==
  Quiet /\ conn \notin ShutKinds =>
    /\ SaysTheTruth(status)
    /\ reported = status \/ (calls > 0 /\ reported = Restarting(1))

----------------------------------------------------------------------------
\* Why it holds: the status follows the connection and its session, and what it became was
\* returned, or is restart()'s announcement on its way.
StatusFits ==
  conn \notin ShutKinds =>
    /\ status.kind = "Running" <=> conn = "Live" /\ session = "Running"
    /\ status.kind = "Stopped" <=> conn = "Stopped"
    /\ status.kind = "Starting" => conn = "Live" /\ link = 0 /\ calls = 0

AnnouncementComing == calling \/ \E e \in Carried(local) \cup InFlight : e.type = "Status"

StatusInv ==
  /\ StatusFits
  /\ AnnouncementComing => calls > 0
  /\ reported = status \/ AnnouncementComing \/ (calls > 0 /\ reported = Restarting(1))
=============================================================================
