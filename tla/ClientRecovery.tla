--------------------------- MODULE ClientRecovery ---------------------------
(***************************************************************************)
(* The client's half of a worker bridge's life: client.rs (the calls that  *)
(* end or restart the connection, receive, the Events stream) with         *)
(* client/recovery.rs (losing and regaining the server) and restart.rs     *)
(* (the policy).                                                           *)
(*                                                                         *)
(* The host thread owns the Client, and so every call on it is one action, *)
(* except restart(): it tells the worker before it queues its own status,  *)
(* and the worker and the thread that polls Events run in between.  Events *)
(* polled by the stream wait in inbox (the host's message queue) until the *)
(* host hands them to receive().                                           *)
(***************************************************************************)
EXTENDS BridgeChannels

CONSTANTS
  Count,        \* restart::Policy::UpTo's count
  Never,        \* whether the policy is restart::Policy::Never instead
  MaxCalls      \* bound: how many times the host calls restart()

ASSUME PolicyAssumption == Count \in Nat /\ Never \in BOOLEAN /\ MaxCalls \in Nat

VARIABLES
  conn,         \* Connection: Live, Reconnecting, Stopped, Shut(Some(_)) = ShutLinked, Shut(None) = Shut
  link,         \* the generation of the link a Live or ShutLinked connection holds
  clientGen,    \* recovery::State::generation
  handshaken,   \* recovery::State::handshake = Done
  attempt,      \* recovery::State::attempt
  losses,       \* how many losses restart::Window holds
  session,      \* session::State: Initializing, Running, Disconnected
  status,       \* Client::status
  calling,      \* restart() has told the worker and has not queued its status yet
  dropped,      \* the Client was dropped
  local,        \* the client's own queue into Events; only Restarting{1} goes in
  inbox,        \* polled from Events and not yet received
  ended,        \* Events::ended
  reported,     \* the last Update::Status receive() returned
  calls         \* restart() calls made, capped by MaxCalls

clientVars == <<conn, link, clientGen, handshaken, attempt, losses, session, status, calling,
                dropped, local, inbox, ended, reported, calls>>

Status(kind, n, reason) == [kind |-> kind, attempt |-> n, reason |-> reason]
Starting        == Status("Starting", 0, "none")
Running         == Status("Running", 0, "none")
Restarting(n)   == Status("Restarting", n, "none")
StoppedBy(why)  == Status("Stopped", 0, why)

ShutKinds == {"ShutLinked", "Shut"}

StatusValues ==
  [kind : {"Starting", "Running", "Restarting", "Stopped"}, attempt : Nat,
   reason : Reasons \cup {"none"}]

ClientTypes ==
  /\ conn \in {"Live", "Reconnecting", "Stopped"} \cup ShutKinds
  /\ link \in Generation /\ clientGen \in Generation
  /\ handshaken \in BOOLEAN /\ calling \in BOOLEAN /\ dropped \in BOOLEAN /\ ended \in BOOLEAN
  /\ attempt \in Nat /\ losses \in Nat /\ calls \in 0..MaxCalls
  /\ session \in {"Initializing", "Running", "Disconnected"}
  /\ status \in StatusValues /\ reported \in StatusValues
  /\ local \in Seq(Event) /\ inbox \in Seq(Event)

ClientInit ==
  /\ conn = "Live" /\ link = 0 /\ clientGen = 0
  /\ handshaken = FALSE /\ attempt = 0 /\ losses = 0
  /\ session = "Initializing" /\ status = Starting /\ reported = Starting
  /\ calling = FALSE /\ dropped = FALSE /\ ended = FALSE /\ calls = 0
  /\ local = <<>> /\ inbox = <<>>

----------------------------------------------------------------------------
\* restart::Window::admit. Time is the choice of "aged": whether the oldest recorded loss has
\* left the window. The loss being admitted is recorded first, so with none before it the
\* oldest is that loss itself, which has not aged.
Admit(aged) ==
  IF Never                THEN [verdict |-> "Never",     losses |-> losses]
  ELSE IF losses + 1 <= Count THEN [verdict |-> "Restart",   losses |-> losses + 1]
  ELSE IF aged /\ losses > 0  THEN [verdict |-> "Restart",   losses |-> losses]
  ELSE                             [verdict |-> "Exhausted", losses |-> losses + 1]

Told(note) == notices' = Append(notices, note)

\* A defect: the worker moves past the generation it stops, the client does not.
HaltUnbumped(g, why) ==
  /\ Told(Tell("Stop", g))
  /\ clientGen' = g
  /\ conn' = "Stopped"
  /\ status' = StoppedBy(why)

\* Client::halt: the worker must not bring generation g back, and both sides move past it.
Halt(g, why) ==
  /\ Told(Tell("Stop", g))
  /\ clientGen' = g + 1
  /\ conn' = "Stopped"
  /\ status' = StoppedBy(why)

\* Connection::holds
Holds(g) == conn \in {"Live", "ShutLinked"} /\ link = g

\* A defect: any session that was not let go of counts as answered.
HandshakeAssumed == session # "Disconnected"

\* Client::handshake: whether the worker may send the shutdown request.
Handshake == session = "Running"

----------------------------------------------------------------------------
\* The calls of the host. None runs during another call or after the drop.

Idling == ~calling /\ ~dropped

\* A defect: the worker is told before the generation moves on.
RestartCallTooSoon ==
  /\ Idling /\ conn \notin ShutKinds /\ calls < MaxCalls
  /\ calls' = calls + 1
  /\ session' = IF conn = "Live" THEN "Disconnected" ELSE session
  /\ clientGen' = clientGen + 1
  /\ conn' = "Reconnecting"
  /\ losses' = 0
  /\ attempt' = 1
  /\ Told(Tell("Restart", clientGen))
  /\ status' = Restarting(1)
  /\ calling' = TRUE
  /\ UNCHANGED <<link, handshaken, dropped, local, inbox, ended, reported, events, sent>>

\* Client::restart_worker up to and with its message to the worker.
RestartCall ==
  /\ Idling /\ conn \notin ShutKinds /\ calls < MaxCalls
  /\ calls' = calls + 1
  /\ session' = IF conn = "Live" THEN "Disconnected" ELSE session
  /\ clientGen' = clientGen + 1
  /\ conn' = "Reconnecting"
  /\ losses' = 0
  /\ attempt' = 1
  /\ Told(Tell("Restart", clientGen + 1))
  /\ status' = Restarting(1)
  /\ calling' = TRUE
  /\ UNCHANGED <<link, handshaken, dropped, local, inbox, ended, reported, events, sent>>

\* The rest of restart_worker: its status goes into the client's own queue.
RestartReturn ==
  /\ calling
  /\ local' = Append(local, Report("Status", 0, "none"))
  /\ calling' = FALSE
  /\ UNCHANGED <<conn, link, clientGen, handshaken, attempt, losses, session, status, dropped,
                 inbox, ended, reported, calls>>
  /\ UNCHANGED channelVars

\* What shutdown() and Drop tell the worker; a Shut client tells it nothing.
Farewell ==
  CASE conn = "Live"                       -> Told(Goodbye(link, Handshake))
    [] conn \in {"Reconnecting", "Stopped"} -> Told(Goodbye(clientGen, FALSE))
    [] OTHER                               -> UNCHANGED notices

\* Client::shutdown. A live connection keeps its link for the grace period.
ShutdownCall ==
  /\ Idling /\ conn \notin ShutKinds
  /\ Farewell
  /\ session' = "Disconnected"
  /\ conn' = IF conn = "Live" THEN "ShutLinked" ELSE "Shut"
  /\ UNCHANGED <<link, clientGen, handshaken, attempt, losses, status, calling, dropped, local,
                 inbox, ended, reported, calls, events, sent>>

\* Drop for Client: the same goodbye, and nothing is received any more.
DropClient ==
  /\ Idling
  /\ Farewell
  /\ dropped' = TRUE
  /\ UNCHANGED <<conn, link, clientGen, handshaken, attempt, losses, session, status, calling,
                 local, inbox, ended, reported, calls, events, sent>>

----------------------------------------------------------------------------
\* Events::poll_next: the client's own items go before the bridge's, and a stop that ends the
\* stream is its last item. Nothing is polled once the client is gone.
Poll ==
  /\ ~ended /\ ~dropped
  /\ \/ /\ local # <<>>
        /\ inbox' = Append(inbox, Head(local))
        /\ local' = Tail(local)
        /\ UNCHANGED <<events, ended>>
     \/ /\ local = <<>> /\ events # <<>>
        /\ inbox' = Append(inbox, Head(events))
        /\ events' = Tail(events)
        /\ ended' = (Head(events).type = "Stopped")
        /\ UNCHANGED local
  /\ UNCHANGED <<conn, link, clientGen, handshaken, attempt, losses, session, status, calling,
                 dropped, reported, calls, notices, sent>>

----------------------------------------------------------------------------
\* Client::receive, one action per event that matters here.

Taking(type) == Idling /\ inbox # <<>> /\ Head(inbox).type = type /\ inbox' = Tail(inbox)

\* A status change is the last update receive() returns.
Returned == reported' = status'

\* Nothing but the taken event changes.
Ignored ==
  /\ UNCHANGED <<conn, link, clientGen, handshaken, attempt, losses, session, status, calling,
                 dropped, local, ended, reported, calls>>
  /\ UNCHANGED channelVars

\* A defect: the reply is told by its kind, not by the request it answers.
ForInitializeOfAny(e) == session = "Initializing" /\ e.arg \in {"initialized", "refused"}

\* A reply to this session's initialize: requests of earlier connections have other ids.
ForInitialize(e) == Holds(e.gen) /\ session = "Initializing" /\ e.arg \in {"initialized", "refused"}

\* Client::received, then Client::handshaken.
ReceiveInitialized ==
  LET e == Head(inbox) IN
  /\ Taking("Message") /\ ForInitialize(e) /\ e.arg = "initialized"
  /\ session' = "Running"
  /\ IF conn = "Live" THEN Told(Tell("Handshaken", link)) ELSE UNCHANGED notices
  /\ handshaken' = TRUE
  /\ attempt' = 0
  /\ status' = Running /\ Returned
  /\ UNCHANGED <<conn, link, clientGen, losses, calling, dropped, local, ended, calls,
                 events, sent>>

\* A defect: the session of a server that refused is not let go of.
ReceiveRefusedHeld ==
  LET e == Head(inbox) IN
  /\ Taking("Message") /\ ForInitialize(e) /\ e.arg = "refused"
  /\ Halt(clientGen, "Initialize") /\ Returned
  /\ UNCHANGED <<link, handshaken, attempt, losses, session, calling, dropped, local, ended, calls,
                 events, sent>>

\* Client::received, then Client::refused.
ReceiveRefused ==
  LET e == Head(inbox) IN
  /\ Taking("Message") /\ ForInitialize(e) /\ e.arg = "refused"
  /\ session' = "Disconnected"
  /\ Halt(clientGen, "Initialize") /\ Returned
  /\ UNCHANGED <<link, handshaken, attempt, losses, calling, dropped, local, ended, calls,
                 events, sent>>

\* A message of a connection the client let go of, or a reply nothing waits for.
ReceiveStale ==
  LET e == Head(inbox) IN
  /\ Taking("Message") /\ ~ForInitialize(e)
  /\ Ignored

\* A defect: a loss after shutdown() is decided on like any other.
LossMootUnlessNew(g) == g <= clientGen

\* Client::lost, when the client already moved past the loss or shut down.
LossMoot(g) == conn \in ShutKinds \/ g <= clientGen

\* A defect: a server that never answered initialize is restarted too.
DecideAlways(why, aged) ==
  LET ruling == Admit(aged) IN
  [restart |-> ruling.verdict = "Restart",
   why     |-> IF ruling.verdict = "Exhausted" THEN "GaveUp" ELSE why,
   losses  |-> ruling.losses]

\* Client::decide: what becomes of a loss, and the losses on record then.
Decide(why, aged) ==
  LET ruling == Admit(aged) IN
  IF ~handshaken                       THEN [restart |-> FALSE, why |-> why, losses |-> losses]
  ELSE IF ruling.verdict = "Exhausted" THEN [restart |-> FALSE, why |-> "GaveUp", losses |-> ruling.losses]
  ELSE [restart |-> ruling.verdict = "Restart", why |-> why, losses |-> ruling.losses]

\* Client::lost: settle, then decide.
ReceiveLost ==
  LET e == Head(inbox) IN
  /\ Taking("Lost")
  /\ \/ LossMoot(e.gen) /\ Ignored
     \/ /\ ~LossMoot(e.gen)
        /\ session' = IF conn = "Live" THEN "Disconnected" ELSE session
        /\ \E aged \in BOOLEAN :
             LET decision == Decide(e.arg, aged) IN
             /\ losses' = decision.losses
             /\ \/ /\ decision.restart
                   /\ clientGen' = e.gen
                   /\ conn' = "Reconnecting"
                   /\ attempt' = attempt + 1
                   /\ Told(Tell("Reconnect", e.gen))
                   /\ status' = Restarting(attempt + 1)
                \/ /\ ~decision.restart
                   /\ Halt(e.gen, decision.why)
                   /\ UNCHANGED attempt
        /\ Returned
        /\ UNCHANGED <<link, handshaken, calling, dropped, local, ended, calls, events, sent>>

\* Client::attempting: a failed attempt counts against the policy like a loss.
ReceiveAttempting ==
  LET e == Head(inbox) IN
  /\ Taking("Attempting")
  /\ \/ /\ conn # "Reconnecting" \/ e.gen # clientGen
        /\ Ignored
     \/ /\ conn = "Reconnecting" /\ e.gen = clientGen
        /\ \E aged \in BOOLEAN :
             LET ruling == Admit(aged) IN
             /\ losses' = ruling.losses
             /\ \/ /\ ruling.verdict = "Restart"
                   /\ attempt' = attempt + 1
                   /\ status' = Restarting(attempt + 1)
                   /\ UNCHANGED <<conn, clientGen, notices>>
                \/ /\ ruling.verdict # "Restart"
                   /\ Halt(e.gen, "GaveUp")
                   /\ UNCHANGED attempt
        /\ Returned
        /\ UNCHANGED <<link, handshaken, session, calling, dropped, local, ended, calls,
                       events, sent>>

\* Client::reconnected: the session starts over with a fresh initialize on the new link.
ReceiveReconnected ==
  LET e == Head(inbox) IN
  /\ Taking("Reconnected")
  /\ \/ /\ conn # "Reconnecting" \/ e.gen < clientGen
        /\ Ignored
     \/ /\ conn = "Reconnecting" /\ e.gen >= clientGen
        /\ clientGen' = e.gen
        /\ conn' = "Live" /\ link' = e.gen
        /\ session' = "Initializing"
        /\ sent' = sent \cup {<<e.gen, "initialize">>}
        /\ UNCHANGED <<handshaken, attempt, losses, status, calling, dropped, local, ended,
                       reported, calls, notices, events>>

\* Client::stopped, for the worker's Stopped(Shutdown).
ReceiveStopped ==
  LET e == Head(inbox)
      connected == \/ conn \in {"Live", "ShutLinked"}
                   \/ conn = "Shut" /\ status \in {Starting, Running}
  IN
  /\ Taking("Stopped")
  /\ \/ /\ ~connected /\ status = StoppedBy(e.arg)
        /\ Ignored
     \/ /\ connected \/ status # StoppedBy(e.arg)
        /\ conn' = "Shut"
        /\ session' = IF connected THEN "Disconnected" ELSE session
        /\ status' = StoppedBy(e.arg) /\ Returned
        /\ UNCHANGED <<link, clientGen, handshaken, attempt, losses, calling, dropped, local,
                       ended, calls>>
        /\ UNCHANGED channelVars

\* The status restart() queued.
ReceiveStatus ==
  /\ Taking("Status")
  /\ reported' = Restarting(1)
  /\ UNCHANGED <<conn, link, clientGen, handshaken, attempt, losses, session, status, calling,
                 dropped, local, ended, calls>>
  /\ UNCHANGED channelVars

Receive ==
  \/ ReceiveInitialized \/ ReceiveRefused \/ ReceiveStale \/ ReceiveLost
  \/ ReceiveAttempting \/ ReceiveReconnected \/ ReceiveStopped \/ ReceiveStatus

ClientNext == RestartCall \/ RestartReturn \/ ShutdownCall \/ DropClient \/ Poll \/ Receive

----------------------------------------------------------------------------
\* The debug_assert of Session::reinitialize: a new connection finds the session of the old one
\* let go of, so no request of a dead server is carried into the next.
LetGoBeforeReconnect ==
  conn # "Live" => session = "Disconnected"

LinkIsCurrent == conn = "Live" => link = clientGen

\* The client has moved up to or past every generation it told the worker about.
ToldIsReached ==
  \A i \in 1..Len(notices) :
    /\ notices[i].type \in {"Restart", "Reconnect"} => notices[i].gen <= clientGen
    /\ notices[i].type = "Stop" => notices[i].gen < clientGen

\* A restart in the inbox leads to a newer connection than anything told before it.
RestartsAreNewer ==
  \A i, j \in 1..Len(notices) :
    i < j /\ notices[j].type = "Restart" =>
      /\ notices[i].type \in {"Restart", "Reconnect"} => notices[i].gen < notices[j].gen
      /\ notices[i].type = "Stop" => notices[i].gen + 1 < notices[j].gen

\* A worker that has reached generation g and, if waits, can only be moved on by the client: it runs
\* ahead of the client by at most one, and then waits; a restart in its inbox is ahead of it, unless
\* a loss just took it to the same generation.
WorkerInOrder(g, waits) ==
  /\ ToldIsReached /\ RestartsAreNewer
  /\ g <= clientGen + 1 /\ (g = clientGen + 1 => waits)
  /\ \A i \in 1..Len(notices) :
       notices[i].type = "Restart" => g < notices[i].gen \/ (g = notices[i].gen /\ waits)

\* What is on its way to the client, polled from Events or not.
InFlight == Carried(events) \cup Carried(inbox)

\* What the client decided and the worker has not heard.
Decisions == {n \in Carried(notices) : n.type \in {"Restart", "Reconnect", "Stop"}}

\* Only restart() is decided while an earlier decision is still unheard.
OnlyRestartsFollow ==
  \A i, j \in 1..Len(notices) :
    i < j /\ {notices[i].type, notices[j].type} \subseteq {"Restart", "Reconnect", "Stop"} =>
      notices[j].type = "Restart"

\* The client has not said goodbye.
AtWork == conn \notin ShutKinds /\ ~dropped
----------------------------------------------------------------------------
\* What a client and whatever worker is at the other end expect of each other, over what is on its
\* way between them.  A worker is seen by the generation it reached, the newest connection it made,
\* whether it ends with its only connection, and the part it plays for the client: it serves the
\* connection of its generation, or tries for one and will report how that went, waits for the
\* client to decide on a loss, rests until it is told to restart, is leaving for good, or is gone.

Parts == {"Serving", "Trying", "Waiting", "Resting", "Leaving", "Gone"}

ClientSeen ==
  [conn |-> conn, gen |-> clientGen, link |-> link, status |-> status, dropped |-> dropped,
   told |-> Carried(notices), due |-> InFlight]

WorkerSeen(g, part, newest, alone) == [gen |-> g, part |-> part, newest |-> newest, alone |-> alone]

Engaged(c) == c.conn \notin ShutKinds /\ ~c.dropped
Asks(c) == {n \in c.told : n.type \in {"Restart", "Reconnect", "Stop"}}

\* What the worker reported is no newer than what it reached.
NewsIsOld(c, w) ==
  /\ w.newest <= w.gen /\ (w.part \in {"Waiting", "Trying"} => w.newest < w.gen)
  /\ \A e \in c.due :
       /\ e.type \in {"Lost", "Attempting"} => e.gen <= w.gen
       /\ e.type = "Attempting" /\ w.part = "Waiting" => e.gen < w.gen
       /\ e.type = "Reconnected" => e.gen <= w.newest
       /\ e.type = "Stopped" => w.part = "Gone" /\ e.arg # "Initialize"

\* A worker that ends with its only connection has no other to report, and is asked for none.
AloneForGood(c, w) ==
  w.alone =>
    /\ c.conn # "Reconnecting" /\ (c.conn = "Stopped" => c.status = StoppedBy("Initialize"))
    /\ \A e \in c.due : e.type \notin {"Lost", "Attempting", "Reconnected"}
    /\ \A n \in c.told : n.type \notin {"Restart", "Reconnect"}

\* As long as the client has not said goodbye, only a worker that ends with its connection goes, and
\* the client is told.
GoesUnasked(c, w) ==
  Engaged(c) =>
    /\ w.part # "Leaving"
    /\ \A n \in c.told : n.type # "Shutdown"
    /\ w.part = "Gone" => w.alone /\ \E e \in c.due : e.type = "Stopped"

\* A loss the client has not heard of: the worker waits ahead of it.
LossIsDue(c, w) ==
  w.part = "Waiting" /\ w.gen = c.gen + 1 /\ \E e \in c.due : e.type = "Lost" /\ e.gen = w.gen

\* With every decision heard, the worker does what the client expects, or tells it otherwise.
HeardAndDone(c, w) ==
  Engaged(c) /\ Asks(c) = {} =>
    \/ w.part = "Gone"
    \/ c.conn \in {"Live", "Reconnecting"} /\ LossIsDue(c, w)
    \/ c.conn = "Live" /\ w.part = "Serving" /\ w.gen = c.gen
    \/ c.conn = "Reconnecting" /\ w.part = "Trying" /\ w.gen = c.gen
    \/ /\ c.conn = "Reconnecting" /\ w.part = "Serving" /\ w.gen = c.gen
       /\ \E e \in c.due : e.type = "Reconnected" /\ e.gen = c.gen
    \/ c.conn = "Stopped" /\ w.part \in {"Resting", "Waiting"} /\ w.gen = c.gen

\* With one on its way, the worker is where that decision will move it as the client expects.
UnheardAndDue(c, w) ==
  Engaged(c) /\ Asks(c) # {} =>
    \/ c.conn = "Stopped" /\ w.part = "Gone"
    \/ c.conn = "Reconnecting" /\ Tell("Restart", c.gen) \in Asks(c)
    \/ /\ c.conn = "Reconnecting" /\ Asks(c) = {Tell("Reconnect", c.gen)}
       /\ w.part = "Waiting" /\ w.gen = c.gen
    \/ /\ c.conn = "Stopped" /\ Asks(c) = {Tell("Stop", c.gen - 1)}
       /\ \/ w.gen = c.gen - 1 /\ w.part \in {"Serving", "Trying", "Waiting"}
          \/ w.gen = c.gen /\ w.part = "Waiting"

\* A client that said goodbye is answered.
GoodbyeHeeded(c, w) ==
  c.conn \in ShutKinds /\ ~c.dropped =>
    \/ \E n \in c.told : n.type = "Shutdown"
    \/ w.part = "Leaving"
    \/ w.part = "Gone" /\ (c.status.kind = "Stopped" \/ \E e \in c.due : e.type = "Stopped")

InStep(c, w) ==
  /\ NewsIsOld(c, w) /\ AloneForGood(c, w) /\ GoesUnasked(c, w)
  /\ HeardAndDone(c, w) /\ UnheardAndDue(c, w) /\ GoodbyeHeeded(c, w)
=============================================================================
