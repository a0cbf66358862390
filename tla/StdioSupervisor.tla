-------------------------- MODULE StdioSupervisor --------------------------
(***************************************************************************)
(* The stdio bridge: transport/stdio.rs's Supervisor with the shutdown     *)
(* sequence of transport/lifecycle.rs, the reader and writer threads of    *)
(* each server process, and the processes themselves.                      *)
(*                                                                         *)
(* The supervisor is one thread: it takes a notice or acts on what time or *)
(* the process did (tick).  Durations are left out, so a deadline, a drain *)
(* or a backoff may end at any moment; retry only picks the length of a    *)
(* backoff and is left out with it.  Of the two readers only stdout's is   *)
(* kept: stderr's moves no state but the end of a drain, which may come at *)
(* any moment here.                                                        *)
(***************************************************************************)
EXTENDS BridgeChannels

CONSTANTS
  InitializeTimeout,  \* whether the builder set an initialize_timeout
  MaxFaults           \* bound: crashes, failed spawns, closed pipes and full backlogs in a run

ASSUME SupervisorAssumption == InitializeTimeout \in BOOLEAN /\ MaxFaults \in Nat

VARIABLES
  supGen,       \* Supervisor::generation
  sup,          \* Supervisor::state: Live, Draining, Waiting, Backoff, Idle, Closing; Done once run() returned
  child,        \* the generation of the process a Live, Draining or Closing state is about
  deadline,     \* whether a Live process's deadline is armed; FALSE in every other state
  cause,        \* the reason a Draining state will report; Exited in every other state
  ending,       \* Closing's Ending: Stopped or Idle; Stopped in every other state
  step,         \* Closing's Sequence: Reply or Exit; Reply in every other state
  procs,        \* the generations whose server process runs
  reading,      \* the generations whose stdout reader has not reached EOF
  pipe,         \* <<generation, reply>>: written by a server, not yet read
  acked,        \* the generations whose server answered initialize with a result
  answered,     \* <<generation, message>>: what servers answered, each once
  faults        \* faults so far, capped by MaxFaults

supVars == <<supGen, sup, child, deadline, cause, ending, step>>
serverVars == <<procs, reading, pipe, acked, answered, faults>>

SupTypes ==
  /\ supGen \in Generation /\ child \in Generation
  /\ sup \in {"Live", "Draining", "Waiting", "Backoff", "Idle", "Closing", "Done"}
  /\ deadline \in BOOLEAN /\ cause \in Reasons
  /\ ending \in {"Stopped", "Idle"} /\ step \in {"Reply", "Exit"}

ServerTypes ==
  /\ procs \in SUBSET Generation /\ reading \in SUBSET Generation
  /\ acked \in SUBSET Generation
  /\ pipe \in SUBSET (Generation \X Replies)
  /\ answered \in SUBSET (Generation \X Wire)
  /\ faults \in 0..MaxFaults

SupInit ==
  /\ supGen = 0 /\ sup = "Live" /\ child = 0
  /\ deadline = InitializeTimeout
  /\ cause = "Exited" /\ ending = "Stopped" /\ step = "Reply"
  /\ procs = {0} /\ reading = {0} /\ pipe = {} /\ acked = {} /\ answered = {} /\ faults = 0

Fault == faults < MaxFaults /\ faults' = faults + 1

Reported(event) == events' = Append(events, event)

----------------------------------------------------------------------------
\* Supervisor::connect for generation g, launch included. A started process is announced before
\* its readers may read.
Connect(g) ==
  \/ /\ Reported(Report("Reconnected", g, "none"))
     /\ sup' = "Live" /\ child' = g /\ deadline' = InitializeTimeout
     /\ procs' = procs \cup {g}
     /\ reading' = reading \cup {g}
     /\ UNCHANGED faults
  \/ /\ Fault
     /\ Reported(Report("Attempting", g, "none"))
     /\ sup' = "Backoff" /\ deadline' = FALSE
     /\ UNCHANGED <<child, procs, reading>>

\* lifecycle::leave: exit, and the close behind it.
Leave(g) == sent' = sent \cup {<<g, "exit">>} /\ step' = "Exit"

\* Supervisor::close with Sequence::begin: a server that never answered initialize gets no
\* shutdown request.
Close(done, whereTo) ==
  /\ sup' = "Closing" /\ ending' = whereTo /\ deadline' = FALSE
  /\ IF done THEN sent' = sent \cup {<<child, "shutdown">>} /\ step' = "Reply"
             ELSE Leave(child)

\* Supervisor::drain: the process is killed and reaped, its readers may still read.
Drain(why) ==
  /\ procs' = procs \ {child}
  /\ sup' = "Draining" /\ cause' = why /\ deadline' = FALSE

\* What a Draining or a Closing state held is gone with it.
DrainOver == cause' = "Exited"
CloseOver == ending' = "Stopped" /\ step' = "Reply"

----------------------------------------------------------------------------
\* Supervisor::notice and Supervisor::control, by what the notice is. Each takes the head of the
\* inbox; a notice no case below names is dropped.

Take(type) == sup # "Done" /\ notices # <<>> /\ Head(notices).type = type /\ notices' = Tail(notices)

OnShutdown ==
  LET n == Head(notices) IN
  /\ Take("Shutdown")
  /\ \/ /\ sup = "Live"
        /\ Close(n.done /\ n.gen = supGen, "Stopped")
        /\ UNCHANGED <<supGen, child, cause, events>>
     \/ /\ sup = "Closing"
        /\ ending' = "Stopped"
        /\ UNCHANGED <<supGen, sup, child, deadline, cause, step, events, sent>>
     \/ /\ sup \in {"Draining", "Waiting", "Backoff", "Idle"}
        /\ Reported(Report("Stopped", 0, "Shutdown"))
        /\ sup' = "Done"
        /\ DrainOver
        /\ UNCHANGED <<supGen, child, deadline, ending, step, sent>>
  /\ UNCHANGED serverVars

OnHandshaken ==
  LET n == Head(notices) IN
  /\ Take("Handshaken")
  /\ deadline' = IF sup = "Live" /\ n.gen = supGen THEN FALSE ELSE deadline
  /\ UNCHANGED <<supGen, sup, child, cause, ending, step, events, sent>>
  /\ UNCHANGED serverVars

\* A defect: only a decision ahead of the supervisor is followed.
OnReconnectIfAhead ==
  LET n == Head(notices) IN
  /\ Take("Reconnect")
  /\ sup' = IF sup = "Waiting" /\ n.gen > supGen THEN "Backoff" ELSE sup
  /\ UNCHANGED <<supGen, child, deadline, cause, ending, step, events, sent>>
  /\ UNCHANGED serverVars

OnReconnect ==
  LET n == Head(notices) IN
  /\ Take("Reconnect")
  /\ sup' = IF sup = "Waiting" /\ n.gen = supGen THEN "Backoff" ELSE sup
  /\ UNCHANGED <<supGen, child, deadline, cause, ending, step, events, sent>>
  /\ UNCHANGED serverVars

OnStop ==
  LET n == Head(notices) IN
  /\ Take("Stop")
  /\ \/ /\ sup = "Live" /\ n.gen = supGen
        /\ supGen' = n.gen + 1
        /\ Close(FALSE, "Idle")
        /\ UNCHANGED <<child, cause, events>>
     \/ /\ sup \in {"Draining", "Waiting", "Backoff", "Idle"} /\ n.gen = supGen
        /\ supGen' = n.gen + 1
        /\ sup' = "Idle"
        /\ DrainOver
        /\ UNCHANGED <<child, deadline, ending, step, events, sent>>
     \/ /\ sup = "Closing" \/ n.gen # supGen
        /\ UNCHANGED <<supVars, events, sent>>
  /\ UNCHANGED serverVars

\* A defect: the server that still runs is not killed first.
OnRestartBeside ==
  LET n == Head(notices)
      applies == n.gen >= supGen /\ ~(sup = "Closing" /\ ending = "Stopped")
  IN
  /\ Take("Restart")
  /\ \/ /\ applies
        /\ supGen' = n.gen
        /\ Reported(Report("Reconnected", n.gen, "none"))
        /\ sup' = "Live" /\ child' = n.gen /\ deadline' = InitializeTimeout
        /\ procs' = procs \cup {n.gen}
        /\ reading' = reading \cup {n.gen}
        /\ DrainOver /\ CloseOver
        /\ UNCHANGED <<faults, sent, pipe, acked, answered>>
     \/ /\ ~applies
        /\ UNCHANGED <<supVars, serverVars, events, sent>>

\* A defect: a restart that crossed a loss on its way is dropped as stale.
OnRestartIfAhead ==
  LET n == Head(notices)
      applies == n.gen > supGen /\ ~(sup = "Closing" /\ ending = "Stopped")
      rest == IF sup \in {"Live", "Closing"} THEN procs \ {child} ELSE procs
  IN
  /\ Take("Restart")
  /\ \/ /\ applies
        /\ supGen' = n.gen
        /\ \/ /\ Reported(Report("Reconnected", n.gen, "none"))
              /\ sup' = "Live" /\ child' = n.gen /\ deadline' = InitializeTimeout
              /\ procs' = rest \cup {n.gen}
              /\ reading' = reading \cup {n.gen}
              /\ UNCHANGED faults
           \/ /\ Fault
              /\ Reported(Report("Attempting", n.gen, "none"))
              /\ sup' = "Backoff" /\ deadline' = FALSE
              /\ procs' = rest
              /\ UNCHANGED <<child, reading>>
        /\ DrainOver /\ CloseOver
        /\ UNCHANGED <<sent, pipe, acked, answered>>
     \/ /\ ~applies
        /\ UNCHANGED <<supVars, serverVars, events, sent>>

\* Whatever runs is killed and reaped without a loss, then the new process starts; a shutdown
\* under way wins.
OnRestart ==
  LET n == Head(notices)
      applies == n.gen >= supGen /\ ~(sup = "Closing" /\ ending = "Stopped")
      rest == IF sup \in {"Live", "Closing"} THEN procs \ {child} ELSE procs
  IN
  /\ Take("Restart")
  /\ \/ /\ applies
        /\ supGen' = n.gen
        /\ \/ /\ Reported(Report("Reconnected", n.gen, "none"))
              /\ sup' = "Live" /\ child' = n.gen /\ deadline' = InitializeTimeout
              /\ procs' = rest \cup {n.gen}
              /\ reading' = reading \cup {n.gen}
              /\ UNCHANGED faults
           \/ /\ Fault
              /\ Reported(Report("Attempting", n.gen, "none"))
              /\ sup' = "Backoff" /\ deadline' = FALSE
              /\ procs' = rest
              /\ UNCHANGED <<child, reading>>
        /\ DrainOver /\ CloseOver
        /\ UNCHANGED <<sent, pipe, acked, answered>>
     \/ /\ ~applies
        /\ UNCHANGED <<supVars, serverVars, events, sent>>

\* Supervisor::ended, and lose for a failed write or a full backlog: only a live connection is
\* lost, and only by its own threads.
LossReason(type) == IF type = "Backlog" THEN "Unresponsive" ELSE "Exited"

OnThreadNotice ==
  LET n == Head(notices) IN
  /\ \E type \in {"Ended", "WriteFailed", "Backlog"} : Take(type)
  /\ \/ /\ sup = "Live" /\ n.gen = child
        /\ Drain(LossReason(n.type))
        /\ UNCHANGED <<supGen, child, ending, step>>
     \/ /\ sup # "Live" \/ n.gen # child
        /\ UNCHANGED <<supVars, procs>>
  /\ UNCHANGED <<reading, pipe, acked, answered, faults, events, sent>>

\* Sequence::replied
OnReplied ==
  LET n == Head(notices) IN
  /\ Take("Replied")
  /\ \/ /\ sup = "Closing" /\ n.gen = child /\ step = "Reply"
        /\ Leave(child)
     \/ /\ sup # "Closing" \/ n.gen # child \/ step # "Reply"
        /\ UNCHANGED <<step, sent>>
  /\ UNCHANGED <<supGen, sup, child, deadline, cause, ending, events>>
  /\ UNCHANGED serverVars

TakeNotice ==
  \/ OnShutdown \/ OnHandshaken \/ OnReconnect \/ OnStop \/ OnRestart
  \/ OnThreadNotice \/ OnReplied

----------------------------------------------------------------------------
\* Supervisor::tick, by what moved on.

\* try_wait saw that the process exited.
ExitSeen ==
  /\ sup = "Live" /\ child \notin procs
  /\ Drain("Exited")
  /\ UNCHANGED <<supGen, child, ending, step, reading, pipe, acked, answered, faults>>
  /\ UNCHANGED channelVars

DeadlineFires ==
  /\ sup = "Live" /\ child \in procs /\ deadline
  /\ Fault
  /\ Drain("Timeout")
  /\ UNCHANGED <<supGen, child, ending, step, reading, pipe, acked, answered>>
  /\ UNCHANGED channelVars

\* The readers reached EOF or their grace ran out: now the loss is reported.
DrainDone ==
  /\ sup = "Draining"
  /\ supGen' = supGen + 1
  /\ Reported(Report("Lost", supGen + 1, cause))
  /\ sup' = "Waiting"
  /\ DrainOver
  /\ UNCHANGED <<child, deadline, ending, step, notices, sent>>
  /\ UNCHANGED serverVars

BackoffDone ==
  /\ sup = "Backoff"
  /\ Connect(supGen)
  /\ UNCHANGED <<supGen, cause, ending, step, notices, sent, pipe, acked, answered>>

\* No reply to shutdown in time: exit anyway.
ReplyExpires ==
  /\ sup = "Closing" /\ step = "Reply" /\ child \in procs
  /\ Leave(child)
  /\ UNCHANGED <<supGen, sup, child, deadline, cause, ending, notices, events>>
  /\ UNCHANGED serverVars

\* The process went, or its exit grace is over and it is killed.
ClosingOver ==
  /\ sup = "Closing" /\ (child \notin procs \/ step = "Exit")
  /\ procs' = procs \ {child}
  /\ IF ending = "Stopped" THEN Reported(Report("Stopped", 0, "Shutdown")) /\ sup' = "Done"
                           ELSE sup' = "Idle" /\ UNCHANGED events
  /\ CloseOver
  /\ UNCHANGED <<supGen, child, deadline, cause, notices, sent>>
  /\ UNCHANGED <<reading, pipe, acked, answered, faults>>

Tick == ExitSeen \/ DeadlineFires \/ DrainDone \/ BackoffDone \/ ReplyExpires \/ ClosingOver

SupervisorNext == TakeNotice \/ Tick

----------------------------------------------------------------------------
\* The servers and the threads that read and write them.

\* A server answers what it was asked, once. It may fail initialize.
ServerAnswers ==
  \E g \in procs, ask \in {"initialize", "shutdown"} :
    /\ <<g, ask>> \in sent \ answered
    /\ answered' = answered \cup {<<g, ask>>}
    /\ \E reply \in IF ask = "shutdown" THEN {"bye"} ELSE {"initialized", "refused"} :
         /\ pipe' = pipe \cup {<<g, reply>>}
         /\ acked' = IF reply = "initialized" THEN acked \cup {g} ELSE acked
    /\ UNCHANGED <<procs, reading, faults>>
    /\ UNCHANGED <<supVars, channelVars>>

ServerCrashes ==
  \E g \in procs :
    /\ Fault
    /\ procs' = procs \ {g}
    /\ UNCHANGED <<reading, pipe, acked, answered>>
    /\ UNCHANGED <<supVars, channelVars>>

ServerExits ==
  \E g \in procs :
    /\ <<g, "exit">> \in sent
    /\ procs' = procs \ {g}
    /\ UNCHANGED <<reading, pipe, acked, answered, faults>>
    /\ UNCHANGED <<supVars, channelVars>>

\* Reader::deliver. Once closing is set the reply to shutdown goes to the supervisor; close()
\* sets it before the request goes out, so a "bye" always does.
ReaderDelivers ==
  \E g \in reading, reply \in Replies :
    /\ <<g, reply>> \in pipe
    /\ pipe' = pipe \ {<<g, reply>>}
    /\ IF reply = "bye"
       THEN notices' = Append(notices, Tell("Replied", g)) /\ UNCHANGED events
       ELSE Reported(Report("Message", g, reply)) /\ UNCHANGED notices
    /\ UNCHANGED <<procs, reading, acked, answered, faults, sent>>
    /\ UNCHANGED supVars

\* EOF: everything written was read, and the process ended or closed its stdout.
ReaderEnds ==
  \E g \in reading :
    /\ \A reply \in Replies : <<g, reply>> \notin pipe
    /\ IF g \in procs THEN Fault ELSE UNCHANGED faults
    /\ reading' = reading \ {g}
    /\ notices' = Append(notices, Tell("Ended", g))
    /\ UNCHANGED <<procs, pipe, acked, answered, events, sent>>
    /\ UNCHANGED supVars

\* The writer of a connection could not write, or its backlog grew past the limit. One that fails
\* after both the process and its reader ended tells the supervisor nothing new.
WriterTrouble ==
  \E g \in procs \cup reading, type \in {"WriteFailed", "Backlog"} :
    /\ Fault
    /\ notices' = Append(notices, Tell(type, g))
    /\ UNCHANGED <<procs, reading, pipe, acked, answered, events, sent>>
    /\ UNCHANGED supVars

ServerNext ==
  \/ ServerAnswers \/ ServerCrashes \/ ServerExits
  \/ ReaderDelivers \/ ReaderEnds \/ WriterTrouble
=============================================================================
