------------------------- MODULE StdioBridgeProofs -------------------------
(***************************************************************************)
(* For every policy, every number of calls and every number of faults: the *)
(* stdio bridge keeps its types, never acts on a stale restart, keeps one  *)
(* server process at a time, asks none to shut down before it answered     *)
(* initialize, starts no second one unless one answered or the host asked, *)
(* and a client that said goodbye decides nothing more.  Nor do the client *)
(* and its supervisor ever wait for each other.                            *)
(***************************************************************************)
EXTENDS StdioBridge, ClientRecoveryProofs

----------------------------------------------------------------------------
LEMMA InitTypes == Init => TypeOK
<1> SUFFICES ASSUME Init PROVE TypeOK
  OBVIOUS
<1> USE DEF Init, Generation, Reasons
<1>1. ChannelTypes
  BY DEF ChannelTypes, Wire
<1>2. ClientTypes
  BY ClientStarts
<1>3. SupTypes
  BY SupervisorAssumption DEF SupInit, SupTypes
<1>4. ServerTypes
  BY SupervisorAssumption DEF SupInit, ServerTypes
<1> QED
  BY <1>1, <1>2, <1>3, <1>4 DEF TypeOK

----------------------------------------------------------------------------

LEMMA ReportedTypes ==
  ASSUME ChannelTypes, NEW e \in Event, Reported(e)
  PROVE  events' \in Seq(Event)
BY AppendFacts DEF ChannelTypes, Reported

----------------------------------------------------------------------------
\* What the supervisor takes, and what stays behind it.
LEMMA TakeTypes ==
  ASSUME ChannelTypes, NEW type, Take(type)
  PROVE  /\ notices' \in Seq(Notice) /\ Head(notices).gen \in Generation
         /\ Head(notices).done \in BOOLEAN /\ Head(notices).type = type
<1>1. Head(notices) \in Notice /\ notices' \in Seq(Notice) /\ Head(notices).type = type
  BY TakeFacts DEF ChannelTypes, Take
<1> QED
  BY <1>1 DEF Notice

LEMMA CloseTypes ==
  ASSUME TypeOK, NEW done \in BOOLEAN, NEW whereTo \in {"Stopped", "Idle"}, Close(done, whereTo)
  PROVE  /\ sent' \in SUBSET (Generation \X Wire) /\ step' \in {"Reply", "Exit"}
         /\ sup' = "Closing" /\ ending' = whereTo /\ deadline' = FALSE
BY DEF TypeOK, ChannelTypes, SupTypes, Close, Leave, Wire

LEMMA FaultTypes == ASSUME ServerTypes, Fault PROVE faults' \in 0..MaxFaults
BY SupervisorAssumption DEF ServerTypes, Fault

\* A new connection, or the report that it could not be had.
LEMMA ConnectTypes ==
  ASSUME TypeOK, NEW g \in Generation, Connect(g)
  PROVE  /\ events' \in Seq(Event) /\ sup' \in {"Live", "Backoff"} /\ child' \in {child, g}
         /\ deadline' \in BOOLEAN
         /\ procs' \in SUBSET Generation /\ reading' \in SUBSET Generation
         /\ faults' \in 0..MaxFaults
<1>1. /\ Report("Reconnected", g, "none") \in Event
      /\ Report("Attempting", g, "none") \in Event
  BY MessageTypes
<1>2. events' \in Seq(Event)
  BY <1>1, ReportedTypes DEF Connect, TypeOK
<1>3. faults' \in 0..MaxFaults
  BY FaultTypes DEF Connect, TypeOK, ServerTypes
<1> QED
  BY <1>2, <1>3, SupervisorAssumption DEF Connect, TypeOK, SupTypes, ServerTypes

\* The supervisor's actions keep the types of all but the client.
LEMMA SupervisorTypesKept ==
  ASSUME TypeOK, SupervisorNext
  PROVE  SupTypes' /\ ServerTypes' /\ ChannelTypes'
<1> USE DEF TypeOK
<1>1. CASE OnShutdown
  <2> DEFINE n == Head(notices)
  <2>1. notices' \in Seq(Notice) /\ n.done \in BOOLEAN
    BY <1>1, TakeTypes DEF OnShutdown
  <2>2. ServerTypes'
    BY <1>1 DEF OnShutdown, ServerTypes, serverVars
  <2>3. CASE sup = "Live"
    <3>1. /\ sent' \in SUBSET (Generation \X Wire) /\ step' \in {"Reply", "Exit"}
          /\ sup' = "Closing" /\ ending' = "Stopped" /\ deadline' = FALSE
      BY <1>1, <2>1, <2>3, CloseTypes DEF OnShutdown
    <3> QED
      BY <1>1, <2>1, <2>2, <2>3, <3>1 DEF OnShutdown, SupTypes, ChannelTypes
  <2>4. CASE sup = "Closing"
    BY <1>1, <2>1, <2>2, <2>4 DEF OnShutdown, SupTypes, ChannelTypes
  <2>5. CASE sup \notin {"Live", "Closing"}
    <3>1. events' \in Seq(Event)
      <4>1. Report("Stopped", 0, "Shutdown") \in Event
        BY MessageTypes DEF Generation, Reasons
      <4> QED
        BY <1>1, <2>5, <4>1, ReportedTypes DEF OnShutdown
    <3> QED
      BY <1>1, <2>1, <2>2, <2>5, <3>1 DEF OnShutdown, SupTypes, ChannelTypes, DrainOver, Reasons
  <2> QED
    BY <2>3, <2>4, <2>5
<1>2. CASE OnHandshaken
  BY <1>2, TakeTypes DEF OnHandshaken, SupTypes, ServerTypes, ChannelTypes, serverVars
<1>3. CASE OnReconnect
  BY <1>3, TakeTypes DEF OnReconnect, SupTypes, ServerTypes, ChannelTypes, serverVars
<1>4. CASE OnStop
  <2> DEFINE n == Head(notices)
  <2>1. notices' \in Seq(Notice) /\ n.gen \in Generation
    BY <1>4, TakeTypes DEF OnStop
  <2>2. ServerTypes'
    BY <1>4 DEF OnStop, ServerTypes, serverVars
  <2>3. CASE sup = "Live" /\ n.gen = supGen
    <3>1. /\ sent' \in SUBSET (Generation \X Wire) /\ step' \in {"Reply", "Exit"}
          /\ sup' = "Closing" /\ ending' = "Idle" /\ deadline' = FALSE
      BY <1>4, <2>3, CloseTypes DEF OnStop
    <3>2. supGen' = n.gen + 1
      BY <1>4, <2>3 DEF OnStop
    <3>3. supGen' \in Generation
      BY <2>1, <3>2 DEF Generation
    <3> QED
      BY <1>4, <2>1, <2>2, <2>3, <3>1, <3>3 DEF OnStop, SupTypes, ChannelTypes
  <2>4. CASE ~(sup = "Live" /\ n.gen = supGen)
    <3>0. supGen' \in {supGen, n.gen + 1}
      BY <1>4, <2>4 DEF OnStop, supVars
    <3>1. supGen' \in Generation
      BY <2>1, <3>0 DEF Generation, SupTypes
    <3>2. ChannelTypes'
      BY <1>4, <2>1, <2>4 DEF OnStop, ChannelTypes
    <3>3. SupTypes'
      BY <1>4, <2>4, <3>1 DEF OnStop, SupTypes, DrainOver, Reasons, supVars
    <3> QED
      BY <2>2, <3>2, <3>3
  <2> QED
    BY <2>3, <2>4
<1>5. CASE OnRestart
  <2> DEFINE n == Head(notices)
             applies == n.gen >= supGen /\ ~(sup = "Closing" /\ ending = "Stopped")
  <2>1. notices' \in Seq(Notice) /\ n.gen \in Generation
    BY <1>5, TakeTypes DEF OnRestart
  <2>2. CASE applies
    <3>1. /\ Report("Reconnected", n.gen, "none") \in Event
          /\ Report("Attempting", n.gen, "none") \in Event
      BY <2>1, MessageTypes
    <3>2. events' \in Seq(Event)
      BY <1>5, <2>2, <3>1, ReportedTypes DEF OnRestart
    <3>3. faults' \in 0..MaxFaults
      BY <1>5, <2>2, FaultTypes DEF OnRestart, ServerTypes
    <3>4. /\ procs' \in SUBSET Generation /\ reading' \in SUBSET Generation
          /\ sup' \in {"Live", "Backoff"} /\ child' \in Generation
      BY <1>5, <2>1, <2>2 DEF OnRestart, ServerTypes, SupTypes
    <3>5. deadline' \in BOOLEAN
      BY <1>5, <2>2, SupervisorAssumption DEF OnRestart
    <3> QED
      BY <1>5, <2>1, <2>2, <3>2, <3>3, <3>4, <3>5
      DEF OnRestart, SupTypes, ServerTypes, ChannelTypes, DrainOver, CloseOver, Reasons
  <2>3. CASE ~applies
    BY <1>5, <2>1, <2>3 DEF OnRestart, SupTypes, ServerTypes, ChannelTypes, supVars, serverVars
  <2> QED
    BY <2>2, <2>3
<1>6. CASE OnThreadNotice
  <2>1. notices' \in Seq(Notice)
    BY <1>6, TakeTypes DEF OnThreadNotice
  <2> QED
    BY <1>6, <2>1
    DEF OnThreadNotice, Drain, LossReason, SupTypes, ServerTypes, ChannelTypes, supVars, Reasons
<1>7. CASE OnReplied
  BY <1>7, TakeTypes
  DEF OnReplied, Leave, SupTypes, ServerTypes, ChannelTypes, serverVars, Wire
<1>8. CASE ExitSeen
  BY <1>8 DEF ExitSeen, Drain, SupTypes, ServerTypes, ChannelTypes, channelVars, Reasons
<1>9. CASE DeadlineFires
  BY <1>9, FaultTypes
  DEF DeadlineFires, Drain, SupTypes, ServerTypes, ChannelTypes, channelVars, Reasons
<1>10. CASE DrainDone
  <2>1. events' \in Seq(Event)
    <3>1. Report("Lost", supGen + 1, cause) \in Event
      BY MessageTypes DEF SupTypes, Generation
    <3> QED
      BY <1>10, <3>1, ReportedTypes DEF DrainDone
  <2> QED
    BY <1>10, <2>1
    DEF DrainDone, DrainOver, SupTypes, ServerTypes, ChannelTypes, serverVars, Reasons, Generation
<1>11. CASE BackoffDone
  BY <1>11, ConnectTypes DEF BackoffDone, SupTypes, ServerTypes, ChannelTypes
<1>12. CASE ReplyExpires
  BY <1>12 DEF ReplyExpires, Leave, SupTypes, ServerTypes, ChannelTypes, serverVars, Wire
<1>13. CASE ClosingOver
  <2>1. events' \in Seq(Event)
    <3>1. Report("Stopped", 0, "Shutdown") \in Event
      BY MessageTypes DEF Generation, Reasons
    <3> QED
      BY <1>13, <3>1, ReportedTypes DEF ClosingOver, ChannelTypes
  <2> QED
    BY <1>13, <2>1 DEF ClosingOver, CloseOver, SupTypes, ServerTypes, ChannelTypes
<1> QED
  BY <1>1, <1>2, <1>3, <1>4, <1>5, <1>6, <1>7, <1>8, <1>9, <1>10, <1>11, <1>12, <1>13
  DEF SupervisorNext, TakeNotice, Tick

\* The servers and the threads of their connections keep the types of all but the client.
LEMMA ServerTypesKept ==
  ASSUME TypeOK, ServerNext
  PROVE  SupTypes' /\ ServerTypes' /\ ChannelTypes'
<1> USE DEF TypeOK
<1>1. CASE ServerAnswers
  <2>1. PICK g \in procs, ask \in {"initialize", "shutdown"} :
          /\ answered' = answered \cup {<<g, ask>>}
          /\ \E reply \in IF ask = "shutdown" THEN {"bye"} ELSE {"initialized", "refused"} :
               /\ pipe' = pipe \cup {<<g, reply>>}
               /\ acked' = IF reply = "initialized" THEN acked \cup {g} ELSE acked
          /\ UNCHANGED <<procs, reading, faults>>
          /\ UNCHANGED <<supVars, channelVars>>
    BY <1>1 DEF ServerAnswers
  <2>2. g \in Generation
    BY DEF ServerTypes
  <2>3. ServerTypes'
    BY <2>1, <2>2 DEF ServerTypes, Replies, Wire
  <2> QED
    BY <2>1, <2>3 DEF SupTypes, ChannelTypes, supVars, channelVars
<1>2. CASE ServerCrashes
  BY <1>2, FaultTypes
  DEF ServerCrashes, SupTypes, ServerTypes, ChannelTypes, supVars, channelVars
<1>3. CASE ServerExits
  BY <1>3 DEF ServerExits, SupTypes, ServerTypes, ChannelTypes, supVars, channelVars
<1>4. CASE ReaderDelivers
  <2>1. PICK g \in reading, reply \in Replies :
          /\ pipe' = pipe \ {<<g, reply>>}
          /\ IF reply = "bye"
             THEN notices' = Append(notices, Tell("Replied", g)) /\ UNCHANGED events
             ELSE Reported(Report("Message", g, reply)) /\ UNCHANGED notices
          /\ UNCHANGED <<procs, reading, acked, answered, faults, sent>>
          /\ UNCHANGED supVars
    BY <1>4 DEF ReaderDelivers
  <2>2. /\ Tell("Replied", g) \in Notice /\ Report("Message", g, reply) \in Event
    BY MessageTypes DEF ServerTypes, ThreadTypes
  <2>3. notices' \in Seq(Notice) /\ events' \in Seq(Event)
    BY <2>1, <2>2, AppendFacts, ReportedTypes DEF ChannelTypes
  <2> QED
    BY <2>1, <2>3 DEF SupTypes, ServerTypes, ChannelTypes, supVars
<1>5. CASE ReaderEnds
  <2>1. PICK g \in reading :
          /\ IF g \in procs THEN Fault ELSE UNCHANGED faults
          /\ reading' = reading \ {g}
          /\ notices' = Append(notices, Tell("Ended", g))
          /\ UNCHANGED <<procs, pipe, acked, answered, events, sent>>
          /\ UNCHANGED supVars
    BY <1>5 DEF ReaderEnds
  <2>2. Tell("Ended", g) \in Notice
    BY MessageTypes DEF ServerTypes, ThreadTypes
  <2>3. notices' \in Seq(Notice)
    BY <2>1, <2>2, AppendFacts DEF ChannelTypes
  <2> QED
    BY <2>1, <2>3, FaultTypes DEF SupTypes, ServerTypes, ChannelTypes, supVars
<1>6. CASE WriterTrouble
  <2>1. PICK g \in procs \cup reading, type \in {"WriteFailed", "Backlog"} :
          /\ Fault
          /\ notices' = Append(notices, Tell(type, g))
          /\ UNCHANGED <<procs, reading, pipe, acked, answered, events, sent>>
          /\ UNCHANGED supVars
    BY <1>6 DEF WriterTrouble
  <2>2. Tell(type, g) \in Notice
    BY MessageTypes DEF ServerTypes, ThreadTypes
  <2>3. notices' \in Seq(Notice)
    BY <2>1, <2>2, AppendFacts DEF ChannelTypes
  <2> QED
    BY <2>1, <2>3, FaultTypes DEF SupTypes, ServerTypes, ChannelTypes, supVars
<1> QED
  BY <1>1, <1>2, <1>3, <1>4, <1>5, <1>6 DEF ServerNext

LEMMA NextTypes == TypeOK /\ [Next]_vars => TypeOK'
<1> SUFFICES ASSUME TypeOK, [Next]_vars PROVE TypeOK'
  OBVIOUS
<1>1. CASE ClientNext /\ UNCHANGED <<supVars, serverVars>>
  BY <1>1, ClientTypesKept DEF TypeOK, SupTypes, ServerTypes, supVars, serverVars
<1>2. CASE (SupervisorNext \/ ServerNext) /\ UNCHANGED clientVars
  BY <1>2, SupervisorTypesKept, ServerTypesKept DEF TypeOK, ClientTypes, clientVars
<1>3. CASE UNCHANGED vars
  BY <1>3 DEF vars, clientVars, supVars, serverVars, channelVars, TypeOK, ClientTypes,
              ChannelTypes, SupTypes, ServerTypes
<1> QED
  BY <1>1, <1>2, <1>3 DEF Next

\* The bridge's variables keep their types, whatever the policy and the bounds.
THEOREM TypeCorrect == Spec => []TypeOK
BY InitTypes, NextTypes, PTL DEF Spec

----------------------------------------------------------------------------
\* The facts about the inbox survive a client step.
LEMMA ClientStepKeeps ==
  ASSUME IInv, ClientNext, UNCHANGED <<supVars, serverVars>>
  PROVE  /\ OneAhead' /\ ToldIsReached' /\ RestartsAreNewer' /\ RestartsAreAhead'
         /\ ChildIsBehind' /\ NoOrphan'
<1>0. /\ clientGen \in Nat /\ supGen \in Nat /\ notices \in Seq(Notice) /\ Len(notices) \in Nat
      /\ \A i \in 1..Len(notices) : notices[i].gen \in Nat
  <2>1. clientGen \in Nat /\ supGen \in Nat /\ notices \in Seq(Notice)
    BY DEF IInv, TypeOK, ClientTypes, SupTypes, ChannelTypes, Generation
  <2>2. Len(notices) \in Nat /\ \A i \in 1..Len(notices) : notices[i] \in Notice
    BY <2>1
  <2>3. \A n \in Notice : n.gen \in Nat
    BY DEF Notice, Generation
  <2> QED
    BY <2>1, <2>2, <2>3
<1>1. UNCHANGED <<supGen, sup, child, procs>>
  BY DEF supVars, serverVars
<1>2. ChildIsBehind' /\ NoOrphan'
  BY <1>1 DEF IInv, ChildIsBehind, NoOrphan
<1>3. clientGen' \in Nat
  BY ClientTypesKept DEF IInv, ClientTypes, Generation, TypeOK
<1>4. clientGen' >= clientGen
  BY ClientTells DEF IInv, TypeOK
<1>5. OneAhead'
  <2> DEFINE later == clientGen'
  <2>1. later \in Nat /\ later >= clientGen
    BY <1>3, <1>4
  <2> HIDE DEF later
  <2>2. supGen <= later + 1 /\ (supGen = later + 1 => supGen = clientGen + 1)
    BY <1>0, <2>1 DEF IInv, OneAhead
  <2> QED
    BY <1>1, <2>2 DEF IInv, OneAhead, later
<1>6. CASE notices' = notices
  BY <1>0, <1>1, <1>2, <1>3, <1>4, <1>5, <1>6
  DEF IInv, ToldIsReached, RestartsAreNewer, RestartsAreAhead
<1>7. ASSUME NEW n \in Notice, notices' = Append(notices, n), Fits(n)
      PROVE  ToldIsReached' /\ RestartsAreNewer' /\ RestartsAreAhead'
  <2>1. /\ Len(notices') = Len(notices) + 1
        /\ \A i \in 1..Len(notices) : notices'[i] = notices[i]
        /\ notices'[Len(notices) + 1] = n
    BY <1>0, <1>7, AppendFacts
  <2>2. n.gen \in Nat
    BY DEF Notice, Generation
  <2>3. ToldIsReached'
    <3> SUFFICES ASSUME NEW i \in 1..Len(notices')
                 PROVE  /\ notices'[i].type \in {"Restart", "Reconnect"} => notices'[i].gen <= clientGen'
                        /\ notices'[i].type = "Stop" => notices'[i].gen < clientGen'
      BY DEF ToldIsReached
    <3>1. CASE i \in 1..Len(notices)
      BY <1>0, <1>3, <1>4, <2>1, <3>1 DEF IInv, ToldIsReached
    <3>2. CASE i = Len(notices) + 1
      BY <1>3, <1>7, <2>1, <2>2, <3>2 DEF Fits
    <3> QED
      BY <1>0, <2>1, <3>1, <3>2
  <2>4. RestartsAreNewer'
    <3> SUFFICES ASSUME NEW i \in 1..Len(notices'), NEW j \in 1..Len(notices'),
                        i < j, notices'[j].type = "Restart"
                 PROVE  /\ notices'[i].type \in {"Restart", "Reconnect"} =>
                             notices'[i].gen < notices'[j].gen
                        /\ notices'[i].type = "Stop" => notices'[i].gen + 1 < notices'[j].gen
      BY DEF RestartsAreNewer
    <3>0. i \in 1..Len(notices) /\ notices'[i] = notices[i]
      BY <1>0, <2>1
    <3>1. CASE j \in 1..Len(notices)
      BY <2>1, <3>0, <3>1 DEF IInv, RestartsAreNewer
    <3>2. CASE j = Len(notices) + 1
      <4>1. notices'[j].gen = clientGen + 1
        BY <1>7, <2>1, <3>2 DEF Fits
      <4> QED
        BY <1>0, <3>0, <4>1 DEF IInv, ToldIsReached
    <3> QED
      BY <1>0, <2>1, <3>1, <3>2
  <2>5. RestartsAreAhead'
    <3> SUFFICES ASSUME NEW i \in 1..Len(notices'), notices'[i].type = "Restart"
                 PROVE  \/ supGen < notices'[i].gen
                        \/ supGen = notices'[i].gen /\ sup \in {"Waiting", "Done"}
      BY <1>1 DEF RestartsAreAhead
    <3>1. CASE i \in 1..Len(notices)
      BY <2>1, <3>1 DEF IInv, RestartsAreAhead
    <3>2. CASE i = Len(notices) + 1
      <4>1. notices'[i].gen = clientGen + 1
        BY <1>7, <2>1, <3>2 DEF Fits
      <4> QED
        BY <1>0, <4>1 DEF IInv, OneAhead
    <3> QED
      BY <1>0, <2>1, <3>1, <3>2
  <2> QED
    BY <2>3, <2>4, <2>5
<1> QED
  BY <1>2, <1>5, <1>6, <1>7, ClientTells DEF IInv, TypeOK

\* What the supervisor has taken from its inbox, the facts about the rest no longer mention.
LEMMA HeadGone ==
  ASSUME IInv, notices # <<>>, notices' = Tail(notices), clientGen' = clientGen
  PROVE  /\ ToldIsReached' /\ RestartsAreNewer'
         /\ Head(notices) = notices[1] /\ 1 \in 1..Len(notices)
         /\ \A i \in 1..Len(notices') :
              i + 1 \in 2..Len(notices) /\ notices'[i] = notices[i + 1]
<1>1. /\ Len(notices) \in Nat \ {0}
      /\ Head(notices) = notices[1]
      /\ Len(notices') = Len(notices) - 1
      /\ \A i \in 1..Len(notices') : notices'[i] = notices[i + 1]
  BY TakeFacts DEF IInv, TypeOK, ChannelTypes
<1>2. /\ 1 \in 1..Len(notices)
      /\ \A i \in 1..Len(notices') : i + 1 \in 2..Len(notices)
  BY <1>1
<1>3. ToldIsReached'
  BY <1>1, <1>2 DEF IInv, ToldIsReached
<1>4. RestartsAreNewer'
  <2> SUFFICES ASSUME NEW i \in 1..Len(notices'), NEW j \in 1..Len(notices'),
                      i < j, notices'[j].type = "Restart"
               PROVE  /\ notices'[i].type \in {"Restart", "Reconnect"} =>
                           notices'[i].gen < notices'[j].gen
                      /\ notices'[i].type = "Stop" => notices'[i].gen + 1 < notices'[j].gen
    BY DEF RestartsAreNewer
  <2>1. i + 1 \in 1..Len(notices) /\ j + 1 \in 1..Len(notices) /\ i + 1 < j + 1
    BY <1>1, <1>2
  <2>2. notices'[i] = notices[i + 1] /\ notices'[j] = notices[j + 1]
    BY <1>1
  <2> QED
    BY <2>1, <2>2 DEF IInv, RestartsAreNewer
<1> QED
  BY <1>1, <1>2, <1>3, <1>4

\* The part of the invariant that a step of the supervisor can disturb.
InboxInv ==
  OneAhead /\ ToldIsReached /\ RestartsAreNewer /\ RestartsAreAhead /\ ChildIsBehind /\ NoOrphan

\* A step that keeps the supervisor's generation keeps the restarts ahead of it, unless the
\* supervisor stops waiting.
LEMMA AheadKept ==
  ASSUME IInv, clientGen' = clientGen, supGen' = supGen,
         notices' = notices \/ (notices # <<>> /\ notices' = Tail(notices)),
         sup \in {"Waiting", "Done"} => sup' \in {"Waiting", "Done"}
  PROVE  OneAhead' /\ ToldIsReached' /\ RestartsAreNewer' /\ RestartsAreAhead'
<1>1. OneAhead'
  BY DEF IInv, OneAhead
<1>2. CASE notices' = notices
  BY <1>1, <1>2 DEF IInv, ToldIsReached, RestartsAreNewer, RestartsAreAhead
<1>3. CASE notices # <<>> /\ notices' = Tail(notices)
  <2>1. ToldIsReached' /\ RestartsAreNewer'
    BY <1>3, HeadGone
  <2>2. \A i \in 1..Len(notices') : i + 1 \in 1..Len(notices) /\ notices'[i] = notices[i + 1]
    BY <1>3, HeadGone DEF IInv, TypeOK, ChannelTypes
  <2>3. RestartsAreAhead'
    BY <2>2 DEF IInv, RestartsAreAhead
  <2> QED
    BY <1>1, <2>1, <2>3
<1> QED
  BY <1>2, <1>3

\* A step that starts no process, keeps the generation, and lets its process go when it leaves
\* Live and Closing.
LEMMA UneventfulStep ==
  ASSUME IInv, clientGen' = clientGen, UNCHANGED <<supGen, child>>,
         notices' = notices \/ (notices # <<>> /\ notices' = Tail(notices)),
         sup' = sup \/ sup' \in {"Closing", "Draining", "Idle", "Done"},
         sup \in {"Waiting", "Done"} => sup' \in {"Waiting", "Done"},
         procs' \subseteq procs, sup' \notin {"Live", "Closing"} => procs' = {}
  PROVE  InboxInv'
<1>1. OneAhead' /\ ToldIsReached' /\ RestartsAreNewer' /\ RestartsAreAhead'
  BY AheadKept
<1>2. ChildIsBehind'
  BY DEF IInv, ChildIsBehind
<1>3. NoOrphan'
  BY DEF IInv, NoOrphan
<1> QED
  BY <1>1, <1>2, <1>3 DEF InboxInv

\* The supervisor's steps keep the invariant.
LEMMA SupervisorStepKeeps ==
  ASSUME IInv, SupervisorNext, UNCHANGED clientVars
  PROVE  InboxInv'
<1>0. /\ clientGen' = clientGen /\ clientGen \in Nat /\ supGen \in Nat /\ child \in Nat
      /\ procs \subseteq {child} /\ (sup \notin {"Live", "Closing"} => procs = {})
  BY DEF clientVars, IInv, TypeOK, ClientTypes, SupTypes, Generation, NoOrphan
<1>1. CASE OnShutdown
  BY <1>0, <1>1, UneventfulStep DEF OnShutdown, Take, Close, serverVars
<1>2. CASE OnHandshaken
  BY <1>0, <1>2, UneventfulStep DEF OnHandshaken, Take, serverVars
<1>3. CASE OnThreadNotice
  BY <1>0, <1>3, UneventfulStep DEF OnThreadNotice, Take, Drain, supVars
<1>4. CASE OnReplied
  BY <1>0, <1>4, UneventfulStep DEF OnReplied, Take, serverVars
<1>5. CASE ExitSeen
  BY <1>0, <1>5, UneventfulStep DEF ExitSeen, Drain, channelVars
<1>6. CASE DeadlineFires
  BY <1>0, <1>6, UneventfulStep DEF DeadlineFires, Drain, channelVars
<1>7. CASE ReplyExpires
  BY <1>0, <1>7, UneventfulStep DEF ReplyExpires, serverVars
<1>8. CASE ClosingOver
  BY <1>0, <1>8, UneventfulStep DEF ClosingOver
<1>9. CASE OnReconnect
  <2>1. CASE sup' = sup
    BY <1>0, <1>9, <2>1, UneventfulStep DEF OnReconnect, Take, serverVars
  <2>2. CASE sup' # sup
    <3>1. /\ sup = "Waiting" /\ sup' = "Backoff" /\ supGen' = supGen /\ child' = child
          /\ procs' = procs /\ notices # <<>> /\ notices' = Tail(notices)
          /\ Head(notices).type = "Reconnect" /\ Head(notices).gen = supGen
      BY <1>9, <2>2 DEF OnReconnect, Take, serverVars
    <3>2. notices[1].type = "Reconnect" /\ notices[1].gen = supGen /\ 1 \in 1..Len(notices)
      BY <1>0, <3>1, HeadGone
    <3>3. OneAhead'
      <4>1. supGen <= clientGen
        BY <3>2 DEF IInv, ToldIsReached
      <4> QED
        BY <1>0, <3>1, <4>1 DEF OneAhead
    <3>4. RestartsAreAhead'
      <4> SUFFICES ASSUME NEW i \in 1..Len(notices'), notices'[i].type = "Restart"
                   PROVE  supGen < notices'[i].gen
        BY <3>1 DEF RestartsAreAhead
      <4>1. i + 1 \in 2..Len(notices) /\ notices'[i] = notices[i + 1]
        BY <1>0, <3>1, HeadGone
      <4>2. i + 1 \in 1..Len(notices) /\ 1 < i + 1
        BY <4>1
      <4> QED
        BY <3>2, <4>1, <4>2 DEF IInv, RestartsAreNewer
    <3>5. ChildIsBehind' /\ NoOrphan'
      BY <3>1 DEF IInv, ChildIsBehind, NoOrphan
    <3> QED
      BY <1>0, <3>1, <3>3, <3>4, <3>5, HeadGone DEF InboxInv
  <2> QED
    BY <2>1, <2>2
<1>10. CASE OnStop
  <2>1. notices # <<>> /\ notices' = Tail(notices) /\ Head(notices).type = "Stop"
    BY <1>10 DEF OnStop, Take
  <2>2. CASE sup = "Closing" \/ Head(notices).gen # supGen
    BY <1>0, <1>10, <2>1, <2>2, UneventfulStep DEF OnStop, Close, supVars, serverVars
  <2>3. CASE sup # "Closing" /\ Head(notices).gen = supGen
    <3>1. /\ supGen' = supGen + 1 /\ child' = child /\ procs' = procs
          /\ \/ sup = "Live" /\ sup' = "Closing"
             \/ sup \notin {"Live", "Closing"} /\ sup' = "Idle"
      BY <1>10, <2>3 DEF OnStop, Close, serverVars
    <3>2. notices[1].type = "Stop" /\ notices[1].gen = supGen /\ 1 \in 1..Len(notices)
      BY <1>0, <2>1, <2>3, HeadGone
    <3>3. OneAhead'
      <4>1. supGen < clientGen
        BY <3>2 DEF IInv, ToldIsReached
      <4>2. supGen + 1 <= clientGen /\ supGen + 1 # clientGen + 1
        BY <1>0, <4>1
      <4>3. supGen + 1 <= clientGen + 1
        BY <1>0, <4>2
      <4> QED
        BY <1>0, <3>1, <4>2, <4>3 DEF OneAhead
    <3>4. RestartsAreAhead'
      <4> SUFFICES ASSUME NEW i \in 1..Len(notices'), notices'[i].type = "Restart"
                   PROVE  supGen + 1 < notices'[i].gen
        BY <3>1 DEF RestartsAreAhead
      <4>1. i + 1 \in 2..Len(notices) /\ notices'[i] = notices[i + 1]
        BY <1>0, <2>1, HeadGone
      <4>2. i + 1 \in 1..Len(notices) /\ 1 < i + 1
        BY <4>1
      <4> QED
        BY <3>2, <4>1, <4>2 DEF IInv, RestartsAreNewer
    <3>5. ChildIsBehind'
      <4>1. child <= supGen
        BY DEF IInv, ChildIsBehind
      <4>2. child <= supGen + 1
        BY <1>0, <4>1
      <4> QED
        BY <3>1, <4>2 DEF ChildIsBehind
    <3>6. NoOrphan'
      BY <1>0, <3>1 DEF NoOrphan
    <3> QED
      BY <1>0, <2>1, <3>3, <3>4, <3>5, <3>6, HeadGone DEF InboxInv
  <2> QED
    BY <2>2, <2>3
<1>11. CASE OnRestart
  <2> DEFINE n == Head(notices)
  <2>1. notices # <<>> /\ notices' = Tail(notices) /\ n.type = "Restart" /\ sup # "Done"
    BY <1>11 DEF OnRestart, Take
  <2>2. CASE ~(n.gen >= supGen /\ ~(sup = "Closing" /\ ending = "Stopped"))
    BY <1>0, <1>11, <2>1, <2>2, UneventfulStep DEF OnRestart, supVars, serverVars
  <2>3. CASE n.gen >= supGen /\ ~(sup = "Closing" /\ ending = "Stopped")
    <3>1. /\ supGen' = n.gen
          /\ \/ sup' = "Live" /\ child' = n.gen
                /\ procs' = (IF sup \in {"Live", "Closing"} THEN procs \ {child} ELSE procs) \cup {n.gen}
             \/ sup' = "Backoff" /\ child' = child
                /\ procs' = IF sup \in {"Live", "Closing"} THEN procs \ {child} ELSE procs
      BY <1>11, <2>3 DEF OnRestart
    <3>2. /\ notices[1] = n /\ 1 \in 1..Len(notices) /\ n.gen \in Nat
      BY <1>0, <2>1, HeadGone, TakeTypes, <1>11 DEF OnRestart, IInv, TypeOK, Generation
    <3>3. child < n.gen
      <4>1. supGen < n.gen \/ (supGen = n.gen /\ sup = "Waiting")
        BY <2>1, <3>2 DEF IInv, RestartsAreAhead
      <4>2. child <= supGen /\ (sup = "Waiting" => child < supGen)
        BY DEF IInv, ChildIsBehind
      <4>3. CASE supGen < n.gen
        BY <1>0, <3>2, <4>2, <4>3
      <4>4. CASE supGen = n.gen /\ sup = "Waiting"
        BY <4>2, <4>4
      <4> QED
        BY <4>1, <4>3, <4>4
    <3>4. OneAhead'
      <4>1. n.gen <= clientGen
        BY <2>1, <3>2 DEF IInv, ToldIsReached
      <4>2. n.gen <= clientGen + 1 /\ n.gen # clientGen + 1
        BY <1>0, <3>2, <4>1
      <4> QED
        BY <1>0, <3>1, <4>2 DEF OneAhead
    <3>5. RestartsAreAhead'
      <4> SUFFICES ASSUME NEW i \in 1..Len(notices'), notices'[i].type = "Restart"
                   PROVE  n.gen < notices'[i].gen
        BY <3>1 DEF RestartsAreAhead
      <4>1. i + 1 \in 2..Len(notices) /\ notices'[i] = notices[i + 1]
        BY <1>0, <2>1, HeadGone
      <4>2. i + 1 \in 1..Len(notices) /\ 1 < i + 1
        BY <4>1
      <4> QED
        BY <2>1, <3>2, <4>1, <4>2 DEF IInv, RestartsAreNewer
    <3>6. ChildIsBehind'
      <4>1. child <= n.gen /\ n.gen <= n.gen
        BY <1>0, <3>2, <3>3
      <4> QED
        BY <3>1, <3>3, <4>1 DEF ChildIsBehind
    <3>7. NoOrphan'
      BY <1>0, <3>1 DEF NoOrphan
    <3> QED
      BY <1>0, <2>1, <3>4, <3>5, <3>6, <3>7, HeadGone DEF InboxInv
  <2> QED
    BY <2>2, <2>3
<1>12. CASE DrainDone
  <2>1. /\ sup = "Draining" /\ sup' = "Waiting" /\ supGen' = supGen + 1
        /\ child' = child /\ procs' = procs /\ notices' = notices
    BY <1>12 DEF DrainDone, serverVars
  <2>2. OneAhead'
    <3>1. supGen <= clientGen + 1 /\ supGen # clientGen + 1
      BY <2>1 DEF IInv, OneAhead
    <3>2. supGen + 1 <= clientGen + 1
      BY <1>0, <3>1
    <3> QED
      BY <1>0, <2>1, <3>2 DEF OneAhead
  <2>3. RestartsAreAhead'
    <3> SUFFICES ASSUME NEW i \in 1..Len(notices), notices[i].type = "Restart"
                 PROVE  supGen + 1 < notices[i].gen \/ supGen + 1 = notices[i].gen
      BY <2>1 DEF RestartsAreAhead
    <3>1. supGen < notices[i].gen
      BY <2>1 DEF IInv, RestartsAreAhead
    <3>2. notices[i].gen \in Nat
      <4>1. notices[i] \in Notice
        BY DEF IInv, TypeOK, ChannelTypes
      <4> QED
        BY <4>1 DEF Notice, Generation
    <3> QED
      BY <1>0, <3>1, <3>2
  <2>4. ChildIsBehind'
    <3>1. child <= supGen
      BY DEF IInv, ChildIsBehind
    <3>2. child <= supGen + 1 /\ child < supGen + 1
      BY <1>0, <3>1
    <3> QED
      BY <2>1, <3>2 DEF ChildIsBehind
  <2>5. NoOrphan' /\ ToldIsReached' /\ RestartsAreNewer'
    BY <1>0, <2>1 DEF NoOrphan, IInv, ToldIsReached, RestartsAreNewer
  <2> QED
    BY <2>2, <2>3, <2>4, <2>5 DEF InboxInv
<1>13. CASE BackoffDone
  <2>1. /\ sup = "Backoff" /\ supGen' = supGen /\ notices' = notices
        /\ \/ sup' = "Live" /\ child' = supGen /\ procs' = procs \cup {supGen}
           \/ sup' = "Backoff" /\ UNCHANGED <<child, procs>>
    BY <1>13 DEF BackoffDone, Connect
  <2>2. OneAhead' /\ ToldIsReached' /\ RestartsAreNewer' /\ RestartsAreAhead'
    BY <1>0, <2>1, AheadKept
  <2>3. ChildIsBehind'
    <3>1. child <= supGen /\ child < supGen /\ supGen <= supGen
      BY <1>0, <2>1 DEF IInv, ChildIsBehind
    <3> QED
      BY <2>1, <3>1 DEF ChildIsBehind
  <2>4. NoOrphan'
    BY <1>0, <2>1 DEF NoOrphan
  <2> QED
    BY <2>2, <2>3, <2>4 DEF InboxInv
<1> QED
  BY <1>1, <1>2, <1>3, <1>4, <1>5, <1>6, <1>7, <1>8, <1>9, <1>10, <1>11, <1>12, <1>13
  DEF SupervisorNext, TakeNotice, Tick

\* The servers and their threads only add thread notices and end processes.
LEMMA ServerStepKeeps ==
  ASSUME IInv, ServerNext, UNCHANGED clientVars
  PROVE  InboxInv'
<1>0. clientGen' = clientGen
  BY DEF clientVars
<1>1. UNCHANGED supVars /\ procs' \subseteq procs
  BY DEF ServerNext, ServerAnswers, ServerCrashes, ServerExits, ReaderDelivers, ReaderEnds,
         WriterTrouble
<1>2. UNCHANGED <<supGen, sup, child>>
  BY <1>1 DEF supVars
<1>3. OneAhead' /\ ChildIsBehind' /\ NoOrphan'
  BY <1>0, <1>1, <1>2 DEF IInv, OneAhead, ChildIsBehind, NoOrphan
<1>4. \/ notices' = notices
      \/ \E n \in Notice : n.type \in ThreadTypes /\ notices' = Append(notices, n)
  <2>1. \A type \in ThreadTypes, g \in Generation :
          Tell(type, g) \in Notice /\ Tell(type, g).type \in ThreadTypes
    BY MessageTypes DEF Tell
  <2>2. procs \subseteq Generation /\ reading \subseteq Generation
    BY DEF IInv, TypeOK, ServerTypes
  <2>3. CASE ServerAnswers \/ ServerCrashes \/ ServerExits
    BY <2>3 DEF ServerAnswers, ServerCrashes, ServerExits, channelVars
  <2>4. CASE ReaderDelivers
    BY <2>1, <2>2, <2>4 DEF ReaderDelivers, ThreadTypes
  <2>5. CASE ReaderEnds
    BY <2>1, <2>2, <2>5 DEF ReaderEnds, ThreadTypes
  <2>6. CASE WriterTrouble
    BY <2>1, <2>2, <2>6 DEF WriterTrouble, ThreadTypes
  <2> QED
    BY <2>3, <2>4, <2>5, <2>6 DEF ServerNext
<1>5. CASE notices' = notices
  BY <1>0, <1>2, <1>3, <1>5 DEF InboxInv, IInv, ToldIsReached, RestartsAreNewer, RestartsAreAhead
<1>6. ASSUME NEW n \in Notice, n.type \in ThreadTypes, notices' = Append(notices, n)
      PROVE  ToldIsReached' /\ RestartsAreNewer' /\ RestartsAreAhead'
  <2>1. /\ Len(notices) \in Nat
        /\ Len(notices') = Len(notices) + 1
        /\ \A i \in 1..Len(notices) : notices'[i] = notices[i]
        /\ notices'[Len(notices) + 1] = n
    BY <1>6, AppendFacts DEF IInv, TypeOK, ChannelTypes
  <2>2. \A i \in 1..Len(notices') :
          notices'[i].type \in ControlTypes => i \in 1..Len(notices)
    BY <1>6, <2>1 DEF ThreadTypes, ControlTypes
  <2>3. ToldIsReached'
    BY <1>0, <2>1, <2>2 DEF IInv, ToldIsReached, ControlTypes
  <2>4. RestartsAreAhead'
    BY <1>2, <2>1, <2>2 DEF IInv, RestartsAreAhead, ControlTypes
  <2>5. RestartsAreNewer'
    <3> SUFFICES ASSUME NEW i \in 1..Len(notices'), NEW j \in 1..Len(notices'),
                        i < j, notices'[j].type = "Restart"
                 PROVE  /\ notices'[i].type \in {"Restart", "Reconnect"} =>
                             notices'[i].gen < notices'[j].gen
                        /\ notices'[i].type = "Stop" => notices'[i].gen + 1 < notices'[j].gen
      BY DEF RestartsAreNewer
    <3>1. j \in 1..Len(notices)
      BY <2>2 DEF ControlTypes
    <3>2. i \in 1..Len(notices) /\ notices'[i] = notices[i] /\ notices'[j] = notices[j]
      BY <2>1, <3>1
    <3> QED
      BY <3>1, <3>2 DEF IInv, RestartsAreNewer
  <2> QED
    BY <2>3, <2>4, <2>5
<1> QED
  BY <1>3, <1>4, <1>5, <1>6 DEF InboxInv

----------------------------------------------------------------------------
LEMMA InitInv == Init => IInv
<1> SUFFICES ASSUME Init PROVE IInv
  OBVIOUS
<1>1. /\ notices = <<>> /\ supGen = 0 /\ clientGen = 0 /\ child = 0 /\ procs = {0} /\ sup = "Live"
  BY DEF Init, ClientInit, SupInit
<1>2. OneAhead /\ ChildIsBehind /\ NoOrphan
  BY <1>1 DEF OneAhead, ChildIsBehind, NoOrphan
<1>3. ToldIsReached /\ RestartsAreNewer /\ RestartsAreAhead
  BY <1>1 DEF ToldIsReached, RestartsAreNewer, RestartsAreAhead
<1> QED
  BY <1>2, <1>3, InitTypes DEF IInv

LEMMA NextInv == IInv /\ [Next]_vars => IInv'
<1> SUFFICES ASSUME IInv, [Next]_vars PROVE IInv'
  OBVIOUS
<1>1. TypeOK'
  BY NextTypes DEF IInv
<1>2. CASE ClientNext /\ UNCHANGED <<supVars, serverVars>>
  BY <1>1, <1>2, ClientStepKeeps DEF IInv
<1>3. CASE (SupervisorNext \/ ServerNext) /\ UNCHANGED clientVars
  BY <1>1, <1>3, SupervisorStepKeeps, ServerStepKeeps DEF IInv, InboxInv
<1>4. CASE UNCHANGED vars
  <2>1. UNCHANGED <<notices, supGen, clientGen, child, procs, sup>>
    BY <1>4 DEF vars, clientVars, supVars, serverVars, channelVars
  <2> QED
    BY <1>1, <2>1 DEF IInv, OneAhead, ToldIsReached, RestartsAreNewer, RestartsAreAhead,
                      ChildIsBehind, NoOrphan
<1> QED
  BY <1>2, <1>3, <1>4 DEF Next

\* The inductive invariant behind the theorems below.
THEOREM Invariance == Spec => []IInv
BY InitInv, NextInv, PTL DEF Spec

\* No restart the host asks for reaches the supervisor too late to apply: the debug_assert of
\* Supervisor::control never fails.
THEOREM RestartsNeverBehind == Spec => []NeverBehind
<1>1. IInv => NeverBehind
  <2> SUFFICES ASSUME IInv, NEW i \in 1..Len(notices), notices[i].type = "Restart"
               PROVE  notices[i].gen >= supGen
    BY DEF NeverBehind
  <2>1. notices[i] \in Notice
    BY DEF IInv, TypeOK, ChannelTypes
  <2>2. notices[i].gen \in Nat /\ supGen \in Nat
    BY <2>1 DEF Notice, Generation, IInv, TypeOK, SupTypes
  <2>3. supGen < notices[i].gen \/ supGen = notices[i].gen
    BY DEF IInv, RestartsAreAhead
  <2> QED
    BY <2>2, <2>3
<1> QED
  BY <1>1, Invariance, PTL

\* The supervisor runs ahead of the client by at most one generation, and only while it waits for
\* the client's answer to a loss.
THEOREM SupervisorOneAhead == Spec => []OneAhead
<1>1. IInv => OneAhead
  BY DEF IInv
<1> QED
  BY <1>1, Invariance, PTL

\* The only server process that ever runs is the one the supervisor holds.
THEOREM NoOrphanedServer == Spec => []NoOrphan
<1>1. IInv => NoOrphan
  BY DEF IInv
<1> QED
  BY <1>1, Invariance, PTL

----------------------------------------------------------------------------
\* Every step of the bridge starts one newer server in an empty slot, ends the one that runs,
\* finishes, or is none of OneServer's concern.
LEMMA StepRefines == IInv /\ [Next]_vars => [Servers!Next]_Servers!vars
<1> SUFFICES ASSUME IInv, [Next]_vars PROVE [Servers!Next]_Servers!vars
  OBVIOUS
<1>0. /\ supGen \in Nat /\ child \in Nat /\ procs \subseteq {child}
      /\ sup \notin {"Live", "Closing"} => procs = {}
  BY DEF IInv, TypeOK, SupTypes, Generation, NoOrphan
<1>1. ASSUME child' = child, procs' = procs \/ procs' = {}, sup' = "Done" <=> sup = "Done"
      PROVE  [Servers!Next]_Servers!vars
  BY <1>1 DEF Servers!Next, Servers!vars, Servers!End
<1>2. ASSUME child' = child, procs' = {}, sup' = "Done"
      PROVE  [Servers!Next]_Servers!vars
  BY <1>2 DEF Servers!Next, Servers!Finish
<1>3. ASSUME sup # "Done", sup' # "Done", child' \in Nat, child' > child, procs' = {child'}
      PROVE  [Servers!Next]_Servers!vars
  BY <1>3 DEF Servers!Next, Servers!Start
<1>4. CASE ClientNext /\ UNCHANGED <<supVars, serverVars>>
  BY <1>1, <1>4 DEF supVars, serverVars
<1>5. CASE UNCHANGED vars
  BY <1>1, <1>5 DEF vars, supVars, serverVars
<1>6. CASE ServerNext
  <2>1. UNCHANGED supVars /\ procs' \subseteq procs
    BY <1>6 DEF ServerNext, ServerAnswers, ServerCrashes, ServerExits, ReaderDelivers, ReaderEnds,
                WriterTrouble
  <2>2. procs' = procs \/ procs' = {}
    BY <1>0, <2>1
  <2> QED
    BY <1>1, <2>1, <2>2 DEF supVars
<1>7. CASE OnHandshaken \/ OnReconnect \/ OnReplied \/ ReplyExpires \/ DrainDone
  BY <1>1, <1>7 DEF OnHandshaken, OnReconnect, OnReplied, ReplyExpires, DrainDone, Take, serverVars
<1>8. CASE OnShutdown
  BY <1>0, <1>1, <1>2, <1>8 DEF OnShutdown, Take, Close, serverVars
<1>9. CASE OnStop
  BY <1>1, <1>9 DEF OnStop, Take, Close, supVars, serverVars
<1>10. CASE OnThreadNotice \/ ExitSeen \/ DeadlineFires
  BY <1>0, <1>1, <1>10 DEF OnThreadNotice, ExitSeen, DeadlineFires, Take, Drain, supVars
<1>11. CASE ClosingOver
  BY <1>0, <1>1, <1>2, <1>11 DEF ClosingOver
<1>12. CASE BackoffDone
  <2>1. child < supGen
    BY <1>12 DEF BackoffDone, IInv, ChildIsBehind
  <2>2. \/ sup' = "Live" /\ child' = supGen /\ procs' = {supGen}
        \/ sup' = "Backoff" /\ UNCHANGED <<child, procs>>
    BY <1>0, <1>12 DEF BackoffDone, Connect
  <2> QED
    BY <1>0, <1>1, <1>3, <1>12, <2>1, <2>2 DEF BackoffDone
<1>13. CASE OnRestart
  <2> DEFINE n == Head(notices)
  <2>1. notices # <<>> /\ n.type = "Restart" /\ sup # "Done"
    BY <1>13 DEF OnRestart, Take
  <2>2. CASE ~(n.gen >= supGen /\ ~(sup = "Closing" /\ ending = "Stopped"))
    BY <1>1, <1>13, <2>2 DEF OnRestart, supVars, serverVars
  <2>3. CASE n.gen >= supGen /\ ~(sup = "Closing" /\ ending = "Stopped")
    <3>1. n.gen \in Nat
      BY <1>13, TakeTypes DEF OnRestart, IInv, TypeOK, Generation
    <3>2. n = notices[1] /\ 1 \in 1..Len(notices)
      BY <2>1, TakeFacts DEF IInv, TypeOK, ChannelTypes
    <3>3. child < n.gen
      <4>1. supGen < n.gen \/ (supGen = n.gen /\ sup = "Waiting")
        BY <2>1, <3>2 DEF IInv, RestartsAreAhead
      <4>2. child <= supGen /\ (sup = "Waiting" => child < supGen)
        BY DEF IInv, ChildIsBehind
      <4>3. CASE supGen < n.gen
        BY <1>0, <3>1, <4>2, <4>3
      <4>4. CASE supGen = n.gen /\ sup = "Waiting"
        BY <4>2, <4>4
      <4> QED
        BY <4>1, <4>3, <4>4
    <3>4. \/ sup' = "Live" /\ child' = n.gen /\ procs' = {n.gen}
          \/ sup' = "Backoff" /\ child' = child /\ procs' = {}
      BY <1>0, <1>13, <2>3 DEF OnRestart
    <3> QED
      BY <1>0, <1>1, <1>3, <2>1, <3>1, <3>3, <3>4
  <2> QED
    BY <2>2, <2>3
<1> QED
  BY <1>4, <1>5, <1>6, <1>7, <1>8, <1>9, <1>10, <1>11, <1>12, <1>13
  DEF Next, SupervisorNext, TakeNotice, Tick

\* The stdio bridge implements OneServer: at most one process, each newer than the last, and none
\* after the stop.
THEOREM ImplementsOneServer == Spec => RunsOneServer
<1>1. Init => Servers!Init
  BY DEF Init, SupInit, Servers!Init
<1> QED
  BY <1>1, StepRefines, Invariance, PTL DEF Spec, RunsOneServer, Servers!Spec

----------------------------------------------------------------------------
LEMMA NextLetGo == LetGoBeforeReconnect /\ [Next]_vars => LetGoBeforeReconnect'
<1> SUFFICES ASSUME LetGoBeforeReconnect, [Next]_vars PROVE LetGoBeforeReconnect'
  OBVIOUS
<1>1. CASE UNCHANGED clientVars
  BY <1>1 DEF clientVars, LetGoBeforeReconnect
<1> QED
  BY <1>1, ClientLetsGo DEF Next, vars

\* No request of a dead server is carried into the next connection: the debug_assert of
\* Session::reinitialize never fails.
THEOREM SessionLetGo == Spec => []LetGoBeforeReconnect
<1>1. Init => LetGoBeforeReconnect
  BY DEF Init, ClientInit, LetGoBeforeReconnect
<1> QED
  BY <1>1, NextLetGo, PTL DEF Spec


----------------------------------------------------------------------------
\* A report is in flight once it is made, and until the client received it.
LEMMA ReportedFlies ==
  ASSUME TypeOK, NEW e \in Event, Reported(e), inbox' = inbox
  PROVE  \A x : x \in InFlight' <=> x \in InFlight \/ x = e
<1>1. \A x : x \in Carried(events)' <=> x \in Carried(events) \/ x = e
  BY CarriedMore DEF TypeOK, ChannelTypes, Carried, Reported
<1>2. Carried(inbox)' = Carried(inbox)
  BY DEF Carried
<1> QED
  BY <1>1, <1>2 DEF InFlight

----------------------------------------------------------------------------

LEMMA PoliteForm == PoliteGoodbye <=> \A g : <<g, "shutdown">> \in sent => g \in acked
<1>1. ASSUME NEW g, <<g, "shutdown">> \in sent PROVE g \in {pair[1] : pair \in sent}
  <2>1. <<g, "shutdown">>[1] = g
    OBVIOUS
  <2> QED
    BY <1>1, <2>1
<1> QED
  BY <1>1 DEF PoliteGoodbye

LEMMA ClientHandshake ==
  ASSUME TypeOK, HandshakeInv, ClientNext, UNCHANGED <<supVars, serverVars>>
  PROVE  HandshakeInv'
<1>0. HeldIsCurrent /\ RepliesAreTrue /\ BeliefIsTrue /\ PoliteGoodbye
  BY DEF HandshakeInv
<1>1. HeldIsCurrent'
  BY <1>0 DEF HeldIsCurrent, supVars
<1>2. RepliesAreTrue'
  BY <1>0, ClientFlight DEF RepliesAreTrue, OwnAreStatuses, serverVars, TypeOK
<1>3. BeliefIsTrue'
  <2>1. \A n \in Carried(notices) : TrueGoodbye(n, acked)
    BY <1>0 DEF BeliefIsTrue, TrueGoodbye
  <2>2. /\ session' = "Running" => link' \in acked
        /\ \/ notices' = notices
           \/ \E n \in Notice : notices' = Append(notices, n) /\ TrueGoodbye(n, acked)
    <3>1. /\ \A e \in InFlight : e.type = "Message" /\ e.arg = "initialized" => e.gen \in acked
          /\ session = "Running" => link \in acked
      BY <1>0 DEF RepliesAreTrue, BeliefIsTrue
    <3> QED
      BY <3>1, ClientBelieves DEF TypeOK
  <2>3. \A n \in Carried(notices)' : TrueGoodbye(n, acked)
    BY <2>1, <2>2, ToldCarries, FlightUnmoved DEF TypeOK
  <2> QED
    BY <2>2, <2>3 DEF BeliefIsTrue, TrueGoodbye, serverVars
<1>4. PoliteGoodbye'
  <2>1. \A g : <<g, "shutdown">> \in sent' => <<g, "shutdown">> \in sent
    BY DEF ClientNext, Receive, RestartCall, RestartReturn, ShutdownCall, DropClient, Poll,
           ReceiveInitialized, ReceiveRefused, ReceiveStale, ReceiveLost, ReceiveAttempting,
           ReceiveReconnected, ReceiveStopped, ReceiveStatus, Ignored, channelVars
  <2>2. \A g : <<g, "shutdown">> \in sent' => g \in acked'
    BY <1>0, <2>1, PoliteForm DEF serverVars
  <2>3. (PoliteGoodbye <=> \A g : <<g, "shutdown">> \in sent => g \in acked)'
    BY PoliteForm, PTL
  <2> QED
    BY <2>2, <2>3
<1> QED
  BY <1>1, <1>2, <1>3, <1>4 DEF HandshakeInv

\* The supervisor reports no message of a server and no status of the client, and what it takes from
\* its inbox it takes from the head.
LEMMA SupervisorReports ==
  ASSUME TypeOK, SupervisorNext
  PROVE  /\ events' = events \/ \E e \in Event : Reported(e) /\ e.type \notin {"Message", "Status"}
         /\ notices' = notices \/ (notices # <<>> /\ notices' = Tail(notices))
         /\ UNCHANGED <<pipe, acked, answered>>
<1>0. /\ supGen \in Generation /\ cause \in Reasons /\ Report("Stopped", 0, "Shutdown") \in Event
      /\ Report("Stopped", 0, "Shutdown").type \notin {"Message", "Status"}
      /\ \A g \in Generation, type \in {"Attempting", "Reconnected"} :
           Report(type, g, "none") \in Event /\ Report(type, g, "none").type \notin {"Message", "Status"}
  BY MessageTypes DEF TypeOK, SupTypes, Report, Generation, Reasons
<1>1. CASE OnShutdown \/ ClosingOver
  BY <1>0, <1>1 DEF OnShutdown, ClosingOver, Take, serverVars
<1>2. CASE OnHandshaken \/ OnReconnect \/ OnStop \/ OnThreadNotice \/ OnReplied \/ ReplyExpires
  BY <1>2 DEF OnHandshaken, OnReconnect, OnStop, OnThreadNotice, OnReplied, ReplyExpires, Take,
              serverVars
<1>3. CASE OnRestart
  <2>1. Head(notices).gen \in Generation
    BY <1>3, TakeTypes DEF OnRestart, TypeOK
  <2> QED
    BY <1>0, <1>3, <2>1 DEF OnRestart, Take, serverVars
<1>4. CASE ExitSeen \/ DeadlineFires
  BY <1>4 DEF ExitSeen, DeadlineFires, channelVars
<1>5. CASE DrainDone
  <2>1. supGen + 1 \in Generation
    BY <1>0 DEF Generation
  <2>2. Report("Lost", supGen + 1, cause) \in Event
    BY <1>0, <2>1, MessageTypes
  <2>3. Report("Lost", supGen + 1, cause).type \notin {"Message", "Status"}
    BY DEF Report
  <2> QED
    BY <1>5, <2>2, <2>3 DEF DrainDone, serverVars
<1>6. CASE BackoffDone
  BY <1>0, <1>6 DEF BackoffDone, Connect
<1> QED
  BY <1>1, <1>2, <1>3, <1>4, <1>5, <1>6 DEF SupervisorNext, TakeNotice, Tick

\* The supervisor holds the process of its own generation, and asks one for its shutdown only on
\* the word of a client that heard it answer.
LEMMA SupervisorHolds ==
  ASSUME TypeOK, HeldIsCurrent, BeliefIsTrue, PoliteGoodbye, SupervisorNext
  PROVE  /\ HeldIsCurrent'
         /\ \A g : <<g, "shutdown">> \in sent' => g \in acked
<1>0. \A g : <<g, "shutdown">> \in sent => g \in acked
  BY PoliteForm
<1>1. CASE OnShutdown
  <2> DEFINE n == Head(notices)
  <2>1. n \in Carried(notices) /\ n.type = "Shutdown"
    BY <1>1, CarriedLess DEF OnShutdown, Take, TypeOK, ChannelTypes
  <2>2. n.done => n.gen \in acked
    BY <2>1 DEF BeliefIsTrue
  <2>3. CASE sup = "Live"
    <3>1. child = supGen /\ Close(n.done /\ n.gen = supGen, "Stopped")
      BY <1>1, <2>3 DEF HeldIsCurrent, OnShutdown
    <3>2. CASE n.done /\ n.gen = supGen
      BY <1>0, <2>2, <3>1, <3>2 DEF Close, HeldIsCurrent
    <3>3. CASE ~(n.done /\ n.gen = supGen)
      BY <1>0, <3>1, <3>3 DEF Close, Leave, HeldIsCurrent
    <3> QED
      BY <3>2, <3>3
  <2>4. CASE sup # "Live"
    BY <1>0, <1>1, <2>4 DEF OnShutdown, HeldIsCurrent
  <2> QED
    BY <2>3, <2>4
<1>2. CASE OnHandshaken \/ OnReconnect
  BY <1>0, <1>2 DEF OnHandshaken, OnReconnect, HeldIsCurrent
<1>3. CASE OnStop
  BY <1>0, <1>3 DEF OnStop, Close, Leave, HeldIsCurrent, supVars
<1>4. CASE OnRestart
  BY <1>0, <1>4 DEF OnRestart, HeldIsCurrent, supVars
<1>5. CASE OnThreadNotice
  BY <1>0, <1>5 DEF OnThreadNotice, Drain, HeldIsCurrent, supVars
<1>6. CASE OnReplied \/ ReplyExpires
  BY <1>0, <1>6 DEF OnReplied, ReplyExpires, Leave, HeldIsCurrent
<1>7. CASE ExitSeen \/ DeadlineFires
  BY <1>0, <1>7 DEF ExitSeen, DeadlineFires, Drain, HeldIsCurrent, channelVars
<1>8. CASE DrainDone \/ BackoffDone \/ ClosingOver
  BY <1>0, <1>8 DEF DrainDone, BackoffDone, Connect, ClosingOver, HeldIsCurrent
<1> QED
  BY <1>1, <1>2, <1>3, <1>4, <1>5, <1>6, <1>7, <1>8 DEF SupervisorNext, TakeNotice, Tick

LEMMA SupervisorHandshake ==
  ASSUME TypeOK, HandshakeInv, SupervisorNext, UNCHANGED clientVars
  PROVE  HandshakeInv'
<1>0. HeldIsCurrent /\ RepliesAreTrue /\ BeliefIsTrue /\ PoliteGoodbye
  BY DEF HandshakeInv
<1>1. HeldIsCurrent' /\ PoliteGoodbye'
  <2>1. (PoliteGoodbye <=> \A g : <<g, "shutdown">> \in sent => g \in acked)'
    BY PoliteForm, PTL
  <2> QED
    BY <1>0, <2>1, SupervisorHolds, SupervisorReports
<1>2. inbox' = inbox /\ local' = local /\ session' = session /\ link' = link
  BY DEF clientVars
<1>3. RepliesAreTrue'
  <2>1. \A x \in InFlight' : x \in InFlight \/ x.type # "Message"
    BY <1>2, SupervisorReports, ReportedFlies, FlightUnmoved
  <2> QED
    BY <1>0, <1>2, <2>1, SupervisorReports, FlightUnmoved DEF RepliesAreTrue
<1>4. BeliefIsTrue'
  <2>1. \A x \in Carried(notices)' : x \in Carried(notices)
    BY SupervisorReports, TakenCarries, FlightUnmoved DEF TypeOK
  <2> QED
    BY <1>0, <1>2, <2>1, SupervisorReports DEF BeliefIsTrue
<1> QED
  BY <1>1, <1>3, <1>4 DEF HandshakeInv

\* A reader passes on what the server wrote; nothing else of a connection's threads reaches the
\* client or ends the handshake.
LEMMA ServerHandshake ==
  ASSUME TypeOK, HandshakeInv, ServerNext, UNCHANGED clientVars
  PROVE  HandshakeInv'
<1>0. /\ HeldIsCurrent /\ RepliesAreTrue /\ BeliefIsTrue /\ PoliteGoodbye
      /\ inbox' = inbox /\ local' = local /\ session' = session /\ link' = link
  BY DEF HandshakeInv, clientVars
<1>1. /\ UNCHANGED supVars /\ sent' = sent /\ acked \subseteq acked'
      /\ \A r \in pipe' : r[2] = "initialized" => r[1] \in acked'
      /\ \/ events' = events
         \/ \E g \in reading, reply \in Replies :
              <<g, reply>> \in pipe /\ Reported(Report("Message", g, reply))
      /\ \/ notices' = notices
         \/ \E n \in Notice : n.type # "Shutdown" /\ notices' = Append(notices, n)
  <2>1. CASE ServerAnswers
    BY <1>0, <2>1 DEF ServerAnswers, RepliesAreTrue, channelVars
  <2>2. CASE ServerCrashes \/ ServerExits
    BY <1>0, <2>2 DEF ServerCrashes, ServerExits, RepliesAreTrue, channelVars
  <2>3. \A type \in ThreadTypes, g \in Generation :
          Tell(type, g) \in Notice /\ Tell(type, g).type # "Shutdown"
    BY MessageTypes DEF Tell, ThreadTypes
  <2>4. procs \subseteq Generation /\ reading \subseteq Generation
    BY DEF TypeOK, ServerTypes
  <2>5. CASE ReaderDelivers
    BY <1>0, <2>3, <2>4, <2>5 DEF ReaderDelivers, RepliesAreTrue, ThreadTypes
  <2>6. CASE ReaderEnds
    BY <1>0, <2>3, <2>4, <2>6 DEF ReaderEnds, RepliesAreTrue, ThreadTypes
  <2>7. CASE WriterTrouble
    BY <1>0, <2>3, <2>4, <2>7 DEF WriterTrouble, RepliesAreTrue, ThreadTypes
  <2> QED
    BY <2>1, <2>2, <2>5, <2>6, <2>7 DEF ServerNext
<1>2. HeldIsCurrent'
  BY <1>0, <1>1 DEF HeldIsCurrent, supVars
<1>3. RepliesAreTrue'
  <2>1. \A x \in InFlight' : x.type = "Message" /\ x.arg = "initialized" => x.gen \in acked'
    <3>1. CASE events' = events
      BY <1>0, <1>1, <3>1, FlightUnmoved DEF RepliesAreTrue
    <3>2. CASE events' # events
      <4>1. PICK g \in reading, reply \in Replies :
              <<g, reply>> \in pipe /\ Reported(Report("Message", g, reply))
        BY <1>1, <3>2
      <4>2. Report("Message", g, reply) \in Event
        BY MessageTypes DEF TypeOK, ServerTypes
      <4>3. reply = "initialized" => g \in acked
        BY <1>0, <4>1 DEF RepliesAreTrue
      <4>4. \A x \in InFlight' : x \in InFlight \/ x = Report("Message", g, reply)
        BY <1>0, <4>1, <4>2, ReportedFlies
      <4> QED
        BY <1>0, <1>1, <4>3, <4>4 DEF RepliesAreTrue, Report
    <3> QED
      BY <3>1, <3>2
  <2> QED
    BY <1>0, <1>1, <2>1, FlightUnmoved DEF RepliesAreTrue
<1>4. BeliefIsTrue'
  <2>1. \A x \in Carried(notices)' : x \in Carried(notices) \/ x.type # "Shutdown"
    BY <1>1, ToldCarries, FlightUnmoved DEF TypeOK
  <2> QED
    BY <1>0, <1>1, <2>1 DEF BeliefIsTrue
<1>5. PoliteGoodbye'
  <2>1. (PoliteGoodbye <=> \A g : <<g, "shutdown">> \in sent => g \in acked)'
    BY PoliteForm, PTL
  <2> QED
    BY <1>0, <1>1, <2>1, PoliteForm
<1> QED
  BY <1>2, <1>3, <1>4, <1>5 DEF HandshakeInv

LEMMA InitHandshake == Init => HandshakeInv
<1> SUFFICES ASSUME Init PROVE HandshakeInv
  OBVIOUS
<1>1. /\ sup = "Live" /\ child = 0 /\ supGen = 0 /\ pipe = {} /\ session = "Initializing"
      /\ notices = <<>> /\ events = <<>> /\ inbox = <<>> /\ local = <<>>
      /\ sent = {<<0, "initialize">>}
  BY DEF Init, ClientInit, SupInit
<1>2. Carried(notices) = {} /\ Carried(local) = {} /\ InFlight = {}
  BY <1>1, CarriedNone DEF InFlight
<1>3. PoliteGoodbye
  BY <1>1, PoliteForm
<1> QED
  BY <1>1, <1>2, <1>3 DEF HandshakeInv, HeldIsCurrent, RepliesAreTrue, BeliefIsTrue

LEMMA NextHandshake == TypeOK /\ HandshakeInv /\ [Next]_vars => HandshakeInv'
<1> SUFFICES ASSUME TypeOK, HandshakeInv, [Next]_vars PROVE HandshakeInv'
  OBVIOUS
<1>1. CASE ClientNext /\ UNCHANGED <<supVars, serverVars>>
  BY <1>1, ClientHandshake
<1>2. CASE (SupervisorNext \/ ServerNext) /\ UNCHANGED clientVars
  BY <1>2, SupervisorHandshake, ServerHandshake
<1>3. CASE UNCHANGED vars
  BY <1>3 DEF vars, clientVars, supVars, serverVars, channelVars, HandshakeInv, HeldIsCurrent,
              RepliesAreTrue, BeliefIsTrue, PoliteGoodbye, InFlight, Carried
<1> QED
  BY <1>1, <1>2, <1>3 DEF Next

THEOREM HandshakeInvariance == Spec => []HandshakeInv
BY InitHandshake, NextHandshake, TypeCorrect, PTL DEF Spec

\* The shutdown request goes only to a server that answered initialize, however losses and
\* restarts cross the goodbye of the client.
THEOREM GoodbyeIsPolite == Spec => []PoliteGoodbye
<1>1. HandshakeInv => PoliteGoodbye
  BY DEF HandshakeInv
<1> QED
  BY <1>1, HandshakeInvariance, PTL

----------------------------------------------------------------------------
\* The servers and their threads tell the supervisor what happened to a connection, and nothing
\* else.
LEMMA ServerTells ==
  ASSUME TypeOK, ServerNext
  PROVE  /\ UNCHANGED supVars
         /\ \/ notices' = notices
            \/ \E n \in Notice : n.type \in ThreadTypes /\ notices' = Append(notices, n)
<1>1. \A type \in ThreadTypes, g \in Generation :
        Tell(type, g) \in Notice /\ Tell(type, g).type \in ThreadTypes
  BY MessageTypes DEF Tell
<1>2. procs \subseteq Generation /\ reading \subseteq Generation
  BY DEF TypeOK, ServerTypes
<1>3. CASE ServerAnswers \/ ServerCrashes \/ ServerExits
  BY <1>3 DEF ServerAnswers, ServerCrashes, ServerExits, channelVars
<1>4. CASE ReaderDelivers
  BY <1>1, <1>2, <1>4 DEF ReaderDelivers, ThreadTypes
<1>5. CASE ReaderEnds
  BY <1>1, <1>2, <1>5 DEF ReaderEnds, ThreadTypes
<1>6. CASE WriterTrouble
  BY <1>1, <1>2, <1>6 DEF WriterTrouble, ThreadTypes
<1> QED
  BY <1>3, <1>4, <1>5, <1>6 DEF ServerNext

LEMMA NextFirstServer == TypeOK /\ FirstServerInv /\ [Next]_vars => FirstServerInv'
<1> SUFFICES ASSUME TypeOK, FirstServerInv, [Next]_vars, ~handshaken', calls' = 0
             PROVE  /\ child' = 0 /\ sup' # "Backoff"
                    /\ \A n \in Carried(notices)' : n.type \notin {"Reconnect", "Restart"}
  BY DEF FirstServerInv
<1>1. CASE ClientNext /\ UNCHANGED <<supVars, serverVars>>
  <2>1. /\ child = 0 /\ sup # "Backoff" /\ child' = child /\ sup' = sup
        /\ \A n \in Carried(notices) : n.type \notin {"Reconnect", "Restart"}
    BY <1>1, ClientStartsNone DEF FirstServerInv, supVars, TypeOK
  <2> QED
    BY <1>1, <2>1, ClientStartsNone, ToldCarries, FlightUnmoved DEF TypeOK
<1>2. CASE (SupervisorNext \/ ServerNext) /\ UNCHANGED clientVars
  <2>0. /\ child = 0 /\ sup # "Backoff"
        /\ \A n \in Carried(notices) : n.type \notin {"Reconnect", "Restart"}
    BY <1>2 DEF FirstServerInv, clientVars
  <2>1. CASE SupervisorNext
    <3>1. notices # <<>> => Head(notices).type \notin {"Reconnect", "Restart"}
      BY <2>0, CarriedLess DEF TypeOK, ChannelTypes
    <3>2. ~OnReconnect /\ ~OnRestart /\ ~BackoffDone
      BY <2>0, <3>1 DEF OnReconnect, OnRestart, Take, BackoffDone
    <3>3. child' = child /\ sup' # "Backoff"
      BY <2>0, <2>1, <3>2 DEF SupervisorNext, TakeNotice, Tick, OnShutdown, OnHandshaken, OnStop,
             OnThreadNotice, OnReplied, ExitSeen, DeadlineFires, DrainDone, ReplyExpires,
             ClosingOver, Close, Drain, supVars
    <3>4. \A x \in Carried(notices)' : x \in Carried(notices)
      BY <2>1, SupervisorReports, TakenCarries, FlightUnmoved DEF TypeOK
    <3> QED
      BY <2>0, <3>3, <3>4
  <2>2. CASE ServerNext
    <3>1. /\ UNCHANGED supVars
          /\ \/ notices' = notices
             \/ \E n \in Notice : n.type \in ThreadTypes /\ notices' = Append(notices, n)
      BY <2>2, ServerTells
    <3>2. \A x \in Carried(notices)' : x \in Carried(notices) \/ x.type \in ThreadTypes
      BY <3>1, ToldCarries, FlightUnmoved DEF TypeOK
    <3> QED
      BY <2>0, <3>1, <3>2 DEF supVars, ThreadTypes
  <2> QED
    BY <1>2, <2>1, <2>2
<1>3. CASE UNCHANGED vars
  BY <1>3 DEF vars, clientVars, supVars, channelVars, FirstServerInv, Carried
<1> QED
  BY <1>1, <1>2, <1>3 DEF Next

LEMMA InitFirstServer == Init => FirstServerInv
<1> SUFFICES ASSUME Init PROVE FirstServerInv
  OBVIOUS
<1>1. child = 0 /\ sup = "Live" /\ notices = <<>>
  BY DEF Init, SupInit
<1> QED
  BY <1>1, CarriedNone DEF FirstServerInv

\* A server that cannot start once stops at once: until one has answered initialize or the host
\* asked for a restart, no second one is started.
THEOREM FirstServerStopsAtOnce == Spec => []StopsAtOnce
<1>1. FirstServerInv /\ TypeOK => StopsAtOnce
  <2> SUFFICES ASSUME FirstServerInv, TypeOK, ~handshaken, ~(calls > 0)
               PROVE  child = 0 /\ sup # "Backoff"
    BY DEF StopsAtOnce
  <2>1. calls = 0
    BY PolicyAssumption DEF TypeOK, ClientTypes
  <2> QED
    BY <2>1 DEF FirstServerInv
<1> QED
  BY <1>1, InitFirstServer, NextFirstServer, TypeCorrect, PTL DEF Spec

----------------------------------------------------------------------------
\* A client that shut its connection tells nothing more and stays shut.
LEMMA ShutStep == TypeOK /\ LetGoBeforeReconnect /\ [Next]_vars => [StaysShut]_vars
<1> SUFFICES ASSUME TypeOK, LetGoBeforeReconnect, Next, conn \in ShutKinds PROVE StaysShut
  BY DEF StaysShut
<1>1. ASSUME conn' \in ShutKinds, clientGen' = clientGen,
             \A x \in Carried(notices)' : x \in Carried(notices) \/ x.type \notin ControlTypes
      PROVE  StaysShut
  <2> SUFFICES ASSUME NEW i \in 1..Len(notices'), notices'[i].type \in ControlTypes
               PROVE  \E j \in 1..Len(notices) : notices[j] = notices'[i]
    BY <1>1 DEF StaysShut
  <2>1. notices'[i] \in Carried(notices)'
    BY DEF Carried
  <2>2. notices'[i] \in Carried(notices)
    BY <1>1, <2>1
  <2> QED
    BY <2>2 DEF Carried
<1>2. CASE ClientNext
  BY <1>1, <1>2, ClientStaysShut, FlightUnmoved
<1>3. CASE (SupervisorNext \/ ServerNext) /\ UNCHANGED clientVars
  <2>1. conn' \in ShutKinds /\ clientGen' = clientGen
    BY <1>3 DEF clientVars
  <2>2. \A x \in Carried(notices)' : x \in Carried(notices) \/ x.type \notin ControlTypes
    <3>1. CASE SupervisorNext
      BY <3>1, SupervisorReports, TakenCarries, FlightUnmoved DEF TypeOK
    <3>2. CASE ServerNext
      <4>1. \A type \in ThreadTypes : type \notin ControlTypes
        BY DEF ThreadTypes, ControlTypes
      <4> QED
        BY <3>2, <4>1, ServerTells, ToldCarries, FlightUnmoved DEF TypeOK
    <3> QED
      BY <1>3, <3>1, <3>2
  <2> QED
    BY <1>1, <2>1, <2>2
<1> QED
  BY <1>2, <1>3 DEF Next

\* After shutdown() nothing changes the client's mind: no decision follows, and no connection.
THEOREM GoodbyeIsFinal == Spec => ShutIsFinal
BY ShutStep, TypeCorrect, SessionLetGo, PTL DEF Spec, ShutIsFinal

----------------------------------------------------------------------------

\* What the steps below start from.
Ready == IInv /\ HandshakeInv /\ StandoffInv

DecisionTypes == {"Restart", "Reconnect", "Stop"}

----------------------------------------------------------------------------
\* The types the steps need, one variable at a time.
LEMMA ReadyTypes ==
  ASSUME Ready
  PROVE  /\ clientGen \in Nat /\ supGen \in Nat /\ child \in Nat /\ link \in Nat
         /\ conn \in {"Live", "Reconnecting", "Stopped", "ShutLinked", "Shut"}
         /\ sup \in {"Live", "Draining", "Waiting", "Backoff", "Idle", "Closing", "Done"}
         /\ ending \in {"Stopped", "Idle"}
         /\ \A e \in InFlight : e \in Event /\ e.gen \in Nat
         /\ \A n \in Carried(notices) : n \in Notice /\ n.gen \in Nat
<1>1. /\ clientGen \in Nat /\ supGen \in Nat /\ child \in Nat /\ link \in Nat
      /\ conn \in {"Live", "Reconnecting", "Stopped", "ShutLinked", "Shut"}
      /\ sup \in {"Live", "Draining", "Waiting", "Backoff", "Idle", "Closing", "Done"}
      /\ ending \in {"Stopped", "Idle"}
  BY DEF Ready, IInv, TypeOK, ClientTypes, SupTypes, Generation, ShutKinds
<1>2. events \in Seq(Event) /\ inbox \in Seq(Event) /\ notices \in Seq(Notice)
  BY DEF Ready, IInv, TypeOK, ClientTypes, ChannelTypes
<1>3. \A e \in InFlight : e \in Event
  BY <1>2 DEF InFlight, Carried
<1>4. \A n \in Carried(notices) : n \in Notice
  BY <1>2 DEF Carried
<1>5. (\A e \in Event : e.gen \in Nat) /\ (\A n \in Notice : n.gen \in Nat)
  BY DEF Event, Notice, Generation
<1> QED
  BY <1>1, <1>3, <1>4, <1>5

\* The facts about the inbox, without the places.
LEMMA CarriedAhead ==
  ASSUME Ready
  PROVE  \A n \in Carried(notices) :
           n.type = "Restart" =>
             /\ n.gen <= clientGen
             /\ supGen < n.gen \/ (supGen = n.gen /\ sup \in {"Waiting", "Done"})
BY DEF Ready, IInv, ToldIsReached, RestartsAreAhead, Carried

LEMMA AfterHead ==
  ASSUME Ready, notices # <<>>, NEW x \in Carried(Tail(notices)), x.type \in DecisionTypes,
         Head(notices).type \in DecisionTypes
  PROVE  /\ x.type = "Restart"
         /\ Head(notices).type = "Restart" => Head(notices).gen < x.gen
<1>1. /\ Head(notices) = notices[1] /\ Len(notices) \in Nat \ {0}
      /\ Len(Tail(notices)) = Len(notices) - 1
      /\ \A i \in 1..Len(Tail(notices)) : Tail(notices)[i] = notices[i + 1]
  BY TakeFacts DEF Ready, IInv, TypeOK, ChannelTypes
<1>2. PICK i \in 1..Len(Tail(notices)) : x = Tail(notices)[i]
  BY DEF Carried
<1>3. i + 1 \in 1..Len(notices) /\ 1 \in 1..Len(notices) /\ 1 < i + 1 /\ x = notices[i + 1]
  BY <1>1, <1>2
<1>4. x.type = "Restart"
  BY <1>1, <1>3 DEF Ready, StandoffInv, OnlyRestartsFollow, DecisionTypes
<1> QED
  BY <1>1, <1>3, <1>4 DEF Ready, IInv, RestartsAreNewer

----------------------------------------------------------------------------
\* How the inbox may change while only restarts follow another decision.
LEMMA FollowKept ==
  ASSUME Ready,
         \/ notices' = notices
         \/ notices # <<>> /\ notices' = Tail(notices)
         \/ \E n \in Notice : /\ notices' = Append(notices, n)
                              /\ n.type \in {"Reconnect", "Stop"} => Decisions = {}
  PROVE  OnlyRestartsFollow'
<1>0. OnlyRestartsFollow /\ notices \in Seq(Notice)
  BY DEF Ready, StandoffInv, IInv, TypeOK, ChannelTypes
<1>1. CASE notices' = notices
  BY <1>0, <1>1 DEF OnlyRestartsFollow
<1>2. CASE notices # <<>> /\ notices' = Tail(notices)
  <2> SUFFICES ASSUME NEW i \in 1..Len(notices'), NEW j \in 1..Len(notices'), i < j,
                      notices'[i].type \in DecisionTypes, notices'[j].type \in DecisionTypes
               PROVE  notices'[j].type = "Restart"
    BY DEF OnlyRestartsFollow, DecisionTypes
  <2>1. /\ Len(notices) \in Nat /\ Len(notices') = Len(notices) - 1
        /\ notices'[i] = notices[i + 1] /\ notices'[j] = notices[j + 1]
    BY <1>0, <1>2, TakeFacts
  <2>2. i + 1 \in 1..Len(notices) /\ j + 1 \in 1..Len(notices) /\ i + 1 < j + 1
    BY <2>1
  <2> QED
    BY <1>0, <2>1, <2>2 DEF OnlyRestartsFollow, DecisionTypes
<1>3. ASSUME NEW n \in Notice, notices' = Append(notices, n),
             n.type \in {"Reconnect", "Stop"} => Decisions = {}
      PROVE  OnlyRestartsFollow'
  <2> SUFFICES ASSUME NEW i \in 1..Len(notices'), NEW j \in 1..Len(notices'), i < j,
                      notices'[i].type \in DecisionTypes, notices'[j].type \in DecisionTypes
               PROVE  notices'[j].type = "Restart"
    BY DEF OnlyRestartsFollow, DecisionTypes
  <2>1. /\ Len(notices) \in Nat /\ Len(notices') = Len(notices) + 1
        /\ \A k \in 1..Len(notices) : notices'[k] = notices[k]
        /\ notices'[Len(notices) + 1] = n
    BY <1>0, <1>3, AppendFacts
  <2>2. i \in 1..Len(notices) /\ (j \in 1..Len(notices) \/ j = Len(notices) + 1)
    BY <2>1
  <2>3. CASE j \in 1..Len(notices)
    BY <1>0, <2>1, <2>2, <2>3 DEF OnlyRestartsFollow, DecisionTypes
  <2>4. CASE j = Len(notices) + 1
    <3>1. notices[i] \in Decisions
      BY <2>1, <2>2 DEF Decisions, Carried, DecisionTypes
    <3> QED
      BY <1>3, <2>1, <2>4, <3>1 DEF DecisionTypes
  <2> QED
    BY <2>2, <2>3, <2>4
<1> QED
  BY <1>1, <1>2, <1>3

\* What the client may receive without consequence for what it waits for.
Spent(e) ==
  \/ e.type \in {"Message", "Status", "Attempting"}
  \/ e.type = "Lost" /\ (conn \in ShutKinds \/ e.gen <= clientGen)
  \/ e.type = "Reconnected" /\ (conn # "Reconnecting" \/ e.gen < clientGen)
  \/ e.type = "Stopped" /\ status = StoppedBy("Shutdown")

\* A step that moves neither half on, but for a live connection's end.
LEMMA Unconcerned ==
  ASSUME Ready, UNCHANGED <<conn, clientGen, link, dropped>>,
         conn \in ShutKinds => status' = status,
         UNCHANGED <<supGen, child, ending>>,
         sup' = sup \/ (sup = "Live" /\ sup' = "Draining"),
         \A x \in InFlight' : x \in InFlight \/ x.type \in {"Message", "Status"},
         \A x \in InFlight : x \in InFlight' \/ Spent(x),
         \A x \in Carried(notices)' : x \in Carried(notices) \/ x.type \notin DecisionTypes \cup {"Shutdown"},
         \A x \in Carried(notices) : x \in Carried(notices)' \/ x.type \notin DecisionTypes \cup {"Shutdown"}
  PROVE  /\ LinkIsCurrent' /\ ReportsAreOld' /\ GoneOnlyWhenTold'
         /\ HeardMeansDone' /\ UnheardWillDo' /\ GoodbyeIsAnswered'
<1>0. /\ LinkIsCurrent /\ ReportsAreOld /\ GoneOnlyWhenTold
      /\ HeardMeansDone /\ UnheardWillDo /\ GoodbyeIsAnswered
      /\ clientGen \in Nat
  BY ReadyTypes DEF Ready, StandoffInv
<1>1. \A x : x \in Decisions' <=> x \in Decisions
  BY DEF Decisions, DecisionTypes
<1>2. Decisions' = Decisions
  BY <1>1
<1>3. AtWork' <=> AtWork
  BY DEF AtWork
<1>4. LinkIsCurrent' /\ ReportsAreOld'
  BY <1>0 DEF LinkIsCurrent, ReportsAreOld
<1>5. GoneOnlyWhenTold'
  BY <1>0, <1>3 DEF GoneOnlyWhenTold
<1>6. AtWork /\ LossComing => LossComing'
  <2>1. SUFFICES ASSUME AtWork, LossComing PROVE LossComing'
    OBVIOUS
  <2>2. PICK e \in InFlight : e.type = "Lost" /\ e.gen = clientGen + 1
    BY <2>1 DEF LossComing
  <2>3. ~Spent(e)
    BY <1>0, <2>1, <2>2 DEF Spent, AtWork
  <2> QED
    BY <2>1, <2>2, <2>3 DEF LossComing
<1>7. ASSUME conn = "Reconnecting", NEW e \in InFlight, e.type = "Reconnected", e.gen = clientGen
      PROVE  e \in InFlight'
  BY <1>0, <1>7 DEF Spent
<1>8. HeardMeansDone'
  BY <1>0, <1>2, <1>3, <1>6, <1>7 DEF HeardMeansDone
<1>9. UnheardWillDo'
  BY <1>0, <1>2, <1>3 DEF UnheardWillDo
<1>10. GoodbyeIsAnswered'
  <2>1. SUFFICES ASSUME conn \in ShutKinds, ~dropped
                 PROVE  \/ \E n \in Carried(notices)' : n.type = "Shutdown"
                        \/ sup' = "Closing" /\ ending' = "Stopped"
                        \/ sup' = "Done" /\ (status' = StoppedBy("Shutdown") \/ \E e \in InFlight' : e.type = "Stopped")
    BY DEF GoodbyeIsAnswered
  <2>2. \A e \in InFlight : e.type = "Stopped" => e \in InFlight' \/ status = StoppedBy("Shutdown")
    BY DEF Spent
  <2> QED
    BY <1>0, <2>1, <2>2 DEF GoodbyeIsAnswered
<1> QED
  BY <1>4, <1>5, <1>8, <1>9, <1>10

----------------------------------------------------------------------------
\* Everything of the invariant but what the session says.
Aligned ==
  /\ LinkIsCurrent /\ OnlyRestartsFollow /\ ReportsAreOld /\ GoneOnlyWhenTold
  /\ HeardMeansDone /\ UnheardWillDo /\ GoodbyeIsAnswered

\* A client step that decides: the supervisor is where the decision will move it.
LEMMA Decided ==
  ASSUME Ready, AtWork, UNCHANGED supVars, UNCHANGED dropped, InFlight' \subseteq InFlight,
         NEW n \in Notice, notices' = Append(notices, n),
         n.type # "Restart" => Decisions = {},
         \/ n = Tell("Restart", clientGen') /\ conn' = "Reconnecting"
         \/ /\ n = Tell("Reconnect", clientGen') /\ conn' = "Reconnecting"
            /\ sup = "Waiting" /\ supGen = clientGen'
         \/ /\ n = Tell("Stop", clientGen' - 1) /\ conn' = "Stopped"
            /\ \/ supGen = clientGen' - 1 /\ sup \in {"Live", "Draining", "Waiting", "Backoff"}
               \/ supGen = clientGen' /\ sup = "Waiting"
  PROVE  Aligned'
<1>0. /\ ReportsAreOld /\ GoneOnlyWhenTold /\ TypeOK
      /\ UNCHANGED <<supGen, sup, child, ending>>
  BY DEF Ready, StandoffInv, IInv, supVars
<1>1. \A x : x \in Carried(notices)' <=> x \in Carried(notices) \/ x = n
  BY <1>0, ToldCarries DEF TypeOK
<1>2. n.type \in DecisionTypes /\ conn' \in {"Reconnecting", "Stopped"}
  BY DEF Tell, DecisionTypes
<1>3. \A x : x \in Decisions' <=> x \in Decisions \/ x = n
  BY <1>1, <1>2 DEF Decisions, DecisionTypes
<1>4. AtWork'
  BY <1>2 DEF AtWork, ShutKinds
<1>5. LinkIsCurrent' /\ GoodbyeIsAnswered' /\ HeardMeansDone'
  BY <1>2, <1>3 DEF LinkIsCurrent, GoodbyeIsAnswered, HeardMeansDone, ShutKinds
<1>6. OnlyRestartsFollow'
  BY FollowKept
<1>7. ReportsAreOld'
  BY <1>0 DEF ReportsAreOld
<1>8. GoneOnlyWhenTold'
  BY <1>0, <1>1, <1>2, <1>4 DEF GoneOnlyWhenTold, DecisionTypes
<1>9. UnheardWillDo'
  <2>1. n \in Decisions' /\ (n.type # "Restart" => Decisions' = {n})
    BY <1>3
  <2>2. \A g : Tell("Reconnect", g).type # "Restart" /\ Tell("Stop", g).type # "Restart"
    BY DEF Tell
  <2>3. CASE n = Tell("Restart", clientGen') /\ conn' = "Reconnecting"
    BY <2>1, <2>3 DEF UnheardWillDo
  <2>4. CASE n = Tell("Reconnect", clientGen') /\ conn' = "Reconnecting" /\ sup = "Waiting" /\ supGen = clientGen'
    BY <1>0, <2>1, <2>2, <2>4 DEF UnheardWillDo
  <2>5. CASE /\ n = Tell("Stop", clientGen' - 1) /\ conn' = "Stopped"
             /\ \/ supGen = clientGen' - 1 /\ sup \in {"Live", "Draining", "Waiting", "Backoff"}
                \/ supGen = clientGen' /\ sup = "Waiting"
    <3>1. Decisions' = {Tell("Stop", clientGen' - 1)}
      BY <2>1, <2>2, <2>5
    <3> QED
      BY <1>0, <2>5, <3>1 DEF UnheardWillDo
  <2> QED
    BY <2>3, <2>4, <2>5
<1> QED
  BY <1>5, <1>6, <1>7, <1>8, <1>9 DEF Aligned

\* A loss the client has yet to hear of leaves the supervisor waiting, with nothing decided.
LEMMA LostIsAhead ==
  ASSUME Ready, AtWork, NEW e \in InFlight, e.type = "Lost", e.gen > clientGen
  PROVE  e.gen = clientGen + 1 /\ supGen = e.gen /\ sup = "Waiting" /\ Decisions = {}
<1>0. clientGen \in Nat /\ supGen \in Nat /\ e.gen \in Nat
  BY ReadyTypes
<1>1. e.gen <= supGen /\ supGen <= clientGen + 1 /\ (supGen = clientGen + 1 => sup \in {"Waiting", "Done"})
  BY DEF Ready, StandoffInv, ReportsAreOld, IInv, OneAhead
<1>2. e.gen = clientGen + 1 /\ supGen = e.gen /\ sup = "Waiting"
  BY <1>0, <1>1 DEF Ready, StandoffInv, GoneOnlyWhenTold
<1>3. \A n \in Carried(notices) : n.type = "Restart" => n.gen # clientGen
  BY <1>0, <1>2, CarriedAhead
<1>4. Tell("Restart", clientGen) \notin Decisions
  BY <1>3 DEF Decisions, Tell
<1>5. supGen # clientGen /\ supGen # clientGen - 1
  BY <1>0, <1>2
<1> QED
  BY <1>2, <1>4, <1>5 DEF Ready, StandoffInv, UnheardWillDo

\* A failed attempt the client still counts was the supervisor's last word, with nothing decided.
LEMMA AttemptIsCurrent ==
  ASSUME Ready, AtWork, conn = "Reconnecting", NEW e \in InFlight,
         e.type = "Attempting", e.gen = clientGen
  PROVE  /\ Decisions = {}
         /\ \/ supGen = clientGen /\ sup \in {"Live", "Draining", "Backoff"}
            \/ supGen = clientGen + 1 /\ sup = "Waiting"
<1>0. clientGen \in Nat /\ supGen \in Nat /\ e.gen \in Nat
  BY ReadyTypes
<1>1. e.gen <= supGen /\ (sup = "Waiting" => e.gen < supGen) /\ sup # "Done"
  BY DEF Ready, StandoffInv, ReportsAreOld, GoneOnlyWhenTold
<1>2. \A n \in Carried(notices) : n.type = "Restart" => n.gen # clientGen
  BY <1>0, <1>1, CarriedAhead
<1>3. Tell("Restart", clientGen) \notin Decisions
  BY <1>2 DEF Decisions, Tell
<1>4. ~(sup = "Waiting" /\ supGen = clientGen)
  BY <1>0, <1>1
<1>5. Decisions = {}
  BY <1>3, <1>4 DEF Ready, StandoffInv, UnheardWillDo
<1> QED
  BY <1>5 DEF Ready, StandoffInv, HeardMeansDone, LossComing

\* A connection the client takes is of its own generation, with nothing decided.
LEMMA ReconnectedIsCurrent ==
  ASSUME Ready, AtWork, conn = "Reconnecting", NEW e \in InFlight,
         e.type = "Reconnected", e.gen >= clientGen
  PROVE  /\ Decisions = {} /\ e.gen = clientGen
         /\ LossComing \/ (sup \in {"Live", "Draining"} /\ supGen = clientGen)
<1>0. clientGen \in Nat /\ supGen \in Nat /\ child \in Nat /\ e.gen \in Nat
  BY ReadyTypes
<1>1. e.gen <= child /\ child <= supGen /\ (sup \in {"Waiting", "Backoff"} => child < supGen) /\ sup # "Done"
  BY DEF Ready, StandoffInv, ReportsAreOld, GoneOnlyWhenTold, IInv, ChildIsBehind
<1>2. \A n \in Carried(notices) : n.type = "Restart" => n.gen # clientGen
  BY <1>0, <1>1, CarriedAhead
<1>3. Tell("Restart", clientGen) \notin Decisions
  BY <1>2 DEF Decisions, Tell
<1>4. ~(sup = "Waiting" /\ supGen = clientGen) /\ ~(sup = "Backoff" /\ supGen = clientGen)
  BY <1>0, <1>1
<1>5. Decisions = {}
  BY <1>3, <1>4 DEF Ready, StandoffInv, UnheardWillDo
<1>6. LossComing \/ (sup \in {"Live", "Draining"} /\ supGen = clientGen)
  BY <1>4, <1>5 DEF Ready, StandoffInv, HeardMeansDone
<1>7. e.gen = clientGen
  <2>1. CASE LossComing
    BY <1>0, <1>1, <2>1 DEF LossComing
  <2>2. CASE supGen = clientGen
    BY <1>0, <1>1, <2>2
  <2> QED
    BY <1>6, <2>1, <2>2
<1> QED
  BY <1>5, <1>6, <1>7

\* A refused connection was live, and so nothing is decided.
LEMMA LiveIsUndecided ==
  ASSUME Ready, AtWork, conn = "Live"
  PROVE  /\ Decisions = {}
         /\ \/ supGen = clientGen /\ sup \in {"Live", "Draining"}
            \/ supGen = clientGen + 1 /\ sup = "Waiting"
<1>1. Decisions = {}
  BY DEF Ready, StandoffInv, UnheardWillDo
<1> QED
  BY <1>1 DEF Ready, StandoffInv, HeardMeansDone, LossComing

----------------------------------------------------------------------------
\* What a step that gives the worker nothing to act on leaves aligned.
LEMMA UndecidedStep ==
  ASSUME Ready, UNCHANGED supVars, UNCHANGED <<conn, clientGen, link, dropped>>,
         conn \in ShutKinds => status' = status,
         \A x \in InFlight' : x \in InFlight \/ x.type \in {"Message", "Status"},
         \A x \in InFlight : x \in InFlight' \/ Spent(x),
         \/ notices' = notices
         \/ \E n \in Notice : notices' = Append(notices, n) /\ n.type \notin DecisionTypes \cup {"Shutdown"}
  PROVE  Aligned'
<1>1. /\ \A x \in Carried(notices)' : x \in Carried(notices) \/ x.type \notin DecisionTypes \cup {"Shutdown"}
      /\ \A x \in Carried(notices) : x \in Carried(notices)'
  BY ToldCarries, FlightUnmoved DEF Ready, IInv, TypeOK
<1>2. OnlyRestartsFollow'
  <2>1. DecisionTypes = {"Restart", "Reconnect", "Stop"}
    BY DEF DecisionTypes
  <2> QED
    BY <2>1, FollowKept
<1> QED
  BY <1>1, <1>2, Unconcerned DEF Aligned, supVars

\* The client takes a message with nothing else to act on.
LEMMA SpentStep ==
  ASSUME Ready, UNCHANGED supVars, NEW type, Taking(type), events' = events,
         UNCHANGED <<conn, clientGen, link, dropped, notices>>,
         conn \in ShutKinds => status' = status,
         Spent(Head(inbox))
  PROVE  Aligned'
<1>1. TypeOK
  BY DEF Ready, IInv
<1> QED
  BY <1>1, ReceivedLands, UndecidedStep DEF TypeOK

\* The client says goodbye: whoever called, its worker is told.
LEMMA FarewellStep ==
  ASSUME Ready, UNCHANGED supVars, UNCHANGED <<clientGen, link, status>>, Idling, Farewell,
         UNCHANGED <<inbox, events>>,
         \/ dropped' /\ conn' = conn
         \/ ~dropped' /\ conn \notin ShutKinds /\ conn' \in ShutKinds
  PROVE  Aligned'
<1>0. /\ LinkIsCurrent /\ ReportsAreOld /\ TypeOK /\ link \in Generation /\ clientGen \in Generation
      /\ conn \in {"Live", "Reconnecting", "Stopped"} \cup ShutKinds
  BY DEF Ready, StandoffInv, IInv, TypeOK, ClientTypes
<1>1. InFlight' = InFlight
  BY FlightUnmoved
<1>2. ~AtWork'
  BY DEF AtWork
<1>3. \/ notices' = notices /\ conn \in ShutKinds
      \/ \E n \in Notice : n.type = "Shutdown" /\ notices' = Append(notices, n)
  <2>1. Goodbye(link, Handshake) \in Notice /\ Goodbye(clientGen, FALSE) \in Notice
    BY <1>0, MessageTypes DEF Handshake
  <2>2. Goodbye(link, Handshake).type = "Shutdown" /\ Goodbye(clientGen, FALSE).type = "Shutdown"
    BY DEF Goodbye
  <2> QED
    BY <1>0, <2>1, <2>2 DEF Farewell, Told, ShutKinds
<1>4. LinkIsCurrent' /\ ReportsAreOld'
  BY <1>0, <1>1 DEF LinkIsCurrent, ReportsAreOld, ShutKinds, supVars
<1>5. OnlyRestartsFollow'
  BY <1>3, FollowKept
<1>6. GoneOnlyWhenTold' /\ HeardMeansDone' /\ UnheardWillDo'
  BY <1>2 DEF GoneOnlyWhenTold, HeardMeansDone, UnheardWillDo
<1>7. GoodbyeIsAnswered'
  <2>1. SUFFICES ASSUME ~dropped' PROVE \E n \in Carried(notices)' : n.type = "Shutdown"
    BY DEF GoodbyeIsAnswered
  <2>2. PICK n \in Notice : n.type = "Shutdown" /\ notices' = Append(notices, n)
    BY <1>3, <2>1
  <2> QED
    BY <1>0, <2>2, ToldCarries DEF TypeOK
<1> QED
  BY <1>4, <1>5, <1>6, <1>7 DEF Aligned

\* The client takes the connection the supervisor made, or has moved past it.
LEMMA ReconnectedStep ==
  ASSUME Ready, ReceiveReconnected, UNCHANGED supVars
  PROVE  Aligned'
<1> DEFINE e == Head(inbox)
<1>0. /\ TypeOK /\ ReportsAreOld /\ GoneOnlyWhenTold /\ OnlyRestartsFollow
      /\ clientGen \in Nat /\ UNCHANGED <<supGen, sup, child, ending>>
  BY ReadyTypes DEF Ready, IInv, StandoffInv, supVars
<1>1. /\ e \in InFlight /\ e.type = "Reconnected" /\ e.gen \in Nat /\ Idling
      /\ events' = events /\ notices' = notices /\ UNCHANGED dropped
      /\ InFlight' \subseteq InFlight /\ \A x \in InFlight : x \in InFlight' \/ x = e
  BY <1>0, ReceivedLands, TakingTypes
  DEF ReceiveReconnected, Taking, Ignored, channelVars, TypeOK, Generation
<1>2. CASE conn # "Reconnecting" \/ e.gen < clientGen
  <2>1. Spent(e) /\ Ignored
    BY <1>0, <1>1, <1>2 DEF Spent, ReceiveReconnected
  <2> QED
    BY <1>0, <1>1, <2>1, SpentStep DEF ReceiveReconnected, Ignored, channelVars
<1>3. CASE conn = "Reconnecting" /\ e.gen >= clientGen
  <2>1. conn' = "Live" /\ link' = e.gen /\ clientGen' = e.gen
    BY <1>0, <1>1, <1>3 DEF ReceiveReconnected
  <2>2. AtWork /\ AtWork'
    BY <1>1, <1>3, <2>1 DEF AtWork, Idling, ShutKinds
  <2>3. /\ Decisions = {} /\ e.gen = clientGen
        /\ LossComing \/ (sup \in {"Live", "Draining"} /\ supGen = clientGen)
    BY <1>1, <1>3, <2>2, ReconnectedIsCurrent
  <2>4. LinkIsCurrent' /\ GoodbyeIsAnswered' /\ OnlyRestartsFollow' /\ ReportsAreOld'
    BY <1>0, <1>1, <2>1 DEF LinkIsCurrent, GoodbyeIsAnswered, ShutKinds, OnlyRestartsFollow,
                            ReportsAreOld
  <2>5. Carried(notices)' = Carried(notices) /\ Decisions' = Decisions
    BY <1>1, FlightUnmoved DEF Decisions
  <2>6. GoneOnlyWhenTold'
    BY <1>0, <1>1, <2>2, <2>5 DEF GoneOnlyWhenTold
  <2>7. LossComing => LossComing'
    BY <1>0, <1>1, <2>1, <2>3 DEF LossComing
  <2>8. HeardMeansDone' /\ UnheardWillDo'
    BY <1>0, <2>1, <2>3, <2>5, <2>7 DEF HeardMeansDone, UnheardWillDo
  <2> QED
    BY <2>4, <2>6, <2>8 DEF Aligned
<1> QED
  BY <1>0, <1>1, <1>2, <1>3

\* Only a client that said goodbye hears that its worker is gone.
LEMMA StoppedStep ==
  ASSUME Ready, ReceiveStopped, UNCHANGED supVars
  PROVE  Aligned'
<1> DEFINE e == Head(inbox)
<1>0. /\ TypeOK /\ ReportsAreOld /\ GoneOnlyWhenTold /\ OnlyRestartsFollow /\ GoodbyeIsAnswered
      /\ UNCHANGED <<supGen, sup, child, ending>>
  BY DEF Ready, IInv, StandoffInv, supVars
<1>1. /\ e \in InFlight /\ e.type = "Stopped" /\ e.arg = "Shutdown" /\ Idling
      /\ events' = events /\ notices' = notices /\ UNCHANGED dropped
      /\ InFlight' \subseteq InFlight /\ \A x \in InFlight : x \in InFlight' \/ x = e
  BY <1>0, ReceivedLands DEF ReceiveStopped, Taking, Ignored, channelVars, ReportsAreOld, TypeOK
<1>2. conn \in ShutKinds
  BY <1>0, <1>1 DEF GoneOnlyWhenTold, AtWork, Idling
<1>3. conn' \in ShutKinds /\ status' = StoppedBy("Shutdown")
  BY <1>1, <1>2 DEF ReceiveStopped, Ignored, ShutKinds
<1>4. LinkIsCurrent' /\ OnlyRestartsFollow' /\ ReportsAreOld'
  BY <1>0, <1>1, <1>3 DEF LinkIsCurrent, OnlyRestartsFollow, ReportsAreOld, ShutKinds
<1>5. GoneOnlyWhenTold' /\ HeardMeansDone' /\ UnheardWillDo'
  BY <1>3 DEF GoneOnlyWhenTold, HeardMeansDone, UnheardWillDo, AtWork
<1>6. GoodbyeIsAnswered'
  <2>1. Carried(notices)' = Carried(notices)
    BY <1>1, FlightUnmoved
  <2> QED
    BY <1>0, <1>1, <1>2, <1>3, <2>1 DEF GoodbyeIsAnswered
<1> QED
  BY <1>4, <1>5, <1>6 DEF Aligned

\* Every step of the client keeps the two halves aligned.
LEMMA ClientStepAligns ==
  ASSUME Ready, ClientNext, UNCHANGED <<supVars, serverVars>>
  PROVE  Aligned'
<1>0. /\ UNCHANGED supVars /\ TypeOK /\ RepliesAreTrue /\ LetGoBeforeReconnect
      /\ clientGen \in Nat /\ link \in Nat /\ supGen \in Nat
  BY ReadyTypes DEF Ready, IInv, HandshakeInv, StandoffInv
<1>1. CASE RestartCall
  <2>1. Tell("Restart", clientGen + 1) \in Notice
    BY <1>0, MessageTypes DEF Generation, ControlTypes
  <2>2. AtWork /\ InFlight' = InFlight
    BY <1>1, FlightUnmoved DEF RestartCall, Idling, AtWork
  <2>3. Tell("Restart", clientGen + 1).type = "Restart"
    BY DEF Tell
  <2>4. /\ notices' = Append(notices, Tell("Restart", clientGen + 1)) /\ UNCHANGED dropped
        /\ clientGen' = clientGen + 1 /\ conn' = "Reconnecting"
    BY <1>1 DEF RestartCall, Told
  <2> QED
    BY <1>0, <2>1, <2>2, <2>3, <2>4, Decided
<1>2. CASE RestartReturn
  <2>1. InFlight' = InFlight
    BY <1>2, FlightUnmoved DEF RestartReturn, channelVars
  <2> QED
    BY <1>0, <1>2, <2>1, UndecidedStep DEF RestartReturn, channelVars
<1>3. CASE ShutdownCall
  BY <1>0, <1>3, FarewellStep DEF ShutdownCall, ShutKinds, Idling
<1>4. CASE DropClient
  BY <1>0, <1>4, FarewellStep DEF DropClient
<1>5. CASE Poll
  <2>1. OwnAreStatuses
    BY DEF Ready, HandshakeInv, RepliesAreTrue, OwnAreStatuses
  <2>2. \A x \in InFlight' : x \in InFlight \/ x.type = "Status"
    BY <1>0, <1>5, <2>1, PolledFlies DEF TypeOK
  <2>3. InFlight \subseteq InFlight'
    BY <1>0, <1>5, <2>1, PolledFlies DEF TypeOK
  <2> QED
    BY <1>0, <1>5, <2>2, <2>3, UndecidedStep DEF Poll
<1>6. CASE ReceiveInitialized
  <2>1. conn = "Live"
    BY <1>0, <1>6 DEF ReceiveInitialized, ForInitialize, LetGoBeforeReconnect
  <2>2. Spent(Head(inbox)) /\ Head(inbox).type = "Message"
    BY <1>6 DEF ReceiveInitialized, Taking, Spent
  <2>3. /\ InFlight' \subseteq InFlight
        /\ \A x \in InFlight : x \in InFlight' \/ Spent(x)
    BY <1>0, <1>6, <2>2, ReceivedLands DEF ReceiveInitialized, TypeOK
  <2>4. /\ Tell("Handshaken", link) \in Notice
        /\ Tell("Handshaken", link).type \notin DecisionTypes \cup {"Shutdown"}
    BY <1>0, MessageTypes DEF Tell, DecisionTypes, Generation, ControlTypes
  <2> QED
    BY <1>0, <1>6, <2>1, <2>3, <2>4, UndecidedStep DEF ReceiveInitialized, Told, ShutKinds
<1>7. CASE ReceiveStale \/ ReceiveStatus
  <2>1. Spent(Head(inbox))
    BY <1>7 DEF ReceiveStale, ReceiveStatus, Taking, Spent
  <2> QED
    BY <1>0, <1>7, <2>1, SpentStep DEF ReceiveStale, ReceiveStatus, Ignored, channelVars
<1>8. CASE ReceiveRefused
  <2>1. conn = "Live" /\ AtWork
    BY <1>0, <1>8 DEF ReceiveRefused, ForInitialize, LetGoBeforeReconnect, Taking, Idling, AtWork,
                      ShutKinds
  <2>2. /\ notices' = Append(notices, Tell("Stop", clientGen)) /\ conn' = "Stopped"
        /\ clientGen' = clientGen + 1 /\ UNCHANGED dropped /\ events' = events
    BY <1>8 DEF ReceiveRefused, Halt, Told
  <2>3. Tell("Stop", clientGen) \in Notice /\ clientGen' - 1 = clientGen
    BY <1>0, <2>2, MessageTypes DEF Generation, ControlTypes
  <2>4. InFlight' \subseteq InFlight
    BY <1>0, <1>8, <2>2, ReceivedLands DEF ReceiveRefused, TypeOK
  <2> QED
    BY <1>0, <2>1, <2>2, <2>3, <2>4, LiveIsUndecided, Decided
<1>9. CASE ReceiveLost
  <2> DEFINE e == Head(inbox)
  <2>1. /\ e \in InFlight /\ e.type = "Lost" /\ e.gen \in Generation /\ Idling /\ events' = events
        /\ InFlight' \subseteq InFlight
    BY <1>0, <1>9, ReceivedLands, TakingTypes
    DEF ReceiveLost, Taking, Ignored, channelVars, TypeOK
  <2>2. CASE LossMoot(e.gen)
    <3>1. Spent(e)
      BY <2>1, <2>2 DEF Spent, LossMoot
    <3> QED
      BY <1>0, <1>9, <2>2, <3>1, SpentStep DEF ReceiveLost, Ignored, channelVars
  <2>3. CASE ~LossMoot(e.gen)
    <3>1. AtWork /\ e.gen > clientGen
      BY <1>0, <2>1, <2>3 DEF LossMoot, AtWork, Idling, Generation
    <3>2. e.gen = clientGen + 1 /\ supGen = e.gen /\ sup = "Waiting" /\ Decisions = {}
      BY <2>1, <3>1, LostIsAhead
    <3>3. /\ UNCHANGED dropped
          /\ \/ /\ clientGen' = e.gen /\ conn' = "Reconnecting"
                /\ notices' = Append(notices, Tell("Reconnect", e.gen))
             \/ /\ clientGen' = e.gen + 1 /\ conn' = "Stopped"
                /\ notices' = Append(notices, Tell("Stop", e.gen))
      BY <1>9, <2>3 DEF ReceiveLost, Halt, Told
    <3>4. /\ Tell("Reconnect", e.gen) \in Notice /\ Tell("Stop", e.gen) \in Notice
          /\ (e.gen + 1) - 1 = e.gen
      BY <2>1, MessageTypes DEF ControlTypes, Generation
    <3> QED
      BY <1>0, <2>1, <3>1, <3>2, <3>3, <3>4, Decided
  <2> QED
    BY <2>2, <2>3
<1>10. CASE ReceiveAttempting
  <2> DEFINE e == Head(inbox)
  <2>1. /\ e \in InFlight /\ e.type = "Attempting" /\ Idling /\ events' = events
        /\ InFlight' \subseteq InFlight /\ Spent(e) /\ UNCHANGED <<link, dropped>>
    BY <1>0, <1>10, ReceivedLands
    DEF ReceiveAttempting, Taking, Ignored, channelVars, Spent, TypeOK
  <2>2. CASE UNCHANGED <<conn, clientGen, notices>> /\ (conn \in ShutKinds => status' = status)
    BY <1>0, <1>10, <2>1, <2>2, SpentStep DEF ReceiveAttempting
  <2>3. CASE ~(UNCHANGED <<conn, clientGen, notices>> /\ (conn \in ShutKinds => status' = status))
    <3>1. conn = "Reconnecting" /\ e.gen = clientGen /\ \E why : Halt(clientGen, why)
      BY <1>10, <2>3 DEF ReceiveAttempting, Ignored, channelVars, ShutKinds
    <3>2. AtWork
      BY <2>1, <3>1 DEF AtWork, Idling, ShutKinds
    <3>3. /\ notices' = Append(notices, Tell("Stop", clientGen)) /\ conn' = "Stopped"
          /\ clientGen' = clientGen + 1
      BY <3>1 DEF Halt, Told
    <3>4. Tell("Stop", clientGen) \in Notice /\ clientGen' - 1 = clientGen
      BY <1>0, <3>3, MessageTypes DEF Generation, ControlTypes
    <3> QED
      BY <1>0, <2>1, <3>1, <3>2, <3>3, <3>4, AttemptIsCurrent, Decided
  <2> QED
    BY <2>2, <2>3
<1>11. CASE ReceiveReconnected
  BY <1>0, <1>11, ReconnectedStep
<1>12. CASE ReceiveStopped
  BY <1>0, <1>12, StoppedStep
<1> QED
  BY <1>1, <1>2, <1>3, <1>4, <1>5, <1>6, <1>7, <1>8, <1>9, <1>10, <1>11, <1>12
  DEF ClientNext, Receive

----------------------------------------------------------------------------
\* What every step of the supervisor leaves as it was.
LEMMA SupervisorLeaves ==
  ASSUME Ready, SupervisorNext, UNCHANGED clientVars
  PROVE  /\ LinkIsCurrent' /\ OnlyRestartsFollow'
         /\ UNCHANGED <<conn, clientGen, link, dropped, status, inbox>> /\ (AtWork' <=> AtWork)
         /\ \A x \in Carried(notices)' : x \in Carried(notices)
         /\ \A x \in Carried(notices) : x \in Carried(notices)' \/ (notices # <<>> /\ x = Head(notices))
<1>0. TypeOK /\ LinkIsCurrent
  BY DEF Ready, IInv, StandoffInv
<1>1. UNCHANGED <<conn, clientGen, link, dropped, status, inbox>> /\ (AtWork' <=> AtWork)
  BY DEF clientVars, AtWork
<1>2. LinkIsCurrent' /\ OnlyRestartsFollow'
  BY <1>0, <1>1, SupervisorReports, FollowKept DEF LinkIsCurrent
<1> QED
  BY <1>0, <1>1, <1>2, SupervisorReports, TakenCarries, FlightUnmoved DEF TypeOK

\* The head of the inbox is one of the notices on their way.
LEMMA HeadCarried ==
  ASSUME Ready, NEW type, Take(type)
  PROVE  /\ Head(notices) \in Carried(notices) /\ Head(notices).type = type
         /\ Head(notices).gen \in Nat /\ notices # <<>> /\ sup # "Done"
<1>1. Head(notices) \in Carried(notices)
  BY CarriedLess DEF Ready, IInv, TypeOK, ChannelTypes, Take
<1> QED
  BY <1>1, ReadyTypes DEF Take

\* The decision taken from the inbox was the only one, when it is no restart.
LEMMA OnlyOne ==
  ASSUME Ready, NEW d, Decisions = {d}, d.type # "Restart", Head(notices) = d,
         notices # <<>>, notices' = Tail(notices)
  PROVE  Decisions' = {}
<1>1. SUFFICES ASSUME NEW x \in Decisions' PROVE FALSE
  OBVIOUS
<1>2. Carried(notices)' = Carried(Tail(notices))
  BY DEF Carried
<1>3. x \in Carried(Tail(notices)) /\ x.type \in DecisionTypes
  BY <1>1, <1>2 DEF Decisions, DecisionTypes
<1>4. x \in Carried(notices)
  BY <1>3, CarriedLess DEF Ready, IInv, TypeOK, ChannelTypes
<1>5. x = d /\ d.type \in DecisionTypes
  BY <1>3, <1>4 DEF Decisions, DecisionTypes
<1>6. x.type = "Restart"
  BY <1>3, <1>5, AfterHead
<1> QED
  BY <1>5, <1>6

\* A shutdown in the inbox was sent by a client at its end.
LEMMA ShutdownStep ==
  ASSUME Ready, OnShutdown, UNCHANGED clientVars
  PROVE  Aligned'
<1>0. /\ GoneOnlyWhenTold /\ ReportsAreOld /\ GoodbyeIsAnswered /\ TypeOK
      /\ UNCHANGED <<supGen, child>>
  BY DEF Ready, IInv, StandoffInv, OnShutdown
<1>1. ~AtWork
  BY <1>0, HeadCarried DEF GoneOnlyWhenTold, OnShutdown
<1>2. SupervisorNext
  BY DEF SupervisorNext, TakeNotice
<1>3. GoneOnlyWhenTold' /\ HeardMeansDone' /\ UnheardWillDo'
  BY <1>1, <1>2, SupervisorLeaves DEF GoneOnlyWhenTold, HeardMeansDone, UnheardWillDo
<1>4. inbox' = inbox
  BY DEF clientVars
<1>5. CASE sup \in {"Live", "Closing"}
  <2>1. sup' = "Closing" /\ ending' = "Stopped" /\ events' = events
    BY <1>5 DEF OnShutdown, Close
  <2>2. InFlight' = InFlight
    BY <1>4, <2>1, FlightUnmoved
  <2>3. ReportsAreOld' /\ GoodbyeIsAnswered'
    BY <1>0, <2>1, <2>2 DEF ReportsAreOld, GoodbyeIsAnswered
  <2> QED
    BY <1>2, <1>3, <2>3, SupervisorLeaves DEF Aligned
<1>6. CASE sup \notin {"Live", "Closing"}
  <2>1. sup' = "Done" /\ Reported(Report("Stopped", 0, "Shutdown"))
    BY <1>6 DEF OnShutdown
  <2>2. Report("Stopped", 0, "Shutdown") \in Event
    BY MessageTypes DEF Generation, Reasons
  <2>3. \A x : x \in InFlight' <=> x \in InFlight \/ x = Report("Stopped", 0, "Shutdown")
    BY <1>0, <1>4, <2>1, <2>2, ReportedFlies
  <2>4. ReportsAreOld' /\ GoodbyeIsAnswered'
    BY <1>0, <2>1, <2>3 DEF ReportsAreOld, GoodbyeIsAnswered, Report
  <2> QED
    BY <1>2, <1>3, <2>4, SupervisorLeaves DEF Aligned
<1> QED
  BY <1>5, <1>6

\* A reconnection the supervisor is told of is of the generation it waits with.
LEMMA ReconnectStep ==
  ASSUME Ready, OnReconnect, UNCHANGED clientVars
  PROVE  Aligned'
<1> DEFINE n == Head(notices)
<1>0. /\ GoneOnlyWhenTold /\ ReportsAreOld /\ GoodbyeIsAnswered /\ UnheardWillDo
      /\ UNCHANGED <<supGen, child, ending, events, inbox>> /\ notices' = Tail(notices)
      /\ sup' = IF sup = "Waiting" /\ n.gen = supGen THEN "Backoff" ELSE sup
  BY DEF Ready, StandoffInv, OnReconnect, Take, clientVars
<1>1. SupervisorNext
  BY DEF SupervisorNext, TakeNotice
<1>2. /\ n \in Carried(notices) /\ n.type = "Reconnect" /\ notices # <<>> /\ InFlight' = InFlight
      /\ n \in Decisions
  BY <1>0, HeadCarried, FlightUnmoved DEF OnReconnect, Decisions
<1>3. ReportsAreOld'
  BY <1>0, <1>2 DEF ReportsAreOld
<1>4. GoneOnlyWhenTold'
  BY <1>0, <1>1, <1>2, SupervisorLeaves DEF GoneOnlyWhenTold
<1>5. GoodbyeIsAnswered'
  BY <1>0, <1>1, <1>2, SupervisorLeaves DEF GoodbyeIsAnswered
<1>6. HeardMeansDone' /\ UnheardWillDo'
  <2>1. CASE ~AtWork
    BY <1>1, <2>1, SupervisorLeaves DEF HeardMeansDone, UnheardWillDo
  <2>2. CASE conn = "Reconnecting" /\ Tell("Restart", clientGen) \in Decisions
    <3>1. Tell("Restart", clientGen) # n
      BY <1>2 DEF Tell
    <3>2. Tell("Restart", clientGen) \in Decisions'
      BY <1>1, <2>2, <3>1, SupervisorLeaves DEF Decisions
    <3> QED
      BY <1>1, <2>2, <3>2, SupervisorLeaves DEF HeardMeansDone, UnheardWillDo
  <2>3. CASE /\ conn = "Reconnecting" /\ Decisions = {Tell("Reconnect", clientGen)}
             /\ sup = "Waiting" /\ supGen = clientGen
    <3>1. n = Tell("Reconnect", clientGen) /\ n.gen = clientGen
      BY <1>2, <2>3 DEF Tell
    <3>2. Decisions' = {}
      BY <1>0, <1>2, <2>3, <3>1, OnlyOne
    <3> QED
      BY <1>0, <1>1, <2>3, <3>1, <3>2, SupervisorLeaves DEF HeardMeansDone, UnheardWillDo
  <2>4. CASE Decisions = {Tell("Stop", clientGen - 1)}
    BY <1>2, <2>4 DEF Tell
  <2> QED
    BY <1>0, <1>2, <2>1, <2>2, <2>3, <2>4 DEF UnheardWillDo
<1> QED
  BY <1>1, <1>3, <1>4, <1>5, <1>6, SupervisorLeaves DEF Aligned

\* A stop reaches the supervisor where the client believes it: on the generation it stops, or
\* already waiting past it.
LEMMA StopStep ==
  ASSUME Ready, OnStop, UNCHANGED clientVars
  PROVE  Aligned'
<1> DEFINE n == Head(notices)
<1>0. /\ GoneOnlyWhenTold /\ ReportsAreOld /\ GoodbyeIsAnswered /\ UnheardWillDo
      /\ UNCHANGED <<child, events, inbox>> /\ notices' = Tail(notices)
      /\ clientGen \in Nat /\ supGen \in Nat /\ child \in Nat
      /\ \A e \in InFlight : e.gen \in Nat
  BY ReadyTypes DEF Ready, StandoffInv, OnStop, Take, clientVars, Close, supVars
<1>1. SupervisorNext
  BY DEF SupervisorNext, TakeNotice
<1>2. /\ n \in Carried(notices) /\ n.type = "Stop" /\ notices # <<>> /\ InFlight' = InFlight
      /\ n \in Decisions /\ n.gen \in Nat
  BY <1>0, HeadCarried, FlightUnmoved DEF OnStop, Decisions
<1>3. \/ /\ sup = "Live" /\ sup' = "Closing" /\ ending' = "Idle"
         /\ n.gen = supGen /\ supGen' = supGen + 1
      \/ /\ sup \in {"Draining", "Waiting", "Backoff", "Idle"} /\ sup' = "Idle"
         /\ n.gen = supGen /\ supGen' = supGen + 1 /\ ending' = ending
      \/ (sup = "Closing" \/ n.gen # supGen) /\ UNCHANGED <<sup, supGen, ending>>
  BY <1>2 DEF OnStop, Close, supVars
<1>4. ReportsAreOld'
  <2>1. supGen' >= supGen
    BY <1>0, <1>3
  <2>2. \A e \in InFlight : e.gen <= supGen => e.gen <= supGen'
    BY <1>0, <1>3
  <2>3. sup' = "Waiting" => sup = "Waiting" /\ supGen' = supGen
    BY <1>3
  <2> QED
    BY <1>0, <1>2, <2>2, <2>3 DEF ReportsAreOld
<1>5. GoneOnlyWhenTold'
  <2>1. sup' # "Done" \/ sup = "Done"
    BY <1>3
  <2>2. sup' = "Closing" /\ ending' = "Stopped" => sup = "Closing" /\ ending = "Stopped"
    BY <1>3
  <2> QED
    BY <1>0, <1>1, <1>2, <2>1, <2>2, SupervisorLeaves DEF GoneOnlyWhenTold
<1>6. GoodbyeIsAnswered'
  <2>1. sup = "Closing" /\ ending = "Stopped" => sup' = "Closing" /\ ending' = "Stopped"
    BY <1>3
  <2>2. sup # "Done"
    BY HeadCarried DEF OnStop
  <2> QED
    BY <1>0, <1>1, <1>2, <2>1, <2>2, SupervisorLeaves DEF GoodbyeIsAnswered
<1>7. HeardMeansDone' /\ UnheardWillDo'
  <2>1. CASE ~AtWork
    BY <1>1, <2>1, SupervisorLeaves DEF HeardMeansDone, UnheardWillDo
  <2>2. CASE conn = "Reconnecting" /\ Tell("Restart", clientGen) \in Decisions
    <3>1. Tell("Restart", clientGen) # n
      BY <1>2 DEF Tell
    <3>2. Tell("Restart", clientGen) \in Decisions'
      BY <1>1, <2>2, <3>1, SupervisorLeaves DEF Decisions
    <3> QED
      BY <1>1, <2>2, <3>2, SupervisorLeaves DEF HeardMeansDone, UnheardWillDo
  <2>3. CASE Decisions = {Tell("Reconnect", clientGen)}
    BY <1>2, <2>3 DEF Tell
  <2>4. CASE /\ conn = "Stopped" /\ Decisions = {Tell("Stop", clientGen - 1)}
             /\ \/ supGen = clientGen - 1 /\ sup \in {"Live", "Draining", "Waiting", "Backoff"}
                \/ supGen = clientGen /\ sup = "Waiting"
    <3>1. n = Tell("Stop", clientGen - 1) /\ n.gen = clientGen - 1
      BY <1>2, <2>4 DEF Tell
    <3>2. Decisions' = {}
      BY <1>0, <1>2, <2>4, <3>1, OnlyOne
    <3>3. sup' \in {"Idle", "Waiting", "Closing"} /\ supGen' = clientGen
      BY <1>0, <1>3, <2>4, <3>1
    <3> QED
      BY <1>1, <2>4, <3>2, <3>3, SupervisorLeaves DEF HeardMeansDone, UnheardWillDo
  <2> QED
    BY <1>0, <1>2, <2>1, <2>2, <2>3, <2>4 DEF UnheardWillDo
<1> QED
  BY <1>1, <1>4, <1>5, <1>6, <1>7, SupervisorLeaves DEF Aligned

\* A restart reaches a supervisor that has not gone further, and is the last of its decisions or
\* followed by a newer one.
LEMMA RestartStep ==
  ASSUME Ready, OnRestart, UNCHANGED clientVars
  PROVE  Aligned'
<1> DEFINE n == Head(notices)
           applies == n.gen >= supGen /\ ~(sup = "Closing" /\ ending = "Stopped")
<1>0. /\ GoneOnlyWhenTold /\ ReportsAreOld /\ GoodbyeIsAnswered /\ UnheardWillDo /\ TypeOK
      /\ inbox' = inbox /\ notices' = Tail(notices)
      /\ clientGen \in Nat /\ supGen \in Nat /\ child \in Nat
      /\ \A e \in InFlight : e.gen \in Nat
      /\ child <= supGen
  BY ReadyTypes DEF Ready, IInv, ChildIsBehind, StandoffInv, OnRestart, Take, clientVars
<1>1. SupervisorNext
  BY DEF SupervisorNext, TakeNotice
<1>2. /\ n \in Carried(notices) /\ n.type = "Restart" /\ notices # <<>>
      /\ n \in Decisions /\ n.gen \in Nat /\ sup # "Done"
  BY HeadCarried DEF OnRestart, Decisions
<1>3. CASE ~applies
  <2>1. UNCHANGED <<supGen, sup, child, ending>> /\ InFlight' = InFlight
    BY <1>0, <1>3, FlightUnmoved DEF OnRestart, supVars
  <2>2. ~AtWork
    <3>1. n.gen >= supGen
      BY <1>0, <1>2, CarriedAhead
    <3> QED
      BY <1>0, <1>3, <3>1 DEF GoneOnlyWhenTold
  <2>3. ReportsAreOld' /\ GoneOnlyWhenTold' /\ HeardMeansDone' /\ UnheardWillDo'
    BY <1>0, <1>1, <2>1, <2>2, SupervisorLeaves
    DEF ReportsAreOld, GoneOnlyWhenTold, HeardMeansDone, UnheardWillDo
  <2>4. GoodbyeIsAnswered'
    BY <1>0, <1>1, <1>2, <2>1, SupervisorLeaves DEF GoodbyeIsAnswered
  <2> QED
    BY <1>1, <2>3, <2>4, SupervisorLeaves DEF Aligned
<1>4. CASE applies
  <2>1. PICK e \in Event :
          /\ supGen' = n.gen /\ Reported(e) /\ e.gen = n.gen
          /\ \/ sup' = "Live" /\ child' = n.gen /\ e.type = "Reconnected"
             \/ sup' = "Backoff" /\ child' = child /\ e.type = "Attempting"
    <3>1. /\ Report("Reconnected", n.gen, "none") \in Event
          /\ Report("Attempting", n.gen, "none") \in Event
      BY <1>2, MessageTypes DEF Generation
    <3> QED
      BY <1>4, <3>1 DEF OnRestart, Report
  <2>2. \A x : x \in InFlight' <=> x \in InFlight \/ x = e
    BY <1>0, <2>1, ReportedFlies
  <2>3. child <= child' /\ supGen <= supGen' /\ n.gen >= supGen
    BY <1>0, <1>2, <1>4, <2>1
  <2>4. ReportsAreOld'
    <3> SUFFICES ASSUME NEW x \in InFlight'
                 PROVE  /\ x.type \in {"Lost", "Attempting"} => x.gen <= supGen'
                        /\ x.type = "Attempting" /\ sup' = "Waiting" => x.gen < supGen'
                        /\ x.type = "Reconnected" => x.gen <= child'
                        /\ x.type = "Stopped" => x.arg = "Shutdown"
      BY DEF ReportsAreOld
    <3>1. CASE x = e
      BY <1>2, <2>1, <3>1
    <3>2. CASE x \in InFlight
      <4>1. /\ x.type \in {"Lost", "Attempting"} => x.gen <= supGen
            /\ x.type = "Reconnected" => x.gen <= child
            /\ x.type = "Stopped" => x.arg = "Shutdown"
            /\ x.gen \in Nat /\ supGen' \in Nat /\ child' \in Nat
        BY <1>0, <1>2, <2>1, <3>2 DEF ReportsAreOld
      <4> QED
        BY <1>0, <2>1, <2>3, <4>1
    <3> QED
      BY <2>2, <3>1, <3>2
  <2>5. GoneOnlyWhenTold'
    BY <1>0, <1>1, <2>1, <2>2, SupervisorLeaves DEF GoneOnlyWhenTold
  <2>6. GoodbyeIsAnswered'
    BY <1>0, <1>1, <1>2, <1>4, SupervisorLeaves DEF GoodbyeIsAnswered
  <2>7. HeardMeansDone' /\ UnheardWillDo'
    <3>1. CASE ~AtWork
      BY <1>1, <3>1, SupervisorLeaves DEF HeardMeansDone, UnheardWillDo
    <3>2. CASE conn = "Reconnecting" /\ Tell("Restart", clientGen) \in Decisions
      <4>1. CASE n = Tell("Restart", clientGen)
        <5>1. n.gen = clientGen
          BY <4>1 DEF Tell
        <5>2. Decisions' = {}
          <6> SUFFICES ASSUME NEW x \in Decisions' PROVE FALSE
            OBVIOUS
          <6>1. Carried(notices)' = Carried(Tail(notices))
            BY <1>0 DEF Carried
          <6>2. x \in Carried(Tail(notices)) /\ x.type \in DecisionTypes /\ x \in Carried(notices)
            BY <1>1, <6>1, SupervisorLeaves DEF Decisions, DecisionTypes
          <6>3. x.type = "Restart" /\ n.gen < x.gen
            BY <1>2, <6>2, AfterHead DEF DecisionTypes
          <6>4. x.gen <= clientGen /\ x.gen \in Nat
            BY <6>2, <6>3, CarriedAhead, ReadyTypes
          <6> QED
            BY <1>0, <1>2, <5>1, <6>3, <6>4
        <5>3. e \in InFlight'
          BY <2>2
        <5> QED
          BY <1>1, <2>1, <3>2, <5>1, <5>2, <5>3, SupervisorLeaves DEF HeardMeansDone, UnheardWillDo
      <4>2. CASE n # Tell("Restart", clientGen)
        <5>1. Tell("Restart", clientGen) \in Decisions'
          BY <1>1, <3>2, <4>2, SupervisorLeaves DEF Decisions
        <5> QED
          BY <1>1, <3>2, <5>1, SupervisorLeaves DEF HeardMeansDone, UnheardWillDo
      <4> QED
        BY <4>1, <4>2
    <3>3. CASE Decisions = {Tell("Reconnect", clientGen)} \/ Decisions = {Tell("Stop", clientGen - 1)}
      BY <1>2, <3>3 DEF Tell
    <3> QED
      BY <1>0, <1>2, <3>1, <3>2, <3>3 DEF UnheardWillDo
  <2> QED
    BY <1>1, <2>4, <2>5, <2>6, <2>7, SupervisorLeaves DEF Aligned
<1> QED
  BY <1>3, <1>4

\* What the supervisor does with the news of a connection, and while it closes one.
LEMMA ConnectionStep ==
  ASSUME Ready, UNCHANGED clientVars,
         OnHandshaken \/ OnThreadNotice \/ OnReplied \/ ExitSeen \/ DeadlineFires \/ ReplyExpires
  PROVE  Aligned'
<1>1. SupervisorNext
  BY DEF SupervisorNext, TakeNotice, Tick
<1>2. /\ UNCHANGED <<supGen, child, ending, events>>
      /\ sup' = sup \/ (sup = "Live" /\ sup' = "Draining")
  BY DEF OnHandshaken, OnThreadNotice, OnReplied, ExitSeen, DeadlineFires, ReplyExpires, Drain,
         supVars, channelVars
<1>3. \/ notices' = notices
      \/ /\ notices' = Tail(notices) /\ notices # <<>>
         /\ Head(notices).type \notin DecisionTypes \cup {"Shutdown"}
  BY DEF OnHandshaken, OnThreadNotice, OnReplied, ExitSeen, DeadlineFires, ReplyExpires, Take,
         DecisionTypes, channelVars
<1>4. \A x \in Carried(notices) : x \in Carried(notices)' \/ x.type \notin DecisionTypes \cup {"Shutdown"}
  <2>1. CASE notices' = notices
    BY <2>1, FlightUnmoved
  <2>2. CASE notices' # notices
    BY <1>1, <1>3, <2>2, SupervisorLeaves
  <2> QED
    BY <2>1, <2>2
<1>5. UNCHANGED <<conn, clientGen, link, dropped, status, inbox>>
  BY DEF clientVars
<1>6. InFlight' = InFlight
  BY <1>2, <1>5, FlightUnmoved
<1> QED
  BY <1>1, <1>2, <1>4, <1>5, <1>6, SupervisorLeaves, Unconcerned DEF Aligned

\* The end of a drain takes the supervisor one ahead of the client, with the loss on its way.
LEMMA DrainStep ==
  ASSUME Ready, DrainDone, UNCHANGED clientVars
  PROVE  Aligned'
<1> DEFINE lost == Report("Lost", supGen + 1, cause)
<1>0. /\ GoneOnlyWhenTold /\ ReportsAreOld /\ GoodbyeIsAnswered /\ UnheardWillDo /\ HeardMeansDone
      /\ TypeOK /\ clientGen \in Nat /\ supGen \in Nat /\ child \in Nat
      /\ \A e \in InFlight : e.gen \in Nat
      /\ sup = "Draining" /\ sup' = "Waiting" /\ supGen' = supGen + 1 /\ Reported(lost)
      /\ child' = child /\ ending' = ending /\ notices' = notices
  BY ReadyTypes DEF Ready, IInv, StandoffInv, DrainDone
<1>1. SupervisorNext
  BY DEF SupervisorNext, Tick
<1>2. lost \in Event /\ lost.type = "Lost" /\ lost.gen = supGen + 1
  <2>1. cause \in Reasons /\ supGen + 1 \in Generation
    BY <1>0 DEF TypeOK, SupTypes, Generation
  <2> QED
    BY <2>1, MessageTypes DEF Report
<1>3. \A x : x \in InFlight' <=> x \in InFlight \/ x = lost
  BY <1>0, <1>1, <1>2, SupervisorLeaves, ReportedFlies
<1>4. Carried(notices)' = Carried(notices) /\ Decisions' = Decisions
  BY <1>0, FlightUnmoved DEF Decisions
<1>5. ReportsAreOld'
  <2>1. \A g \in Nat : g <= supGen => g <= supGen + 1 /\ g < supGen + 1
    BY <1>0
  <2> QED
    BY <1>0, <1>2, <1>3, <2>1 DEF ReportsAreOld
<1>6. GoneOnlyWhenTold'
  BY <1>0, <1>1, <1>2, <1>3, <1>4, SupervisorLeaves DEF GoneOnlyWhenTold
<1>7. GoodbyeIsAnswered'
  BY <1>0, <1>1, <1>4, SupervisorLeaves DEF GoodbyeIsAnswered
<1>8. HeardMeansDone'
  <2>1. SUFFICES ASSUME AtWork, Decisions = {}, conn' = conn, clientGen' = clientGen
                 PROVE  conn \in {"Live", "Reconnecting"} /\ LossComing'
    BY <1>1, <1>4, SupervisorLeaves DEF HeardMeansDone
  <2>2. conn \in {"Live", "Reconnecting"} /\ supGen = clientGen
    BY <1>0, <2>1 DEF HeardMeansDone, LossComing
  <2> QED
    BY <1>0, <1>2, <1>3, <2>1, <2>2 DEF LossComing
<1>9. UnheardWillDo'
  <2>1. supGen = clientGen - 1 => supGen + 1 = clientGen
    BY <1>0
  <2> QED
    BY <1>0, <1>1, <1>4, <2>1, SupervisorLeaves DEF UnheardWillDo
<1> QED
  BY <1>1, <1>5, <1>6, <1>7, <1>8, <1>9, SupervisorLeaves DEF Aligned

\* An attempt keeps the generation, and the client hears how it went.
LEMMA BackoffStep ==
  ASSUME Ready, BackoffDone, UNCHANGED clientVars
  PROVE  Aligned'
<1>0. /\ GoneOnlyWhenTold /\ ReportsAreOld /\ GoodbyeIsAnswered /\ UnheardWillDo /\ HeardMeansDone
      /\ TypeOK /\ clientGen \in Nat /\ supGen \in Nat /\ child \in Nat
      /\ \A e \in InFlight : e.gen \in Nat
      /\ sup = "Backoff" /\ supGen' = supGen /\ ending' = ending /\ notices' = notices
      /\ child <= supGen
  BY ReadyTypes DEF Ready, IInv, ChildIsBehind, StandoffInv, BackoffDone
<1>1. SupervisorNext
  BY DEF SupervisorNext, Tick
<1>2. PICK e \in Event :
        /\ Reported(e) /\ e.gen = supGen
        /\ \/ sup' = "Live" /\ child' = supGen /\ e.type = "Reconnected"
           \/ sup' = "Backoff" /\ child' = child /\ e.type = "Attempting"
  <2>1. /\ Report("Reconnected", supGen, "none") \in Event
        /\ Report("Attempting", supGen, "none") \in Event
    BY <1>0, MessageTypes DEF Generation
  <2> QED
    BY <2>1 DEF BackoffDone, Connect, Report
<1>3. \A x : x \in InFlight' <=> x \in InFlight \/ x = e
  BY <1>0, <1>1, <1>2, SupervisorLeaves, ReportedFlies
<1>4. Carried(notices)' = Carried(notices) /\ Decisions' = Decisions
  BY <1>0, FlightUnmoved DEF Decisions
<1>5. ReportsAreOld'
  <2>1. \A g \in Nat : g <= child => g <= supGen
    BY <1>0
  <2>2. supGen <= supGen
    BY <1>0
  <2> QED
    BY <1>0, <1>2, <1>3, <2>1, <2>2 DEF ReportsAreOld
<1>6. GoneOnlyWhenTold'
  BY <1>0, <1>1, <1>2, <1>3, <1>4, SupervisorLeaves DEF GoneOnlyWhenTold
<1>7. GoodbyeIsAnswered'
  BY <1>0, <1>1, <1>4, SupervisorLeaves DEF GoodbyeIsAnswered
<1>8. HeardMeansDone'
  <2>1. SUFFICES ASSUME AtWork, Decisions = {}, conn' = conn, clientGen' = clientGen
                 PROVE  /\ conn = "Reconnecting" /\ supGen = clientGen
                        /\ \/ sup' = "Backoff"
                           \/ sup' = "Live" /\ \E x \in InFlight' : x.type = "Reconnected" /\ x.gen = clientGen
    BY <1>0, <1>1, <1>4, SupervisorLeaves DEF HeardMeansDone
  <2>2. conn = "Reconnecting" /\ supGen = clientGen
    BY <1>0, <2>1 DEF HeardMeansDone, LossComing
  <2> QED
    BY <1>2, <1>3, <2>2
<1>9. UnheardWillDo'
  BY <1>0, <1>1, <1>2, <1>4, SupervisorLeaves DEF UnheardWillDo
<1> QED
  BY <1>1, <1>5, <1>6, <1>7, <1>8, <1>9, SupervisorLeaves DEF Aligned

\* A shutdown sequence ends as the client last wanted it to.
LEMMA ClosingStep ==
  ASSUME Ready, ClosingOver, UNCHANGED clientVars
  PROVE  Aligned'
<1>0. /\ GoneOnlyWhenTold /\ ReportsAreOld /\ GoodbyeIsAnswered /\ UnheardWillDo /\ HeardMeansDone
      /\ TypeOK /\ sup = "Closing" /\ UNCHANGED <<supGen, child>> /\ notices' = notices
  BY DEF Ready, IInv, StandoffInv, ClosingOver
<1>1. SupervisorNext
  BY DEF SupervisorNext, Tick
<1>2. Carried(notices)' = Carried(notices) /\ Decisions' = Decisions
  BY <1>0, FlightUnmoved DEF Decisions
<1>3. CASE ending = "Stopped"
  <2>1. sup' = "Done" /\ Reported(Report("Stopped", 0, "Shutdown"))
    BY <1>3 DEF ClosingOver
  <2>2. Report("Stopped", 0, "Shutdown") \in Event
    BY MessageTypes DEF Generation, Reasons
  <2>3. \A x : x \in InFlight' <=> x \in InFlight \/ x = Report("Stopped", 0, "Shutdown")
    BY <1>0, <1>1, <2>1, <2>2, SupervisorLeaves, ReportedFlies
  <2>4. ReportsAreOld' /\ GoodbyeIsAnswered'
    BY <1>0, <2>1, <2>3 DEF ReportsAreOld, GoodbyeIsAnswered, Report
  <2>5. ~AtWork'
    BY <1>0, <1>1, <1>3, SupervisorLeaves DEF GoneOnlyWhenTold
  <2> QED
    BY <1>1, <2>4, <2>5, SupervisorLeaves
    DEF Aligned, GoneOnlyWhenTold, HeardMeansDone, UnheardWillDo
<1>4. CASE ending # "Stopped"
  <2>1. sup' = "Idle" /\ events' = events
    BY <1>4 DEF ClosingOver
  <2>2. InFlight' = InFlight
    BY <1>1, <2>1, SupervisorLeaves, FlightUnmoved
  <2>3. ReportsAreOld'
    BY <1>0, <2>1, <2>2 DEF ReportsAreOld
  <2>4. GoneOnlyWhenTold'
    BY <1>0, <1>1, <1>2, <2>1, <2>2, SupervisorLeaves DEF GoneOnlyWhenTold
  <2>5. GoodbyeIsAnswered'
    BY <1>0, <1>1, <1>2, <1>4, SupervisorLeaves DEF GoodbyeIsAnswered
  <2>6. HeardMeansDone'
    BY <1>0, <1>1, <1>2, <2>1, SupervisorLeaves DEF HeardMeansDone, LossComing
  <2>7. UnheardWillDo'
    BY <1>0, <1>1, <1>2, SupervisorLeaves DEF UnheardWillDo
  <2> QED
    BY <1>1, <2>3, <2>4, <2>5, <2>6, <2>7, SupervisorLeaves DEF Aligned
<1> QED
  BY <1>3, <1>4

LEMMA SupervisorStepAligns ==
  ASSUME Ready, SupervisorNext, UNCHANGED clientVars
  PROVE  Aligned'
BY ShutdownStep, ReconnectStep, StopStep, RestartStep, ConnectionStep, DrainStep, BackoffStep,
   ClosingStep
DEF SupervisorNext, TakeNotice, Tick

\* The servers and their threads bring news the client or the supervisor has yet to act on.
LEMMA ServerStepAligns ==
  ASSUME Ready, ServerNext, UNCHANGED clientVars
  PROVE  Aligned'
<1>0. TypeOK /\ UNCHANGED <<conn, clientGen, link, dropped, status, inbox>>
  BY DEF Ready, IInv, clientVars
<1>1. /\ UNCHANGED supVars
      /\ \/ notices' = notices
         \/ \E n \in Notice : n.type \in ThreadTypes /\ notices' = Append(notices, n)
  BY <1>0, ServerTells
<1>2. \A type \in ThreadTypes : type \notin DecisionTypes \cup {"Shutdown"}
  BY DEF ThreadTypes, DecisionTypes
<1>3. \/ events' = events
      \/ \E e \in Event : e.type = "Message" /\ Reported(e)
  <2>1. CASE ReaderDelivers
    <3>1. \A g \in Generation, reply \in Replies :
            Report("Message", g, reply) \in Event /\ Report("Message", g, reply).type = "Message"
      BY MessageTypes DEF Report
    <3>2. reading \subseteq Generation
      BY <1>0 DEF TypeOK, ServerTypes
    <3> QED
      BY <2>1, <3>1, <3>2 DEF ReaderDelivers
  <2>2. CASE ~ReaderDelivers
    BY <2>2 DEF ServerNext, ServerAnswers, ServerCrashes, ServerExits, ReaderEnds, WriterTrouble,
                channelVars
  <2> QED
    BY <2>1, <2>2
<1>4. /\ \A x \in InFlight' : x \in InFlight \/ x.type = "Message"
      /\ \A x \in InFlight : x \in InFlight'
  BY <1>0, <1>3, ReportedFlies, FlightUnmoved
<1> QED
  BY <1>0, <1>1, <1>2, <1>4, UndecidedStep

----------------------------------------------------------------------------
LEMMA InitStandoff == Init => StandoffInv
<1> SUFFICES ASSUME Init PROVE StandoffInv
  OBVIOUS
<1>1. /\ conn = "Live" /\ link = 0 /\ clientGen = 0 /\ supGen = 0 /\ sup = "Live"
      /\ notices = <<>> /\ events = <<>> /\ inbox = <<>>
  BY DEF Init, ClientInit, SupInit
<1>2. Carried(notices) = {} /\ InFlight = {} /\ Decisions = {}
  BY <1>1, CarriedNone DEF InFlight, Decisions
<1>3. OnlyRestartsFollow
  BY <1>1 DEF OnlyRestartsFollow
<1> QED
  BY <1>1, <1>2, <1>3
  DEF StandoffInv, LetGoBeforeReconnect, LinkIsCurrent, ReportsAreOld, GoneOnlyWhenTold,
      HeardMeansDone, UnheardWillDo, GoodbyeIsAnswered, ShutKinds

LEMMA NextStandoff == Ready /\ [Next]_vars => StandoffInv'
<1> SUFFICES ASSUME Ready, [Next]_vars PROVE StandoffInv'
  OBVIOUS
<1>1. LetGoBeforeReconnect'
  BY NextLetGo DEF Ready, StandoffInv
<1>2. CASE ClientNext /\ UNCHANGED <<supVars, serverVars>>
  BY <1>1, <1>2, ClientStepAligns DEF StandoffInv, Aligned
<1>3. CASE (SupervisorNext \/ ServerNext) /\ UNCHANGED clientVars
  BY <1>1, <1>3, SupervisorStepAligns, ServerStepAligns DEF StandoffInv, Aligned
<1>4. CASE UNCHANGED vars
  <2>1. Aligned'
    <3>1. /\ Carried(notices)' = Carried(notices) /\ InFlight' = InFlight /\ Decisions' = Decisions
          /\ UNCHANGED <<conn, clientGen, link, dropped, status, notices>>
          /\ UNCHANGED <<supGen, sup, child, ending>>
      BY <1>4, FlightUnmoved DEF vars, clientVars, supVars, channelVars, Decisions
    <3> QED
      BY <3>1 DEF Ready, StandoffInv, Aligned, LinkIsCurrent, OnlyRestartsFollow, ReportsAreOld,
                  GoneOnlyWhenTold, AtWork, HeardMeansDone, LossComing, UnheardWillDo,
                  GoodbyeIsAnswered
  <2> QED
    BY <1>1, <2>1 DEF StandoffInv, Aligned
<1> QED
  BY <1>2, <1>3, <1>4 DEF Next

\* The inductive invariants of the bridge, all together.
THEOREM BridgeInvariance == Spec => []Inv
<1>1. Init => IInv /\ HandshakeInv /\ FirstServerInv /\ StandoffInv
  BY InitInv, InitHandshake, InitFirstServer, InitStandoff
<1>2. IInv /\ HandshakeInv /\ FirstServerInv /\ StandoffInv /\ [Next]_vars
        => IInv' /\ HandshakeInv' /\ FirstServerInv' /\ StandoffInv'
  <2>1. IInv => TypeOK
    BY DEF IInv
  <2> QED
    BY <2>1, NextInv, NextHandshake, NextFirstServer, NextStandoff DEF Ready
<1>3. IInv /\ HandshakeInv /\ FirstServerInv /\ StandoffInv => Inv
  BY DEF Inv
<1> QED
  BY <1>1, <1>2, <1>3, PTL DEF Spec

\* The two halves never wait for each other: once everything between them is delivered, the
\* supervisor is doing what the client expects of it.
THEOREM NeverAStandoff == Spec => []NoStandoff
<1>1. Inv => NoStandoff
  <2> SUFFICES ASSUME Inv, Quiet PROVE NoStandoff
    BY DEF NoStandoff
  <2>1. /\ HeldIsCurrent /\ LinkIsCurrent /\ HeardMeansDone /\ GoodbyeIsAnswered /\ GoneOnlyWhenTold
        /\ conn \in {"Live", "Reconnecting", "Stopped", "ShutLinked", "Shut"}
    BY ReadyTypes DEF Inv, Ready, HandshakeInv, StandoffInv
  <2>2. Carried(notices) = {} /\ InFlight = {} /\ Decisions = {} /\ ~dropped
    BY CarriedNone DEF Quiet, InFlight, Decisions
  <2>3. ~LossComing
    BY <2>2 DEF LossComing
  <2>4. sup = "Closing" => ending \in {"Idle", "Stopped"}
    BY DEF Inv, IInv, TypeOK, SupTypes
  <2>5. CASE conn \in ShutKinds
    BY <2>1, <2>2, <2>5 DEF GoodbyeIsAnswered, NoStandoff, ShutKinds
  <2>6. CASE conn \notin ShutKinds
    <3>1. AtWork
      BY <2>2, <2>6 DEF AtWork
    <3>2. CASE conn = "Live"
      BY <2>1, <2>2, <2>3, <3>1, <3>2
      DEF HeardMeansDone, HeldIsCurrent, LinkIsCurrent, NoStandoff
    <3>3. CASE conn = "Reconnecting"
      BY <2>1, <2>2, <2>3, <3>1, <3>3 DEF HeardMeansDone, NoStandoff
    <3>4. CASE conn = "Stopped"
      BY <2>1, <2>2, <2>3, <2>4, <3>1, <3>4 DEF HeardMeansDone, GoneOnlyWhenTold, NoStandoff
    <3> QED
      BY <2>1, <2>6, <3>2, <3>3, <3>4 DEF ShutKinds
  <2> QED
    BY <2>5, <2>6
<1> QED
  BY <1>1, BridgeInvariance, PTL
----------------------------------------------------------------------------
\* What Client::status says follows the connection and its session, through every call and event.
LEMMA ClientFits == ASSUME TypeOK, StatusFits, ClientNext PROVE StatusFits'
<1>0. calls \in Nat /\ calls + 1 # 0 /\ calls' \in Nat
  BY PolicyAssumption, ClientTypesKept DEF TypeOK, ClientTypes
<1>1. CASE RestartCall
  BY <1>1 DEF RestartCall, StatusFits, Status, Restarting
<1>2. CASE ReceiveInitialized
  BY <1>2 DEF ReceiveInitialized, ForInitialize, Holds, StatusFits, Status, Running, ShutKinds
<1>3. CASE ReceiveRefused
  BY <1>3 DEF ReceiveRefused, Halt, StatusFits, Status, StoppedBy
<1>4. CASE ReceiveLost
  <2>1. CASE LossMoot(Head(inbox).gen) /\ Ignored
    BY <2>1 DEF Ignored, StatusFits
  <2>2. CASE ~LossMoot(Head(inbox).gen)
    BY <1>4, <2>2
    DEF ReceiveLost, Halt, StatusFits, Status, StoppedBy, Restarting, LossMoot, Ignored
  <2> QED
    BY <1>4, <2>1, <2>2 DEF ReceiveLost
<1>5. CASE ReceiveAttempting
  BY <1>5 DEF ReceiveAttempting, Halt, StatusFits, Status, StoppedBy, Restarting, Ignored, ShutKinds
<1>6. CASE ReceiveReconnected
  BY <1>6 DEF ReceiveReconnected, StatusFits, Ignored, ShutKinds
<1>7. CASE ReceiveStopped
  BY <1>7 DEF ReceiveStopped, StatusFits, Ignored, ShutKinds
<1>8. CASE ShutdownCall
  BY <1>8 DEF ShutdownCall, StatusFits, ShutKinds
<1>9. CASE RestartReturn \/ DropClient \/ Poll \/ ReceiveStale \/ ReceiveStatus
  BY <1>9 DEF RestartReturn, DropClient, Poll, ReceiveStale, ReceiveStatus, Ignored, StatusFits
<1> QED
  BY <1>1, <1>2, <1>3, <1>4, <1>5, <1>6, <1>7, <1>8, <1>9 DEF ClientNext, Receive

\* Taking any other event leaves restart()'s announcement where it is.
LEMMA AnnouncementStays ==
  ASSUME TypeOK, NEW type, type # "Status", Taking(type), UNCHANGED <<events, local, calling>>
  PROVE  AnnouncementComing' <=> AnnouncementComing
<1>1. /\ Head(inbox).type = type /\ InFlight' \subseteq InFlight
      /\ \A x \in InFlight : x \in InFlight' \/ x = Head(inbox)
  BY ReceivedLands DEF TypeOK
<1>2. Carried(local)' = Carried(local)
  BY FlightUnmoved
<1> QED
  BY <1>1, <1>2 DEF AnnouncementComing

\* A restart() announces itself by a status, and receive() returns every other change of it.
LEMMA ClientAnnounces ==
  ASSUME TypeOK, StatusInv, \A e \in Carried(local) : e.type = "Status", ClientNext
  PROVE  /\ AnnouncementComing' => calls' > 0
         /\ reported' = status' \/ AnnouncementComing' \/ (calls' > 0 /\ reported' = Restarting(1))
<1>0. calls \in Nat
  BY PolicyAssumption DEF TypeOK, ClientTypes
<1>a. /\ AnnouncementComing => calls > 0
      /\ reported = status \/ AnnouncementComing \/ (calls > 0 /\ reported = Restarting(1))
  BY DEF StatusInv
<1>1. CASE RestartCall
  BY <1>0, <1>1 DEF RestartCall, AnnouncementComing
<1>2. CASE RestartReturn
  <2>1. AnnouncementComing /\ UNCHANGED <<calls, status, reported>>
    BY <1>2 DEF RestartReturn, AnnouncementComing
  <2> QED
    <3>1. Report("Status", 0, "none") \in Event /\ Report("Status", 0, "none").type = "Status"
      BY MessageTypes DEF Generation, Report
    <3>2. Carried(local)' = Carried(Append(local, Report("Status", 0, "none")))
      BY <1>2 DEF RestartReturn, Carried
    <3>3. Report("Status", 0, "none") \in Carried(local)'
      BY <3>1, <3>2, CarriedMore DEF TypeOK, ClientTypes
    <3>4. AnnouncementComing'
      BY <3>1, <3>3 DEF AnnouncementComing
    <3> QED
      BY <1>a, <2>1, <3>4
<1>3. CASE ShutdownCall \/ DropClient
  <2>1. UNCHANGED <<calls, status, reported, calling, local, inbox, events>>
    BY <1>3 DEF ShutdownCall, DropClient
  <2>2. AnnouncementComing' <=> AnnouncementComing
    BY <2>1, FlightUnmoved DEF AnnouncementComing
  <2> QED
    BY <1>a, <2>1, <2>2
<1>4. CASE Poll
  <2>1. UNCHANGED <<calls, status, reported, calling>>
    BY <1>4 DEF Poll
  <2>2. \A x : x \in Carried(local)' \cup InFlight' <=> x \in Carried(local) \cup InFlight
    BY <1>4, PolledFlies DEF TypeOK, OwnAreStatuses
  <2>3. AnnouncementComing' <=> AnnouncementComing
    BY <2>1, <2>2 DEF AnnouncementComing
  <2> QED
    BY <1>a, <2>1, <2>3
<1>5. CASE ReceiveStatus
  <2>1. Head(inbox) \in InFlight /\ Head(inbox).type = "Status" /\ InFlight' \subseteq InFlight
    BY <1>5, ReceivedLands DEF ReceiveStatus, channelVars, TypeOK
  <2>2. calls > 0
    BY <1>a, <2>1 DEF AnnouncementComing
  <2> QED
    BY <1>5, <2>2 DEF ReceiveStatus
<1>6. CASE Receive /\ ~ReceiveStatus
  <2>1. PICK type : type # "Status" /\ Taking(type)
    BY <1>6 DEF Receive, ReceiveInitialized, ReceiveRefused, ReceiveStale, ReceiveLost,
                ReceiveAttempting, ReceiveReconnected, ReceiveStopped
  <2>2. UNCHANGED <<events, local, calling, calls>>
    BY <1>6 DEF Receive, ReceiveInitialized, ReceiveRefused, ReceiveStale, ReceiveLost,
                ReceiveAttempting, ReceiveReconnected, ReceiveStopped, Ignored, channelVars
  <2>3. reported' = status' \/ UNCHANGED <<status, reported>>
    BY <1>6 DEF Receive, ReceiveInitialized, ReceiveRefused, ReceiveStale, ReceiveLost,
                ReceiveAttempting, ReceiveReconnected, ReceiveStopped, Ignored, Returned
  <2>4. AnnouncementComing' <=> AnnouncementComing
    BY <2>1, <2>2, AnnouncementStays
  <2> QED
    BY <1>a, <2>2, <2>3, <2>4
<1> QED
  BY <1>1, <1>2, <1>3, <1>4, <1>5, <1>6 DEF ClientNext

\* Neither the supervisor nor a server changes or announces a status.
LEMMA NextStatus == TypeOK /\ HandshakeInv /\ StatusInv /\ [Next]_vars => StatusInv'
<1> SUFFICES ASSUME TypeOK, HandshakeInv, StatusInv, [Next]_vars PROVE StatusInv'
  OBVIOUS
<1>1. CASE ClientNext
  BY <1>1, ClientFits, ClientAnnounces DEF StatusInv, HandshakeInv, RepliesAreTrue
<1>2. ASSUME UNCHANGED clientVars,
             events' = events \/ \E e \in Event : Reported(e) /\ e.type # "Status"
      PROVE  StatusInv'
  <2>1. /\ \A x \in InFlight' : x \in InFlight \/ x.type # "Status"
        /\ \A x \in InFlight : x \in InFlight'
    BY <1>2, ReportedFlies, FlightUnmoved DEF clientVars
  <2>2. /\ calls' = calls /\ status' = status /\ reported' = reported /\ calling' = calling
        /\ conn' = conn /\ session' = session /\ link' = link /\ Carried(local)' = Carried(local)
    BY <1>2, FlightUnmoved DEF clientVars
  <2>3. AnnouncementComing' <=> AnnouncementComing
    BY <2>1, <2>2 DEF AnnouncementComing
  <2> QED
    BY <2>2, <2>3 DEF StatusInv, StatusFits
<1>3. CASE SupervisorNext /\ UNCHANGED clientVars
  BY <1>2, <1>3, SupervisorReports
<1>4. CASE ServerNext /\ UNCHANGED clientVars
  <2>1. \A g \in Generation, reply \in Replies :
          Report("Message", g, reply) \in Event /\ Report("Message", g, reply).type # "Status"
    <3>1. \A g \in Generation, reply \in Replies : Report("Message", g, reply) \in Event
      BY MessageTypes
    <3>2. \A g, reply : Report("Message", g, reply).type # "Status"
      BY DEF Report
    <3> QED
      BY <3>1, <3>2
  <2>2. events' = events \/ \E e \in Event : Reported(e) /\ e.type # "Status"
    BY <1>4, <2>1 DEF ServerNext, ServerAnswers, ServerCrashes, ServerExits, ReaderDelivers,
       ReaderEnds, WriterTrouble, channelVars, TypeOK, ServerTypes
  <2> QED
    BY <1>2, <1>4, <2>2
<1>5. CASE UNCHANGED vars
  BY <1>2, <1>5 DEF vars, channelVars, clientVars
<1> QED
  BY <1>1, <1>3, <1>4, <1>5 DEF Next

LEMMA StatusHeld == Spec => []StatusInv
<1>1. Init => StatusInv
  BY CarriedNone DEF Init, ClientInit, StatusInv, StatusFits, AnnouncementComing, InFlight, Status, Starting
<1>2. Inv => TypeOK /\ HandshakeInv
  BY DEF Inv, IInv
<1> QED
  BY <1>1, <1>2, NextStatus, BridgeInvariance, PTL DEF Spec

\* With nothing on its way Client::status describes the bridge, and the host was told it, but for an
\* announcement of restart() that what the worker reported overtook.
THEOREM HostHearsOfIt == Spec => []HostIsTold
<1>1. Inv /\ NoStandoff /\ StatusInv => HostIsTold
  <2> SUFFICES ASSUME Inv, NoStandoff, StatusInv, Quiet, conn \notin ShutKinds
               PROVE  /\ SaysTheTruth(status)
                      /\ reported = status \/ (calls > 0 /\ reported = Restarting(1))
    BY DEF HostIsTold
  <2>1. ~AnnouncementComing
    BY CarriedNone DEF Quiet, AnnouncementComing, InFlight
  <2>2. /\ conn \in {"Live", "Reconnecting", "Stopped"} /\ StatusFits /\ LetGoBeforeReconnect
        /\ session = "Running" => link \in acked
        /\ NoOrphan
        /\ status.kind \in {"Starting", "Running", "Restarting", "Stopped"}
    BY DEF Inv, IInv, TypeOK, ClientTypes, StatusValues, StatusInv, StandoffInv, HandshakeInv, BeliefIsTrue
  <2>3. /\ conn = "Live" => sup \in {"Live", "Draining"} /\ child = link
        /\ conn = "Reconnecting" => sup = "Backoff"
        /\ conn = "Stopped" => sup \in {"Idle", "Waiting", "Closing"}
    BY DEF NoStandoff
  <2>4. SaysTheTruth(status)
    BY <2>2, <2>3 DEF SaysTheTruth, StatusFits, NoOrphan, LetGoBeforeReconnect
  <2> QED
    BY <2>1, <2>4 DEF StatusInv
<1> QED
  BY <1>1, BridgeInvariance, NeverAStandoff, StatusHeld, PTL
=============================================================================
