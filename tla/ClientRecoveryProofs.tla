------------------------ MODULE ClientRecoveryProofs ------------------------
(***************************************************************************)
(* What a step of the client does to its two channels, whatever worker is  *)
(* at the other end: the lemmas the proofs about each bridge share.        *)
(***************************************************************************)
EXTENDS ClientRecovery, Sequences, TLAPS

----------------------------------------------------------------------------
\* What a queue holds after one more, and after its head was taken.
LEMMA AppendFacts ==
  ASSUME NEW S, NEW s \in Seq(S), NEW e \in S
  PROVE  /\ Append(s, e) \in Seq(S)
         /\ Len(Append(s, e)) = Len(s) + 1
         /\ \A i \in 1..Len(s) : Append(s, e)[i] = s[i]
         /\ Append(s, e)[Len(s) + 1] = e
OBVIOUS

LEMMA TakeFacts ==
  ASSUME NEW S, NEW s \in Seq(S), s # <<>>
  PROVE  /\ Head(s) \in S
         /\ Head(s) = s[1]
         /\ Tail(s) \in Seq(S)
         /\ Len(s) \in Nat \ {0}
         /\ Len(Tail(s)) = Len(s) - 1
         /\ \A i \in 1..Len(Tail(s)) : Tail(s)[i] = s[i + 1]
OBVIOUS

\* The messages either side puts into a queue are messages.
LEMMA MessageTypes ==
  /\ \A type \in ControlTypes \cup ThreadTypes, g \in Generation : Tell(type, g) \in Notice
  /\ \A g \in Generation, done \in BOOLEAN : Goodbye(g, done) \in Notice
  /\ \A g \in Generation, reply \in Replies : Report("Message", g, reply) \in Event
  /\ \A type \in {"Lost", "Stopped"}, g \in Generation, why \in Reasons :
        Report(type, g, why) \in Event
  /\ \A type \in {"Attempting", "Reconnected", "Status"}, g \in Generation :
        Report(type, g, "none") \in Event
BY DEF Tell, Goodbye, Report, Notice, Event, ControlTypes, ThreadTypes

LEMMA StatusTypes ==
  /\ Starting \in StatusValues /\ Running \in StatusValues
  /\ \A n \in Nat : Restarting(n) \in StatusValues
  /\ \A why \in Reasons : StoppedBy(why) \in StatusValues
BY DEF Starting, Running, Restarting, StoppedBy, Status, StatusValues

\* Telling the worker and reporting to the client keep their queues well typed.
LEMMA ToldTypes ==
  ASSUME ChannelTypes, NEW n \in Notice, Told(n)
  PROVE  notices' \in Seq(Notice)
BY AppendFacts DEF ChannelTypes, Told

LEMMA FarewellTypes ==
  ASSUME ChannelTypes, ClientTypes, Farewell
  PROVE  notices' \in Seq(Notice)
<1>1. Goodbye(link, Handshake) \in Notice /\ Goodbye(clientGen, FALSE) \in Notice
  BY MessageTypes DEF ClientTypes, Handshake
<1>2. CASE conn = "Live"
  BY <1>1, <1>2, ToldTypes DEF Farewell
<1>3. CASE conn \in {"Reconnecting", "Stopped"}
  BY <1>1, <1>3, ToldTypes DEF Farewell
<1>4. CASE conn \notin {"Live", "Reconnecting", "Stopped"}
  BY <1>4 DEF Farewell, ChannelTypes
<1> QED
  BY <1>2, <1>3, <1>4

\* What receive() takes, and what stays behind it.
LEMMA TakingTypes ==
  ASSUME ClientTypes, NEW type, Taking(type)
  PROVE  /\ inbox' \in Seq(Event) /\ Head(inbox).gen \in Generation
         /\ type \in {"Lost", "Stopped"} => Head(inbox).arg \in Reasons
<1>1. Head(inbox) \in Event /\ inbox' \in Seq(Event) /\ Head(inbox).type = type
  BY TakeFacts DEF ClientTypes, Taking
<1> QED
  BY <1>1 DEF Event

LEMMA HaltTypes ==
  ASSUME ChannelTypes, NEW g \in Generation, NEW why \in Reasons, Halt(g, why)
  PROVE  /\ notices' \in Seq(Notice) /\ clientGen' \in Generation
         /\ status' \in StatusValues /\ conn' = "Stopped"
BY AppendFacts, MessageTypes, StatusTypes
   DEF ChannelTypes, Halt, Told, Generation, ControlTypes

LEMMA AdmitTypes ==
  ASSUME ClientTypes, NEW aged
  PROVE  Admit(aged).losses \in Nat
BY PolicyAssumption DEF ClientTypes, Admit

LEMMA DecideTypes ==
  ASSUME ClientTypes, NEW why \in Reasons, NEW aged
  PROVE  Decide(why, aged).losses \in Nat /\ Decide(why, aged).why \in Reasons
BY AdmitTypes DEF ClientTypes, Decide, Reasons

\* The client's actions keep the client's and the channels' types.
LEMMA ClientTypesKept ==
  ASSUME ChannelTypes, ClientTypes, ClientNext
  PROVE  ClientTypes' /\ ChannelTypes'
<1>1. CASE RestartCall
  <2> USE DEF RestartCall
  <2>1. ChannelTypes'
    BY <1>1, MessageTypes, AppendFacts
       DEF ChannelTypes, ClientTypes, Told, Generation, ControlTypes
  <2>2. ClientTypes'
    BY <1>1, StatusTypes, PolicyAssumption DEF ClientTypes, Idling, ShutKinds, Generation
  <2> QED
    BY <2>1, <2>2
<1>2. CASE RestartReturn
  BY <1>2, MessageTypes, AppendFacts
     DEF RestartReturn, ClientTypes, ChannelTypes, channelVars, Generation
<1>3. CASE ShutdownCall
  <2>1. notices' \in Seq(Notice)
    BY <1>3, FarewellTypes DEF ShutdownCall
  <2> QED
    BY <1>3, <2>1 DEF ShutdownCall, ClientTypes, ChannelTypes, ShutKinds
<1>4. CASE DropClient
  <2>1. notices' \in Seq(Notice)
    BY <1>4, FarewellTypes DEF DropClient
  <2> QED
    BY <1>4, <2>1 DEF DropClient, ClientTypes, ChannelTypes
<1>5. CASE Poll
  <2>1. local' \in Seq(Event) /\ inbox' \in Seq(Event) /\ events' \in Seq(Event)
    <3>1. CASE local # <<>>
      <4>1. Head(local) \in Event /\ Tail(local) \in Seq(Event)
        BY <3>1, TakeFacts DEF ClientTypes
      <4>2. Append(inbox, Head(local)) \in Seq(Event)
        BY <4>1, AppendFacts DEF ClientTypes
      <4> QED
        BY <1>5, <3>1, <4>1, <4>2 DEF Poll, ChannelTypes
    <3>2. CASE local = <<>>
      <4>1. events # <<>>
        BY <1>5, <3>2 DEF Poll
      <4>2. Head(events) \in Event /\ Tail(events) \in Seq(Event)
        BY <4>1, TakeFacts DEF ChannelTypes
      <4>3. Append(inbox, Head(events)) \in Seq(Event)
        BY <4>2, AppendFacts DEF ClientTypes
      <4> QED
        BY <1>5, <3>2, <4>2, <4>3 DEF Poll, ClientTypes
    <3> QED
      BY <3>1, <3>2
  <2>2. ended' \in BOOLEAN
    BY <1>5 DEF Poll, ClientTypes
  <2> QED
    BY <1>5, <2>1, <2>2 DEF Poll, ClientTypes, ChannelTypes
<1>6. CASE ReceiveInitialized
  <2>1. inbox' \in Seq(Event)
    BY <1>6, TakingTypes DEF ReceiveInitialized
  <2>2. notices' \in Seq(Notice)
    <3>1. Tell("Handshaken", link) \in Notice
      BY MessageTypes DEF ClientTypes, ControlTypes
    <3> QED
      BY <1>6, <3>1, ToldTypes DEF ReceiveInitialized, ChannelTypes
  <2> QED
    BY <1>6, <2>1, <2>2, StatusTypes DEF ReceiveInitialized, Returned, ClientTypes, ChannelTypes
<1>7. CASE ReceiveRefused
  <2>1. inbox' \in Seq(Event)
    BY <1>7, TakingTypes DEF ReceiveRefused
  <2>2. /\ notices' \in Seq(Notice) /\ clientGen' \in Generation
        /\ status' \in StatusValues /\ conn' = "Stopped"
    BY <1>7, HaltTypes DEF ReceiveRefused, Reasons, ClientTypes
  <2> QED
    BY <1>7, <2>1, <2>2 DEF ReceiveRefused, Returned, ClientTypes, ChannelTypes
<1>8. CASE ReceiveStale
  BY <1>8, TakingTypes DEF ReceiveStale, Ignored, ClientTypes, ChannelTypes, channelVars
<1>9. CASE ReceiveLost
  <2> DEFINE e == Head(inbox)
  <2>1. inbox' \in Seq(Event) /\ e.gen \in Generation /\ e.arg \in Reasons
    BY <1>9, TakingTypes DEF ReceiveLost
  <2>2. CASE Ignored
    BY <2>1, <2>2 DEF Ignored, ClientTypes, ChannelTypes, channelVars
  <2>3. CASE ~Ignored
    <3>1. PICK aged \in BOOLEAN :
            /\ losses' = Decide(e.arg, aged).losses
            /\ \/ /\ clientGen' = e.gen
                  /\ conn' = "Reconnecting"
                  /\ attempt' = attempt + 1
                  /\ Told(Tell("Reconnect", e.gen))
                  /\ status' = Restarting(attempt + 1)
               \/ /\ Halt(e.gen, Decide(e.arg, aged).why)
                  /\ UNCHANGED attempt
      BY <1>9, <2>3 DEF ReceiveLost
    <3>2. Decide(e.arg, aged).losses \in Nat /\ Decide(e.arg, aged).why \in Reasons
      BY <2>1, DecideTypes
    <3>3. /\ notices' \in Seq(Notice) /\ clientGen' \in Generation /\ status' \in StatusValues
          /\ conn' \in {"Reconnecting", "Stopped"} /\ attempt' \in Nat
      <4>1. Tell("Reconnect", e.gen) \in Notice
        BY <2>1, MessageTypes DEF ControlTypes
      <4> QED
        BY <2>1, <3>1, <3>2, <4>1, HaltTypes, ToldTypes, StatusTypes DEF ClientTypes
    <3> QED
      BY <1>9, <2>1, <2>3, <3>1, <3>2, <3>3 DEF ReceiveLost, Returned, ClientTypes, ChannelTypes
  <2> QED
    BY <2>2, <2>3
<1>10. CASE ReceiveAttempting
  <2> DEFINE e == Head(inbox)
  <2>1. inbox' \in Seq(Event) /\ e.gen \in Generation
    BY <1>10, TakingTypes DEF ReceiveAttempting
  <2>2. CASE Ignored
    BY <2>1, <2>2 DEF Ignored, ClientTypes, ChannelTypes, channelVars
  <2>3. CASE ~Ignored
    <3>1. PICK aged \in BOOLEAN :
            /\ losses' = Admit(aged).losses
            /\ \/ /\ attempt' = attempt + 1
                  /\ status' = Restarting(attempt + 1)
                  /\ UNCHANGED <<conn, clientGen, notices>>
               \/ /\ Halt(e.gen, "GaveUp")
                  /\ UNCHANGED attempt
      BY <1>10, <2>3 DEF ReceiveAttempting
    <3>2. Admit(aged).losses \in Nat
      BY AdmitTypes
    <3>3. /\ notices' \in Seq(Notice) /\ clientGen' \in Generation /\ status' \in StatusValues
          /\ conn' \in {conn, "Stopped"} /\ attempt' \in Nat
      BY <2>1, <3>1, HaltTypes, StatusTypes DEF ClientTypes, ChannelTypes, Reasons
    <3> QED
      BY <1>10, <2>1, <2>3, <3>1, <3>2, <3>3
      DEF ReceiveAttempting, Returned, ClientTypes, ChannelTypes
  <2> QED
    BY <2>2, <2>3
<1>11. CASE ReceiveReconnected
  <2>1. inbox' \in Seq(Event) /\ Head(inbox).gen \in Generation
    BY <1>11, TakingTypes DEF ReceiveReconnected
  <2>2. CASE Ignored
    BY <2>1, <2>2 DEF Ignored, ClientTypes, ChannelTypes, channelVars
  <2>3. CASE ~Ignored
    BY <1>11, <2>1, <2>3 DEF ReceiveReconnected, ClientTypes, ChannelTypes, Wire
  <2> QED
    BY <2>2, <2>3
<1>12. CASE ReceiveStopped
  <2>1. inbox' \in Seq(Event) /\ Head(inbox).arg \in Reasons
    BY <1>12, TakingTypes DEF ReceiveStopped
  <2>2. CASE Ignored
    BY <2>1, <2>2 DEF Ignored, ClientTypes, ChannelTypes, channelVars
  <2>3. CASE ~Ignored
    BY <1>12, <2>1, <2>3, StatusTypes
    DEF ReceiveStopped, Returned, ClientTypes, ChannelTypes, channelVars, ShutKinds
  <2> QED
    BY <2>2, <2>3
<1>13. CASE ReceiveStatus
  BY <1>13, TakingTypes, StatusTypes DEF ReceiveStatus, ClientTypes, ChannelTypes, channelVars
<1> QED
  BY <1>1, <1>2, <1>3, <1>4, <1>5, <1>6, <1>7, <1>8, <1>9, <1>10, <1>11, <1>12, <1>13
  DEF ClientNext, Receive

\* What a client step puts into the worker's inbox, if anything: a restart names the
\* generation it moves the client to, and whatever else it decides is not ahead of it.
Fits(n) ==
  /\ n.type = "Restart" => n.gen = clientGen + 1 /\ clientGen' = n.gen
  /\ n.type = "Reconnect" => n.gen <= clientGen'
  /\ n.type = "Stop" => n.gen < clientGen'

\* A client step tells at most one thing, and never takes its generation back.
LEMMA ClientTells ==
  ASSUME ChannelTypes, ClientTypes, ClientNext
  PROVE  /\ clientGen' >= clientGen
         /\ \/ notices' = notices
            \/ \E n \in Notice : notices' = Append(notices, n) /\ Fits(n)
<1>0. clientGen \in Nat /\ link \in Nat
  BY DEF ClientTypes, Generation
<1>1. CASE RestartCall
  <2>1. Tell("Restart", clientGen + 1) \in Notice
    BY <1>0, MessageTypes DEF Generation, ControlTypes
  <2>2. Fits(Tell("Restart", clientGen + 1))
    BY <1>1 DEF RestartCall, Fits, Tell
  <2> QED
    BY <1>0, <1>1, <2>1, <2>2 DEF RestartCall, Told
<1>2. CASE RestartReturn \/ Poll \/ ReceiveStale \/ ReceiveReconnected \/ ReceiveStopped
              \/ ReceiveStatus
  <2>1. notices' = notices
    BY <1>2 DEF RestartReturn, Poll, ReceiveStale, ReceiveReconnected, ReceiveStopped,
                ReceiveStatus, Ignored, channelVars
  <2>2. CASE ReceiveReconnected
    <3>1. Head(inbox).gen \in Nat
      BY <2>2, TakingTypes DEF ReceiveReconnected, Generation
    <3> QED
      BY <1>0, <2>1, <2>2, <3>1 DEF ReceiveReconnected, Ignored
  <2>3. CASE ~ReceiveReconnected
    BY <1>0, <1>2, <2>1, <2>3
    DEF RestartReturn, Poll, ReceiveStale, ReceiveStopped, ReceiveStatus, Ignored
  <2> QED
    BY <2>2, <2>3
<1>3. CASE ShutdownCall \/ DropClient
  <2>1. clientGen' = clientGen /\ Farewell
    BY <1>3 DEF ShutdownCall, DropClient
  <2>2. \A g \in Generation, done \in BOOLEAN :
          Goodbye(g, done) \in Notice /\ Fits(Goodbye(g, done))
    BY MessageTypes DEF Fits, Goodbye
  <2>3. \/ notices' = notices
        \/ notices' = Append(notices, Goodbye(link, Handshake))
        \/ notices' = Append(notices, Goodbye(clientGen, FALSE))
    BY <2>1 DEF Farewell, Told
  <2>4. Handshake \in BOOLEAN
    BY DEF Handshake
  <2>5. /\ Goodbye(link, Handshake) \in Notice /\ Fits(Goodbye(link, Handshake))
        /\ Goodbye(clientGen, FALSE) \in Notice /\ Fits(Goodbye(clientGen, FALSE))
    BY <1>0, <2>2, <2>4 DEF Generation
  <2>6. clientGen' >= clientGen
    BY <1>0, <2>1
  <2> QED
    BY <2>3, <2>5, <2>6
<1>4. CASE ReceiveInitialized
  <2>1. Tell("Handshaken", link) \in Notice /\ Fits(Tell("Handshaken", link))
    BY <1>0, MessageTypes DEF Fits, Tell, Generation, ControlTypes
  <2> QED
    BY <1>0, <1>4, <2>1 DEF ReceiveInitialized, Told
<1>5. ASSUME NEW g \in Nat, NEW why, Halt(g, why), g >= clientGen
      PROVE  /\ clientGen' >= clientGen
             /\ \E n \in Notice : notices' = Append(notices, n) /\ Fits(n)
  <2>1. Tell("Stop", g) \in Notice
    BY MessageTypes DEF Generation, ControlTypes
  <2>2. Fits(Tell("Stop", g))
    BY <1>5 DEF Fits, Tell, Halt
  <2> QED
    BY <1>0, <1>5, <2>1, <2>2 DEF Halt, Told
<1>6. CASE ReceiveRefused
  BY <1>0, <1>5, <1>6 DEF ReceiveRefused
<1>7. CASE ReceiveLost
  <2>1. Head(inbox).gen \in Nat
    BY <1>7, TakingTypes DEF ReceiveLost, Generation
  <2>2. CASE Ignored
    BY <1>0, <2>2 DEF Ignored, channelVars
  <2>3. CASE ~Ignored
    <3>1. Head(inbox).gen > clientGen
      BY <1>0, <1>7, <2>1, <2>3 DEF ReceiveLost, LossMoot
    <3>2. PICK why :
            \/ clientGen' = Head(inbox).gen /\ Told(Tell("Reconnect", Head(inbox).gen))
            \/ Halt(Head(inbox).gen, why)
      BY <1>7, <2>3 DEF ReceiveLost
    <3>3. Tell("Reconnect", Head(inbox).gen) \in Notice
      BY <2>1, MessageTypes DEF Generation, ControlTypes
    <3>4. CASE Halt(Head(inbox).gen, why)
      BY <1>0, <1>5, <2>1, <3>1, <3>4
    <3>5. CASE clientGen' = Head(inbox).gen /\ Told(Tell("Reconnect", Head(inbox).gen))
      <4>1. Fits(Tell("Reconnect", Head(inbox).gen))
        BY <2>1, <3>5 DEF Fits, Tell
      <4> QED
        BY <1>0, <2>1, <3>1, <3>3, <3>5, <4>1 DEF Told
    <3> QED
      BY <3>2, <3>4, <3>5
  <2> QED
    BY <2>2, <2>3
<1>8. CASE ReceiveAttempting
  <2>1. CASE Ignored
    BY <1>0, <2>1 DEF Ignored, channelVars
  <2>2. CASE ~Ignored
    <3>1. Head(inbox).gen = clientGen
      BY <1>8, <2>2 DEF ReceiveAttempting
    <3>2. \/ UNCHANGED <<clientGen, notices>>
          \/ Halt(clientGen, "GaveUp")
      BY <1>8, <2>2, <3>1 DEF ReceiveAttempting
    <3> QED
      BY <1>0, <1>5, <3>2
  <2> QED
    BY <2>1, <2>2
<1> QED
  BY <1>1, <1>2, <1>3, <1>4, <1>6, <1>7, <1>8 DEF ClientNext, Receive

\* What the queues carry after one more message, and after the head was taken.
LEMMA CarriedMore ==
  ASSUME NEW S, NEW s \in Seq(S), NEW e \in S
  PROVE  /\ Carried(s) \subseteq S
         /\ \A x : x \in Carried(Append(s, e)) <=> x \in Carried(s) \/ x = e
<1>1. /\ Len(s) \in Nat /\ Len(Append(s, e)) = Len(s) + 1
      /\ \A i \in 1..Len(s) : Append(s, e)[i] = s[i]
      /\ Append(s, e)[Len(s) + 1] = e
  BY AppendFacts
<1>2. Carried(s) \subseteq S
  BY DEF Carried
<1>3. \A i \in 1..(Len(s) + 1) : i \in 1..Len(s) \/ i = Len(s) + 1
  BY <1>1
<1>4. 1..Len(s) \subseteq 1..(Len(s) + 1) /\ Len(s) + 1 \in 1..(Len(s) + 1)
  BY <1>1
<1>5. ASSUME NEW x, x \in Carried(Append(s, e)) PROVE x \in Carried(s) \/ x = e
  <2>1. PICK i \in 1..(Len(s) + 1) : x = Append(s, e)[i]
    BY <1>1, <1>5 DEF Carried
  <2> QED
    BY <1>1, <1>3, <2>1 DEF Carried
<1>6. ASSUME NEW x, x \in Carried(s) \/ x = e PROVE x \in Carried(Append(s, e))
  <2>1. CASE x = e
    BY <1>1, <1>4, <2>1 DEF Carried
  <2>2. CASE x \in Carried(s)
    <3>1. PICK i \in 1..Len(s) : x = s[i]
      BY <2>2 DEF Carried
    <3> QED
      BY <1>1, <1>4, <3>1 DEF Carried
  <2> QED
    BY <1>6, <2>1, <2>2
<1> QED
  BY <1>2, <1>5, <1>6

LEMMA CarriedLess ==
  ASSUME NEW S, NEW s \in Seq(S), s # <<>>
  PROVE  \A x : x \in Carried(s) <=> x \in Carried(Tail(s)) \/ x = Head(s)
<1>1. /\ Head(s) = s[1] /\ Len(s) \in Nat \ {0} /\ Len(Tail(s)) = Len(s) - 1
      /\ \A i \in 1..Len(Tail(s)) : Tail(s)[i] = s[i + 1]
  BY TakeFacts
<1>2. 1 \in 1..Len(s) /\ \A i \in 1..(Len(s) - 1) : i + 1 \in 1..Len(s)
  BY <1>1
<1>3. \A i \in 1..Len(s) : i = 1 \/ (i - 1 \in 1..(Len(s) - 1) /\ (i - 1) + 1 = i)
  BY <1>1
<1>4. ASSUME NEW x, x \in Carried(s) PROVE x \in Carried(Tail(s)) \/ x = Head(s)
  <2>1. PICK i \in 1..Len(s) : x = s[i]
    BY <1>4 DEF Carried
  <2>2. CASE i = 1
    BY <1>1, <2>1, <2>2
  <2>3. CASE i # 1
    <3>1. i - 1 \in 1..Len(Tail(s)) /\ Tail(s)[i - 1] = x
      BY <1>1, <1>3, <2>1, <2>3
    <3> QED
      BY <3>1 DEF Carried
  <2> QED
    BY <2>2, <2>3
<1>5. ASSUME NEW x, x \in Carried(Tail(s)) \/ x = Head(s) PROVE x \in Carried(s)
  <2>1. CASE x = Head(s)
    BY <1>1, <1>2, <2>1 DEF Carried
  <2>2. CASE x \in Carried(Tail(s))
    <3>1. PICK i \in 1..Len(Tail(s)) : x = Tail(s)[i]
      BY <2>2 DEF Carried
    <3> QED
      BY <1>1, <1>2, <3>1 DEF Carried
  <2> QED
    BY <1>5, <2>1, <2>2
<1> QED
  BY <1>4, <1>5

LEMMA CarriedNone == Carried(<<>>) = {}
BY DEF Carried

\* Telling adds the notice, taking removes at most the head.
LEMMA ToldCarries ==
  ASSUME ChannelTypes, ClientTypes, NEW n \in Notice, notices' = Append(notices, n)
  PROVE  \A x : x \in Carried(notices)' <=> x \in Carried(notices) \/ x = n
BY CarriedMore DEF ChannelTypes, Carried

LEMMA TakenCarries ==
  ASSUME ChannelTypes, ClientTypes, notices # <<>>, notices' = Tail(notices)
  PROVE  \A x : x \in Carried(notices) <=> x \in Carried(notices)' \/ x = Head(notices)
BY CarriedLess DEF ChannelTypes, Carried

LEMMA ReceivedLands ==
  ASSUME ChannelTypes, ClientTypes, NEW type, Taking(type), events' = events
  PROVE  /\ Head(inbox) \in InFlight /\ Head(inbox).type = type
         /\ \A x \in InFlight : x \in InFlight' \/ x = Head(inbox)
         /\ InFlight' \subseteq InFlight
<1>1. \A x : x \in Carried(inbox) <=> x \in Carried(inbox)' \/ x = Head(inbox)
  BY CarriedLess DEF ClientTypes, Carried, Taking
<1>2. Carried(events)' = Carried(events)
  BY DEF Carried
<1>3. Head(inbox) \in InFlight /\ Head(inbox).type = type
  BY <1>1 DEF InFlight, Taking
<1> QED
  BY <1>1, <1>2, <1>3 DEF InFlight

\* The client's own queue into Events carries the statuses of restart() and nothing else.
OwnAreStatuses == \A e \in Carried(local) : e.type = "Status"

\* Polling moves a message from one queue to the next; the client's own are statuses.
LEMMA PolledFlies ==
  ASSUME ChannelTypes, ClientTypes, OwnAreStatuses, Poll
  PROVE  /\ InFlight \subseteq InFlight'
         /\ \A x \in InFlight' : x \in InFlight \/ x.type = "Status"
         /\ Carried(local)' \subseteq Carried(local)
         /\ Carried(local) \subseteq Carried(local)' \cup InFlight'
         /\ InFlight' \subseteq InFlight \cup Carried(local)
<1>1. CASE local # <<>>
  <2>1. /\ inbox' = Append(inbox, Head(local)) /\ local' = Tail(local) /\ events' = events
        /\ Head(local) \in Event
    BY <1>1, TakeFacts DEF Poll, ClientTypes
  <2>2. \A x : x \in Carried(local) <=> x \in Carried(local)' \/ x = Head(local)
    <3>1. Carried(local)' = Carried(Tail(local))
      BY <2>1 DEF Carried
    <3> QED
      BY <1>1, <3>1, CarriedLess DEF ClientTypes
  <2>3. \A x : x \in Carried(inbox)' <=> x \in Carried(inbox) \/ x = Head(local)
    BY <2>1, CarriedMore DEF ClientTypes, Carried
  <2>4. Carried(events)' = Carried(events)
    BY <2>1 DEF Carried
  <2>5. Head(local).type = "Status"
    BY <2>2 DEF OwnAreStatuses
  <2> QED
    BY <2>2, <2>3, <2>4, <2>5 DEF InFlight
<1>2. CASE local = <<>>
  <2>0. /\ events # <<>> /\ inbox' = Append(inbox, Head(events)) /\ events' = Tail(events)
        /\ local' = local
    BY <1>2 DEF Poll
  <2>1. Head(events) \in Event
    BY <2>0, TakeFacts DEF ChannelTypes
  <2>2. \A x : x \in Carried(events) <=> x \in Carried(events)' \/ x = Head(events)
    <3>1. Carried(events)' = Carried(Tail(events))
      BY <2>0 DEF Carried
    <3> QED
      BY <2>0, <3>1, CarriedLess DEF ChannelTypes
  <2>3. \A x : x \in Carried(inbox)' <=> x \in Carried(inbox) \/ x = Head(events)
    BY <2>0, <2>1, CarriedMore DEF ClientTypes, Carried
  <2>4. Carried(local)' = Carried(local)
    BY <2>0 DEF Carried
  <2> QED
    BY <2>2, <2>3, <2>4 DEF InFlight
<1> QED
  BY <1>1, <1>2

\* Nothing moves while neither queue does.
LEMMA FlightUnmoved ==
  /\ events' = events /\ inbox' = inbox => InFlight' = InFlight
  /\ notices' = notices => Carried(notices)' = Carried(notices)
  /\ local' = local => Carried(local)' = Carried(local)
BY DEF InFlight, Carried

\* Where a client step leaves what flies to the client: nothing new but statuses.
LEMMA ClientFlight ==
  ASSUME ChannelTypes, ClientTypes, OwnAreStatuses, ClientNext
  PROVE  /\ \A x \in InFlight' : x \in InFlight \/ x.type = "Status"
         /\ \A x \in Carried(local)' : x.type = "Status"
<1>0. \A x \in Carried(local) : x.type = "Status"
  BY DEF OwnAreStatuses
<1>1. CASE Poll
  BY <1>0, <1>1, PolledFlies
<1>2. CASE RestartReturn
  <2>1. Report("Status", 0, "none") \in Event
    BY MessageTypes DEF Generation
  <2>2. Carried(local)' = Carried(Append(local, Report("Status", 0, "none")))
    BY <1>2 DEF RestartReturn, Carried
  <2>3. \A x \in Carried(local)' : x \in Carried(local) \/ x = Report("Status", 0, "none")
    BY <2>1, <2>2, CarriedMore DEF ClientTypes
  <2> QED
    BY <1>0, <1>2, <2>3, FlightUnmoved DEF RestartReturn, channelVars, Report
<1>3. CASE RestartCall \/ ShutdownCall \/ DropClient
  <2>1. inbox' = inbox /\ events' = events /\ local' = local
    BY <1>3 DEF RestartCall, ShutdownCall, DropClient
  <2> QED
    BY <1>0, <2>1, FlightUnmoved
<1>4. CASE Receive
  <2>1. local' = local /\ events' = events
    BY <1>4 DEF Receive, ReceiveInitialized, ReceiveRefused, ReceiveStale, ReceiveLost,
                ReceiveAttempting, ReceiveReconnected, ReceiveStopped, ReceiveStatus, Ignored,
                channelVars
  <2>2. PICK type : Taking(type)
    BY <1>4 DEF Receive, ReceiveInitialized, ReceiveRefused, ReceiveStale, ReceiveLost,
                ReceiveAttempting, ReceiveReconnected, ReceiveStopped, ReceiveStatus
  <2>3. InFlight' \subseteq InFlight
    BY <2>1, <2>2, ReceivedLands
  <2> QED
    BY <1>0, <2>1, <2>3, FlightUnmoved
<1> QED
  BY <1>1, <1>2, <1>3, <1>4 DEF ClientNext

\* A goodbye that may ask for the shutdown sequence is of a server among A, those that answered
\* initialize.
TrueGoodbye(n, A) == n.type = "Shutdown" /\ n.done => n.gen \in A

\* What a client step tells the worker besides goodbyes is no goodbye.
LEMMA TellsNoGoodbye ==
  \A g, type, A :
    type \in {"Restart", "Reconnect", "Stop", "Handshaken"} => TrueGoodbye(Tell(type, g), A)
BY DEF TrueGoodbye, Tell

\* The client believes what its server told it, and says goodbye as it believes.
LEMMA ClientBelieves ==
  ASSUME ChannelTypes, ClientTypes, ClientNext, NEW A,
         \A e \in InFlight : e.type = "Message" /\ e.arg = "initialized" => e.gen \in A,
         session = "Running" => link \in A
  PROVE  /\ session' = "Running" => link' \in A
         /\ \/ notices' = notices
            \/ \E n \in Notice : notices' = Append(notices, n) /\ TrueGoodbye(n, A)
<1>0. /\ clientGen \in Generation /\ link \in Generation
      /\ session = "Running" => link \in A
      /\ \A g \in Generation :
           /\ Tell("Handshaken", g) \in Notice /\ Tell("Restart", g) \in Notice
           /\ Tell("Reconnect", g) \in Notice /\ Tell("Stop", g) \in Notice
  BY MessageTypes DEF ClientTypes, ControlTypes
<1>1. CASE RestartCall
  <2>1. Tell("Restart", clientGen + 1) \in Notice
    BY <1>0 DEF Generation
  <2> QED
    BY <1>0, <1>1, <2>1, TellsNoGoodbye DEF RestartCall, Told
<1>2. CASE ShutdownCall \/ DropClient
  <2>1. Farewell /\ link' = link /\ session' \in {session, "Disconnected"}
    BY <1>2 DEF ShutdownCall, DropClient
  <2>2. Goodbye(link, Handshake) \in Notice /\ Goodbye(clientGen, FALSE) \in Notice
    BY <1>0, MessageTypes DEF Handshake
  <2>3. TrueGoodbye(Goodbye(link, Handshake), A) /\ TrueGoodbye(Goodbye(clientGen, FALSE), A)
    BY <1>0 DEF TrueGoodbye, Goodbye, Handshake
  <2> QED
    BY <1>0, <2>1, <2>2, <2>3 DEF Farewell, Told
<1>3. CASE RestartReturn \/ Poll \/ ReceiveStale \/ ReceiveStatus \/ ReceiveReconnected
              \/ ReceiveStopped
  BY <1>0, <1>3 DEF RestartReturn, Poll, ReceiveStale, ReceiveStatus, ReceiveReconnected,
                    ReceiveStopped, Ignored, channelVars
<1>4. CASE ReceiveInitialized
  <2>1. Head(inbox) \in InFlight /\ Head(inbox).type = "Message"
    BY <1>4, ReceivedLands DEF ReceiveInitialized
  <2>2. link' = link /\ link \in A
    BY <1>4, <2>1 DEF ReceiveInitialized, ForInitialize, Holds
  <2> QED
    BY <1>0, <1>4, <2>2, TellsNoGoodbye DEF ReceiveInitialized, Told
<1>5. CASE ReceiveRefused
  BY <1>0, <1>5, TellsNoGoodbye DEF ReceiveRefused, Halt, Told
<1>6. CASE ReceiveLost
  <2>1. Head(inbox).gen \in Generation
    BY <1>6, TakingTypes DEF ReceiveLost
  <2> QED
    BY <1>0, <1>6, <2>1, TellsNoGoodbye DEF ReceiveLost, Halt, Told, Ignored, channelVars
<1>7. CASE ReceiveAttempting
  <2>1. Head(inbox).gen \in Generation
    BY <1>7, TakingTypes DEF ReceiveAttempting
  <2> QED
    BY <1>0, <1>7, <2>1, TellsNoGoodbye DEF ReceiveAttempting, Halt, Told, Ignored, channelVars
<1> QED
  BY <1>1, <1>2, <1>3, <1>4, <1>5, <1>6, <1>7 DEF ClientNext, Receive

\* Before the first handshake and the first call of restart(), the client tells its worker of no
\* server to start.
LEMMA ClientStartsNone ==
  ASSUME ChannelTypes, ClientTypes, ClientNext, ~handshaken', calls' = 0
  PROVE  /\ ~handshaken /\ calls = 0
         /\ \/ notices' = notices
            \/ \E n \in Notice : n.type \notin {"Reconnect", "Restart"} /\ notices' = Append(notices, n)
<1>0. /\ clientGen \in Generation /\ link \in Generation /\ calls \in Nat
      /\ handshaken \in BOOLEAN
  BY PolicyAssumption DEF ClientTypes
<1>1. \A g \in Generation : /\ Tell("Stop", g) \in Notice
                            /\ Tell("Stop", g).type \notin {"Reconnect", "Restart"}
  BY MessageTypes DEF ControlTypes, Tell
<1>2. CASE RestartCall
  BY <1>0, <1>2 DEF RestartCall
<1>3. CASE ShutdownCall \/ DropClient
  <2>1. Farewell /\ handshaken' = handshaken /\ calls' = calls
    BY <1>3 DEF ShutdownCall, DropClient
  <2>2. /\ Goodbye(link, Handshake) \in Notice /\ Goodbye(clientGen, FALSE) \in Notice
        /\ Goodbye(link, Handshake).type = "Shutdown" /\ Goodbye(clientGen, FALSE).type = "Shutdown"
    BY <1>0, MessageTypes DEF Handshake, Goodbye
  <2> QED
    BY <2>1, <2>2 DEF Farewell, Told
<1>4. CASE RestartReturn \/ Poll \/ ReceiveStale \/ ReceiveStatus \/ ReceiveReconnected
              \/ ReceiveStopped
  BY <1>4 DEF RestartReturn, Poll, ReceiveStale, ReceiveStatus, ReceiveReconnected,
              ReceiveStopped, Ignored, channelVars
<1>5. CASE ReceiveInitialized
  BY <1>5 DEF ReceiveInitialized
<1>6. CASE ReceiveRefused
  BY <1>0, <1>1, <1>6 DEF ReceiveRefused, Halt, Told
<1>7. CASE ReceiveLost
  <2>1. Head(inbox).gen \in Generation /\ handshaken' = handshaken /\ calls' = calls
    BY <1>7, TakingTypes DEF ReceiveLost, Ignored
  <2>2. \/ notices' = notices
        \/ \E aged, why :
             \/ Decide(Head(inbox).arg, aged).restart
             \/ Halt(Head(inbox).gen, why)
    BY <1>7 DEF ReceiveLost, Ignored, channelVars
  <2>3. \A aged : ~Decide(Head(inbox).arg, aged).restart
    BY <2>1 DEF Decide
  <2> QED
    BY <1>1, <2>1, <2>2, <2>3 DEF Halt, Told
<1>8. CASE ReceiveAttempting
  <2>1. Head(inbox).gen \in Generation
    BY <1>8, TakingTypes DEF ReceiveAttempting
  <2> QED
    BY <1>1, <1>8, <2>1 DEF ReceiveAttempting, Halt, Told, Ignored, channelVars
<1> QED
  BY <1>2, <1>3, <1>4, <1>5, <1>6, <1>7, <1>8 DEF ClientNext, Receive

----------------------------------------------------------------------------
LEMMA ClientStarts == ClientInit => ClientTypes
<1> SUFFICES ASSUME ClientInit PROVE ClientTypes
  OBVIOUS
<1> USE DEF Generation
<1>1. Starting \in StatusValues
  BY DEF Starting, Status, StatusValues
<1>2. status \in StatusValues /\ reported \in StatusValues
  BY <1>1 DEF ClientInit
<1>3. handshaken \in BOOLEAN /\ calling \in BOOLEAN /\ dropped \in BOOLEAN /\ ended \in BOOLEAN
  BY DEF ClientInit
<1>4. calls \in 0..MaxCalls
  BY PolicyAssumption DEF ClientInit
<1>5. local \in Seq(Event) /\ inbox \in Seq(Event)
  BY DEF ClientInit
<1>6. conn \in {"Live", "Reconnecting", "Stopped"} \cup ShutKinds
  BY DEF ClientInit
<1>7. link \in Generation /\ clientGen \in Generation /\ attempt \in Nat /\ losses \in Nat
  BY DEF ClientInit
<1>8. session \in {"Initializing", "Running", "Disconnected"}
  BY DEF ClientInit
<1> QED
  BY <1>2, <1>3, <1>4, <1>5, <1>6, <1>7, <1>8 DEF ClientTypes

\* What a client let go of it does not answer for.
LEMMA ClientLetsGo ==
  ASSUME LetGoBeforeReconnect, ClientNext
  PROVE  LetGoBeforeReconnect'
<1> USE DEF LetGoBeforeReconnect
<1>1. CASE UNCHANGED <<conn, session>>
  BY <1>1
<1>2. CASE RestartCall \/ ShutdownCall
  BY <1>2 DEF RestartCall, ShutdownCall
<1>3. CASE RestartReturn \/ DropClient \/ Poll \/ ReceiveStale \/ ReceiveStatus
  BY <1>1, <1>3 DEF RestartReturn, DropClient, Poll, ReceiveStale, ReceiveStatus, Ignored
<1>4. CASE ReceiveInitialized
  BY <1>4 DEF ReceiveInitialized, ForInitialize
<1>5. CASE ReceiveRefused
  BY <1>5 DEF ReceiveRefused
<1>6. CASE ReceiveLost
  <2>1. session' = "Disconnected" \/ UNCHANGED <<conn, session>>
    BY <1>6 DEF ReceiveLost, Ignored
  <2> QED
    BY <1>1, <2>1
<1>7. CASE ReceiveAttempting
  BY <1>7 DEF ReceiveAttempting, Ignored
<1>8. CASE ReceiveReconnected
  BY <1>8 DEF ReceiveReconnected, Ignored
<1>9. CASE ReceiveStopped
  BY <1>9 DEF ReceiveStopped, Ignored, ShutKinds
<1> QED
  BY <1>1, <1>2, <1>3, <1>4, <1>5, <1>6, <1>7, <1>8, <1>9
  DEF ClientNext, Receive

\* A client that is shut stays so and tells its worker nothing.
LEMMA ClientStaysShut ==
  ASSUME LetGoBeforeReconnect, ClientNext, conn \in ShutKinds
  PROVE  conn' \in ShutKinds /\ clientGen' = clientGen /\ notices' = notices
<1>0. session = "Disconnected" /\ conn \notin {"Live", "Reconnecting", "Stopped"}
  BY DEF LetGoBeforeReconnect, ShutKinds
<1>1. /\ ~RestartCall /\ ~ShutdownCall /\ ~ReceiveInitialized /\ ~ReceiveRefused
      /\ (ReceiveLost \/ ReceiveAttempting \/ ReceiveReconnected => Ignored)
  BY <1>0 DEF RestartCall, ShutdownCall, ReceiveInitialized, ReceiveRefused, ForInitialize,
              ReceiveLost, LossMoot, ReceiveAttempting, ReceiveReconnected
<1>2. CASE DropClient
  BY <1>0, <1>2 DEF DropClient, Farewell
<1>3. CASE RestartReturn \/ Poll \/ ReceiveStale \/ ReceiveStatus \/ ReceiveStopped
  BY <1>3 DEF RestartReturn, Poll, ReceiveStale, ReceiveStatus, ReceiveStopped, Ignored,
              channelVars, ShutKinds
<1>4. CASE Ignored
  BY <1>4 DEF Ignored, channelVars
<1> QED
  BY <1>1, <1>2, <1>3, <1>4 DEF ClientNext, Receive
----------------------------------------------------------------------------
\* Where a step leaves a worker at generation g: WorkerInOrder in the next state, of a generation
\* that may itself be a new one.
InOrderAfter(g, waits) ==
  /\ ToldIsReached' /\ RestartsAreNewer'
  /\ g <= clientGen' + 1 /\ (g = clientGen' + 1 => waits)
  /\ \A i \in 1..Len(notices') :
       notices'[i].type = "Restart" => g < notices'[i].gen \/ (g = notices'[i].gen /\ waits)

LEMMA InboxTypes ==
  ASSUME ChannelTypes, ClientTypes
  PROVE  /\ clientGen \in Nat /\ Len(notices) \in Nat
         /\ \A i \in 1..Len(notices) : notices[i] \in Notice /\ notices[i].gen \in Nat
<1>1. clientGen \in Nat /\ notices \in Seq(Notice)
  BY DEF ClientTypes, ChannelTypes, Generation
<1>2. Len(notices) \in Nat /\ \A i \in 1..Len(notices) : notices[i] \in Notice
  BY <1>1
<1>3. \A n \in Notice : n.gen \in Nat
  BY DEF Notice, Generation
<1> QED
  BY <1>1, <1>2, <1>3

\* No restart in the inbox of a worker in order is behind it.
LEMMA InOrderNeverBehind ==
  ASSUME ChannelTypes, ClientTypes, NEW g \in Nat, NEW w \in BOOLEAN, WorkerInOrder(g, w)
  PROVE  \A i \in 1..Len(notices) : notices[i].type = "Restart" => notices[i].gen >= g
BY InboxTypes DEF WorkerInOrder

\* A client step leaves every worker in order.
LEMMA ClientKeepsOrder ==
  ASSUME ChannelTypes, ClientTypes, ClientNext,
         NEW g \in Nat, NEW w \in BOOLEAN, WorkerInOrder(g, w)
  PROVE  InOrderAfter(g, w)
<1>0. /\ clientGen \in Nat /\ notices \in Seq(Notice) /\ Len(notices) \in Nat
      /\ \A i \in 1..Len(notices) : notices[i].gen \in Nat
  BY InboxTypes DEF ChannelTypes
<1>1. clientGen' \in Nat /\ clientGen' >= clientGen
  BY ClientTypesKept, ClientTells DEF ClientTypes, Generation
<1>2. g <= clientGen' + 1 /\ (g = clientGen' + 1 => w)
  <2> DEFINE later == clientGen'
  <2>1. later \in Nat /\ later >= clientGen
    BY <1>1
  <2> HIDE DEF later
  <2>2. g <= later + 1 /\ (g = later + 1 => g = clientGen + 1)
    BY <1>0, <2>1 DEF WorkerInOrder
  <2> QED
    BY <2>2 DEF WorkerInOrder, later
<1>3. CASE notices' = notices
  <2>1. ToldIsReached'
    BY <1>0, <1>1, <1>3 DEF WorkerInOrder, ToldIsReached
  <2>2. RestartsAreNewer'
    BY <1>3 DEF WorkerInOrder, RestartsAreNewer
  <2> QED
    BY <1>2, <1>3, <2>1, <2>2 DEF WorkerInOrder, InOrderAfter
<1>4. ASSUME NEW n \in Notice, notices' = Append(notices, n), Fits(n)
      PROVE  InOrderAfter(g, w)
  <2>1. /\ Len(notices') = Len(notices) + 1
        /\ \A i \in 1..Len(notices) : notices'[i] = notices[i]
        /\ notices'[Len(notices) + 1] = n
    BY <1>0, <1>4, AppendFacts
  <2>2. n.gen \in Nat
    BY DEF Notice, Generation
  <2>3. ToldIsReached'
    <3> SUFFICES ASSUME NEW i \in 1..Len(notices')
                 PROVE  /\ notices'[i].type \in {"Restart", "Reconnect"} => notices'[i].gen <= clientGen'
                        /\ notices'[i].type = "Stop" => notices'[i].gen < clientGen'
      BY DEF ToldIsReached
    <3>1. CASE i \in 1..Len(notices)
      BY <1>0, <1>1, <2>1, <3>1 DEF WorkerInOrder, ToldIsReached
    <3>2. CASE i = Len(notices) + 1
      BY <1>1, <1>4, <2>1, <2>2, <3>2 DEF Fits
    <3> QED
      BY <1>0, <2>1, <3>1, <3>2
  <2>4. RestartsAreNewer'
    <3> SUFFICES ASSUME NEW i \in 1..Len(notices'), NEW j \in 1..Len(notices'),
                        i < j, notices'[j].type = "Restart"
                 PROVE  /\ notices'[i].type \in {"Restart", "Reconnect"} =>
                             notices'[i].gen < notices'[j].gen
                        /\ notices'[i].type = "Stop" => notices'[i].gen + 1 < notices'[j].gen
      BY DEF RestartsAreNewer
    <3>0. i \in 1..Len(notices) /\ notices'[i] = notices[i]
      BY <1>0, <2>1
    <3>1. CASE j \in 1..Len(notices)
      BY <2>1, <3>0, <3>1 DEF WorkerInOrder, RestartsAreNewer
    <3>2. CASE j = Len(notices) + 1
      <4>1. notices'[j].gen = clientGen + 1
        BY <1>4, <2>1, <3>2 DEF Fits
      <4> QED
        BY <1>0, <3>0, <4>1 DEF WorkerInOrder, ToldIsReached
    <3> QED
      BY <1>0, <2>1, <3>1, <3>2
  <2>5. ASSUME NEW i \in 1..Len(notices'), notices'[i].type = "Restart"
        PROVE  g < notices'[i].gen \/ (g = notices'[i].gen /\ w)
    <3>1. CASE i \in 1..Len(notices)
      BY <2>1, <2>5, <3>1 DEF WorkerInOrder
    <3>2. CASE i = Len(notices) + 1
      <4>1. notices'[i].gen = clientGen + 1
        BY <1>4, <2>1, <2>5, <3>2 DEF Fits
      <4> QED
        BY <1>0, <4>1 DEF WorkerInOrder
    <3> QED
      BY <1>0, <2>1, <3>1, <3>2
  <2> QED
    BY <1>2, <2>3, <2>4, <2>5 DEF InOrderAfter
<1> QED
  BY <1>3, <1>4, ClientTells

\* What a worker has taken from its inbox, the facts about the rest no longer mention.
LEMMA RestInOrder ==
  ASSUME ChannelTypes, ClientTypes, ToldIsReached, RestartsAreNewer,
         notices # <<>>, notices' = Tail(notices), clientGen' = clientGen
  PROVE  /\ ToldIsReached' /\ RestartsAreNewer'
         /\ Head(notices) = notices[1] /\ 1 \in 1..Len(notices)
         /\ \A i \in 1..Len(notices') :
              i + 1 \in 1..Len(notices) /\ 1 < i + 1 /\ notices'[i] = notices[i + 1]
<1>1. /\ Len(notices) \in Nat \ {0}
      /\ Head(notices) = notices[1]
      /\ Len(notices') = Len(notices) - 1
      /\ \A i \in 1..Len(notices') : notices'[i] = notices[i + 1]
  BY TakeFacts DEF ChannelTypes
<1>2. /\ 1 \in 1..Len(notices)
      /\ \A i \in 1..Len(notices') : i + 1 \in 1..Len(notices) /\ 1 < i + 1
  BY <1>1
<1>3. ToldIsReached'
  BY <1>1, <1>2 DEF ToldIsReached
<1>4. RestartsAreNewer'
  <2> SUFFICES ASSUME NEW i \in 1..Len(notices'), NEW j \in 1..Len(notices'),
                      i < j, notices'[j].type = "Restart"
               PROVE  /\ notices'[i].type \in {"Restart", "Reconnect"} =>
                           notices'[i].gen < notices'[j].gen
                      /\ notices'[i].type = "Stop" => notices'[i].gen + 1 < notices'[j].gen
    BY DEF RestartsAreNewer
  <2>1. i + 1 \in 1..Len(notices) /\ j + 1 \in 1..Len(notices) /\ i + 1 < j + 1
    BY <1>1, <1>2
  <2>2. notices'[i] = notices[i + 1] /\ notices'[j] = notices[j + 1]
    BY <1>1
  <2> QED
    BY <2>1, <2>2 DEF RestartsAreNewer
<1> QED
  BY <1>1, <1>2, <1>3, <1>4

\* A worker that keeps its generation stays in order, unless it stops waiting.
LEMMA StillInOrder ==
  ASSUME ChannelTypes, ClientTypes, NEW g \in Nat, NEW w \in BOOLEAN, WorkerInOrder(g, w),
         clientGen' = clientGen, NEW v \in BOOLEAN, w => v,
         notices' = notices \/ (notices # <<>> /\ notices' = Tail(notices))
  PROVE  InOrderAfter(g, v)
<1>0. ToldIsReached /\ RestartsAreNewer /\ g <= clientGen + 1 /\ (g = clientGen + 1 => w)
  BY DEF WorkerInOrder
<1>1. CASE notices' = notices
  BY <1>0, <1>1 DEF WorkerInOrder, InOrderAfter, ToldIsReached, RestartsAreNewer
<1>2. CASE notices # <<>> /\ notices' = Tail(notices)
  <2>1. /\ ToldIsReached' /\ RestartsAreNewer'
        /\ \A i \in 1..Len(notices') : i + 1 \in 1..Len(notices) /\ notices'[i] = notices[i + 1]
    BY <1>0, <1>2, RestInOrder
  <2> QED
    BY <1>0, <2>1 DEF WorkerInOrder, InOrderAfter
<1> QED
  BY <1>1, <1>2

\* One that follows a decision of the client is in order whatever it does next: what is still in
\* the inbox is newer.
LEMMA DecisionInOrder ==
  ASSUME ChannelTypes, ClientTypes, NEW g \in Nat, NEW w \in BOOLEAN, WorkerInOrder(g, w),
         notices # <<>>, notices' = Tail(notices), clientGen' = clientGen, NEW v \in BOOLEAN
  PROVE  /\ Head(notices).gen \in Nat
         /\ Head(notices).type = "Reconnect" =>
              InOrderAfter(Head(notices).gen, v)
         /\ Head(notices).type = "Stop" =>
              InOrderAfter(Head(notices).gen + 1, v)
         /\ Head(notices).type = "Restart" =>
              /\ InOrderAfter(Head(notices).gen, v) /\ InOrderAfter(Head(notices).gen + 1, TRUE)
              /\ g < Head(notices).gen \/ (g = Head(notices).gen /\ w)
<1>0. /\ ToldIsReached' /\ RestartsAreNewer'
      /\ Head(notices) = notices[1] /\ 1 \in 1..Len(notices)
      /\ \A i \in 1..Len(notices') :
           i + 1 \in 1..Len(notices) /\ 1 < i + 1 /\ notices'[i] = notices[i + 1]
  BY RestInOrder DEF WorkerInOrder
<1>1. clientGen \in Nat /\ \A i \in 1..Len(notices) : notices[i].gen \in Nat
  BY InboxTypes
<1> DEFINE h == notices[1].gen
<1>2. h \in Nat /\ Head(notices).gen = h /\ Head(notices).type = notices[1].type
  BY <1>0, <1>1
<1> HIDE DEF h
<1>3. CASE Head(notices).type = "Reconnect"
  <2>1. h <= clientGen
    BY <1>0, <1>2, <1>3 DEF WorkerInOrder, ToldIsReached, h
  <2>2. \A i \in 1..Len(notices') : notices'[i].type = "Restart" => h < notices'[i].gen
    BY <1>0, <1>2, <1>3 DEF WorkerInOrder, RestartsAreNewer, h
  <2>3. h <= clientGen + 1 /\ h # clientGen + 1
    BY <1>1, <1>2, <2>1
  <2> QED
    BY <1>0, <1>2, <1>3, <2>2, <2>3 DEF InOrderAfter
<1>4. CASE Head(notices).type = "Stop"
  <2>1. h < clientGen
    BY <1>0, <1>2, <1>4 DEF WorkerInOrder, ToldIsReached, h
  <2>2. \A i \in 1..Len(notices') : notices'[i].type = "Restart" => h + 1 < notices'[i].gen
    BY <1>0, <1>2, <1>4 DEF WorkerInOrder, RestartsAreNewer, h
  <2>3. h + 1 <= clientGen + 1 /\ h + 1 # clientGen + 1
    BY <1>1, <1>2, <2>1
  <2> QED
    BY <1>0, <1>2, <1>4, <2>2, <2>3 DEF InOrderAfter
<1>5. CASE Head(notices).type = "Restart"
  <2>1. h <= clientGen
    BY <1>0, <1>2, <1>5 DEF WorkerInOrder, ToldIsReached, h
  <2>2. \A i \in 1..Len(notices') : notices'[i].type = "Restart" => h < notices'[i].gen
    BY <1>0, <1>2, <1>5 DEF WorkerInOrder, RestartsAreNewer, h
  <2>3. h <= clientGen + 1 /\ h # clientGen + 1 /\ h + 1 <= clientGen + 1
    BY <1>1, <1>2, <2>1
  <2>4. \A i \in 1..Len(notices') : notices'[i].gen \in Nat
    BY <1>0, <1>1
  <2>5. \A i \in 1..Len(notices') :
          notices'[i].type = "Restart" => h + 1 < notices'[i].gen \/ h + 1 = notices'[i].gen
    BY <1>2, <2>2, <2>4
  <2>6. g < h \/ (g = h /\ w)
    BY <1>0, <1>2, <1>5 DEF WorkerInOrder, h
  <2> QED
    BY <1>0, <1>2, <1>5, <2>2, <2>3, <2>5, <2>6 DEF InOrderAfter
<1> QED
  BY <1>2, <1>3, <1>4, <1>5

\* One that loses its server moves ahead of the client and waits.
LEMMA LossInOrder ==
  ASSUME ChannelTypes, ClientTypes, NEW g \in Nat, WorkerInOrder(g, FALSE),
         clientGen' = clientGen, notices' = notices
  PROVE  InOrderAfter(g + 1, TRUE)
<1>1. clientGen \in Nat /\ \A i \in 1..Len(notices) : notices[i].gen \in Nat
  BY InboxTypes
<1>2. g + 1 <= clientGen + 1
  BY <1>1 DEF WorkerInOrder
<1>3. \A i \in 1..Len(notices) :
        notices[i].type = "Restart" => g + 1 < notices[i].gen \/ g + 1 = notices[i].gen
  BY <1>1 DEF WorkerInOrder
<1> QED
  BY <1>2, <1>3 DEF WorkerInOrder, InOrderAfter, ToldIsReached, RestartsAreNewer

\* What a connection's threads tell the worker is no decision.
LEMMA ThreadsKeepOrder ==
  ASSUME ChannelTypes, ClientTypes, NEW g \in Nat, NEW w \in BOOLEAN, WorkerInOrder(g, w),
         clientGen' = clientGen, NEW n \in Notice, n.type \in ThreadTypes,
         notices' = Append(notices, n)
  PROVE  InOrderAfter(g, w)
<1>1. /\ Len(notices) \in Nat
      /\ Len(notices') = Len(notices) + 1
      /\ \A i \in 1..Len(notices) : notices'[i] = notices[i]
      /\ notices'[Len(notices) + 1] = n
  BY AppendFacts DEF ChannelTypes
<1>2. \A i \in 1..Len(notices') : notices'[i].type \in ControlTypes => i \in 1..Len(notices)
  BY <1>1 DEF ThreadTypes, ControlTypes
<1>3. ToldIsReached'
  BY <1>1, <1>2 DEF WorkerInOrder, ToldIsReached, ControlTypes
<1>4. RestartsAreNewer'
  <2> SUFFICES ASSUME NEW i \in 1..Len(notices'), NEW j \in 1..Len(notices'),
                      i < j, notices'[j].type = "Restart"
               PROVE  /\ notices'[i].type \in {"Restart", "Reconnect"} =>
                           notices'[i].gen < notices'[j].gen
                      /\ notices'[i].type = "Stop" => notices'[i].gen + 1 < notices'[j].gen
    BY DEF RestartsAreNewer
  <2>1. j \in 1..Len(notices)
    BY <1>2 DEF ControlTypes
  <2>2. i \in 1..Len(notices) /\ notices'[i] = notices[i] /\ notices'[j] = notices[j]
    BY <1>1, <2>1
  <2> QED
    BY <2>1, <2>2 DEF WorkerInOrder, RestartsAreNewer
<1>5. \A i \in 1..Len(notices') :
        notices'[i].type = "Restart" => g < notices'[i].gen \/ (g = notices'[i].gen /\ w)
  BY <1>1, <1>2 DEF WorkerInOrder, ControlTypes
<1> QED
  BY <1>3, <1>4, <1>5 DEF WorkerInOrder, InOrderAfter
----------------------------------------------------------------------------
\* A client and a worker in step stay so. A worker is any: it is known by what WorkerSeen says of it,
\* and what either side does only by what changes between them.

ClientViews ==
  [conn : {"Live", "Reconnecting", "Stopped", "ShutLinked", "Shut"}, gen : Nat, link : Nat,
   status : StatusValues, dropped : BOOLEAN, told : SUBSET Notice, due : SUBSET Event]

WorkerViews == [gen : Nat, part : Parts, newest : Nat \cup {-1}, alone : BOOLEAN]

\* WorkerInOrder, of what is seen of a worker.
InOrderSeen(c, w) ==
  /\ w.gen <= c.gen + 1 /\ (w.gen = c.gen + 1 => w.part \in {"Waiting", "Gone"})
  /\ \A n \in c.told :
       n.type = "Restart" =>
         /\ n.gen <= c.gen
         /\ w.gen < n.gen \/ (w.gen = n.gen /\ w.part \in {"Waiting", "Gone"})

\* What the client may receive without consequence for what it waits for.
Trifling(c, e) ==
  \/ e.type \in {"Message", "Status", "Attempting"}
  \/ e.type = "Lost" /\ (c.conn \in ShutKinds \/ e.gen <= c.gen)
  \/ e.type = "Reconnected" /\ (c.conn # "Reconnecting" \/ e.gen < c.gen)
  \/ e.type = "Stopped" /\ ~Engaged(c) /\ c.status.kind = "Stopped"

\* What the worker acts on for the client.
Weighty == {"Restart", "Reconnect", "Stop", "Shutdown"}

\* What views hold is of the kinds their fields say.
LEMMA ViewTypes ==
  /\ \A c \in ClientViews :
       /\ c.conn \in {"Live", "Reconnecting", "Stopped", "ShutLinked", "Shut"}
       /\ c.gen \in Nat /\ c.link \in Nat /\ c.dropped \in BOOLEAN
       /\ \A n \in c.told : n \in Notice /\ n.gen \in Nat
       /\ \A e \in c.due : e \in Event /\ e.gen \in Nat
  /\ \A w \in WorkerViews :
       w.gen \in Nat /\ w.part \in Parts /\ w.newest \in Nat \cup {-1} /\ w.alone \in BOOLEAN
BY DEF ClientViews, WorkerViews, Notice, Event, Generation

\* Neither half moves on, and what is added or taken between them moves neither.
LEMMA NothingWeighty ==
  ASSUME NEW c \in ClientViews, NEW d \in ClientViews, NEW w \in WorkerViews, InStep(c, w),
         d.conn = c.conn, d.gen = c.gen, d.dropped = c.dropped,
         c.conn \in ShutKinds \cup {"Stopped"} => d.status = c.status,
         \A x \in d.due : x \in c.due \/ x.type \in {"Message", "Status"},
         \A x \in c.due : x \in d.due \/ Trifling(c, x),
         \A x \in d.told : x \in c.told \/ x.type \notin Weighty,
         \A x \in c.told : x \in d.told \/ x.type \notin Weighty
  PROVE  InStep(d, w)
<1>0. /\ NewsIsOld(c, w) /\ AloneForGood(c, w) /\ GoesUnasked(c, w)
      /\ HeardAndDone(c, w) /\ UnheardAndDue(c, w) /\ GoodbyeHeeded(c, w)
      /\ c.gen \in Nat /\ w.gen \in Nat
  BY ViewTypes DEF InStep
<1>1. Engaged(d) <=> Engaged(c)
  BY DEF Engaged
<1>2. Asks(d) = Asks(c)
  <2>1. \A x : x \in Asks(d) <=> x \in Asks(c)
    BY DEF Asks, Weighty
  <2> QED
    BY <2>1
<1>3. NewsIsOld(d, w)
  BY <1>0 DEF NewsIsOld
<1>4. AloneForGood(d, w)
  BY <1>0 DEF AloneForGood, Weighty
<1>5. GoesUnasked(d, w)
  <2>1. SUFFICES ASSUME Engaged(c) PROVE GoesUnasked(d, w)
    BY <1>1 DEF GoesUnasked
  <2>2. \A x \in c.due : x.type = "Stopped" => x \in d.due
    BY <2>1 DEF Trifling
  <2> QED
    BY <1>0, <2>1, <2>2 DEF GoesUnasked, Weighty
<1>6. Engaged(c) /\ LossIsDue(c, w) => LossIsDue(d, w)
  <2>1. SUFFICES ASSUME Engaged(c), LossIsDue(c, w) PROVE LossIsDue(d, w)
    OBVIOUS
  <2>2. PICK e \in c.due : e.type = "Lost" /\ e.gen = c.gen + 1
    BY <2>1 DEF LossIsDue
  <2>3. ~Trifling(c, e)
    BY <1>0, <2>1, <2>2 DEF Trifling, Engaged
  <2> QED
    BY <2>1, <2>2, <2>3 DEF LossIsDue
<1>7. ASSUME c.conn = "Reconnecting", NEW e \in c.due, e.type = "Reconnected", e.gen = c.gen
      PROVE  e \in d.due
  BY <1>0, <1>7 DEF Trifling
<1>8. HeardAndDone(d, w)
  BY <1>0, <1>1, <1>2, <1>6, <1>7 DEF HeardAndDone
<1>9. UnheardAndDue(d, w)
  BY <1>0, <1>1, <1>2 DEF UnheardAndDue
<1>10. GoodbyeHeeded(d, w)
  <2>1. \A e \in c.due : e.type = "Stopped" => e \in d.due \/ c.status.kind = "Stopped"
    BY DEF Trifling
  <2> QED
    BY <1>0, <2>1 DEF GoodbyeHeeded, Weighty
<1> QED
  BY <1>3, <1>4, <1>5, <1>8, <1>9, <1>10 DEF InStep

\* The client decides: the worker is where the decision will move it.
LEMMA Asked ==
  ASSUME NEW c \in ClientViews, NEW d \in ClientViews, NEW w \in WorkerViews, InStep(c, w),
         Engaged(c), d.dropped = c.dropped, d.due \subseteq c.due,
         \A x \in c.due : x.type = "Stopped" => x \in d.due,
         NEW n \in Notice, \A x : x \in d.told <=> x \in c.told \/ x = n,
         n.type # "Restart" => Asks(c) = {},
         \/ n = Tell("Restart", d.gen) /\ d.conn = "Reconnecting" /\ ~w.alone
         \/ /\ n = Tell("Reconnect", d.gen) /\ d.conn = "Reconnecting" /\ ~w.alone
            /\ w.part = "Waiting" /\ w.gen = d.gen
         \/ /\ n = Tell("Stop", d.gen - 1) /\ d.conn = "Stopped"
            /\ w.alone => d.status = StoppedBy("Initialize")
            /\ \/ w.part = "Gone"
               \/ w.gen = d.gen - 1 /\ w.part \in {"Serving", "Trying", "Waiting"}
               \/ w.gen = d.gen /\ w.part = "Waiting"
  PROVE  InStep(d, w)
<1>0. /\ NewsIsOld(c, w) /\ AloneForGood(c, w) /\ GoesUnasked(c, w)
      /\ d.gen \in Nat /\ w.gen \in Nat
  BY ViewTypes DEF InStep
<1>1. /\ n.type \in {"Restart", "Reconnect", "Stop"} /\ d.conn \in {"Reconnecting", "Stopped"}
      /\ n.type \in {"Restart", "Reconnect"} => ~w.alone
  BY DEF Tell
<1>2. Engaged(d)
  BY <1>1 DEF Engaged, ShutKinds
<1>3. \A x : x \in Asks(d) <=> x \in Asks(c) \/ x = n
  BY <1>1 DEF Asks
<1>4. NewsIsOld(d, w)
  BY <1>0 DEF NewsIsOld
<1>5. AloneForGood(d, w)
  <2>1. SUFFICES ASSUME w.alone PROVE AloneForGood(d, w)
    BY DEF AloneForGood
  <2>2. d.conn = "Stopped" /\ d.status = StoppedBy("Initialize") /\ n.type = "Stop"
    BY <2>1 DEF Tell
  <2> QED
    BY <1>0, <2>1, <2>2 DEF AloneForGood
<1>6. GoesUnasked(d, w)
  BY <1>0, <1>1 DEF GoesUnasked
<1>7. HeardAndDone(d, w)
  BY <1>3 DEF HeardAndDone
<1>8. UnheardAndDue(d, w)
  <2>1. n \in Asks(d) /\ (n.type # "Restart" => Asks(d) = {n})
    BY <1>3
  <2>2. \A g : Tell("Reconnect", g).type # "Restart" /\ Tell("Stop", g).type # "Restart"
    BY DEF Tell
  <2>3. CASE n = Tell("Restart", d.gen) /\ d.conn = "Reconnecting"
    BY <2>1, <2>3 DEF UnheardAndDue
  <2>4. CASE /\ n = Tell("Reconnect", d.gen) /\ d.conn = "Reconnecting"
             /\ w.part = "Waiting" /\ w.gen = d.gen
    BY <2>1, <2>2, <2>4 DEF UnheardAndDue
  <2>5. CASE /\ n = Tell("Stop", d.gen - 1) /\ d.conn = "Stopped"
             /\ \/ w.part = "Gone"
                \/ w.gen = d.gen - 1 /\ w.part \in {"Serving", "Trying", "Waiting"}
                \/ w.gen = d.gen /\ w.part = "Waiting"
    <3>1. Asks(d) = {Tell("Stop", d.gen - 1)}
      BY <2>1, <2>2, <2>5
    <3> QED
      BY <2>5, <3>1 DEF UnheardAndDue
  <2> QED
    BY <2>3, <2>4, <2>5
<1>9. GoodbyeHeeded(d, w)
  BY <1>1 DEF GoodbyeHeeded, ShutKinds
<1> QED
  BY <1>4, <1>5, <1>6, <1>7, <1>8, <1>9 DEF InStep

\* A loss the client has yet to hear of leaves the worker waiting, with nothing decided.
LEMMA LossIsNews ==
  ASSUME NEW c \in ClientViews, NEW w \in WorkerViews, InStep(c, w), InOrderSeen(c, w), Engaged(c),
         NEW e \in c.due, e.type = "Lost", e.gen > c.gen
  PROVE  /\ e.gen = c.gen + 1 /\ w.gen = e.gen /\ w.part = "Waiting" /\ ~w.alone
         /\ Asks(c) = {}
<1>0. c.gen \in Nat /\ w.gen \in Nat /\ e.gen \in Nat
  BY ViewTypes
<1>1. e.gen <= w.gen /\ w.gen <= c.gen + 1 /\ (w.gen = c.gen + 1 => w.part \in {"Waiting", "Gone"})
  BY DEF InStep, NewsIsOld, InOrderSeen
<1>2. ~w.alone
  BY DEF InStep, AloneForGood
<1>3. w.part # "Gone"
  BY <1>2 DEF InStep, GoesUnasked
<1>4. e.gen = c.gen + 1 /\ w.gen = e.gen
  BY <1>0, <1>1
<1>5. w.part = "Waiting"
  BY <1>1, <1>3, <1>4
<1>6. \A n \in c.told : n.type = "Restart" => n.gen # c.gen
  BY <1>0, <1>4 DEF InOrderSeen
<1>7. Tell("Restart", c.gen) \notin Asks(c)
  BY <1>6 DEF Asks, Tell
<1>8. w.gen # c.gen /\ w.gen # c.gen - 1
  BY <1>0, <1>4
<1>9. Asks(c) = {}
  BY <1>3, <1>7, <1>8 DEF InStep, UnheardAndDue
<1> QED
  BY <1>2, <1>4, <1>5, <1>9

\* A failed attempt the client still counts was the worker's last word, with nothing decided.
LEMMA AttemptIsNews ==
  ASSUME NEW c \in ClientViews, NEW w \in WorkerViews, InStep(c, w), InOrderSeen(c, w), Engaged(c),
         c.conn = "Reconnecting", NEW e \in c.due, e.type = "Attempting", e.gen = c.gen
  PROVE  /\ Asks(c) = {} /\ ~w.alone
         /\ \/ w.gen = c.gen /\ w.part \in {"Serving", "Trying"}
            \/ w.gen = c.gen + 1 /\ w.part = "Waiting"
<1>0. c.gen \in Nat /\ w.gen \in Nat /\ e.gen \in Nat
  BY ViewTypes
<1>1. e.gen <= w.gen /\ (w.part = "Waiting" => e.gen < w.gen) /\ ~w.alone /\ w.part # "Gone"
  BY DEF InStep, NewsIsOld, AloneForGood, GoesUnasked
<1>2. \A n \in c.told : n.type = "Restart" => n.gen # c.gen
  BY <1>0, <1>1 DEF InOrderSeen
<1>3. Tell("Restart", c.gen) \notin Asks(c)
  BY <1>2 DEF Asks, Tell
<1>4. ~(w.part = "Waiting" /\ w.gen = c.gen)
  BY <1>0, <1>1
<1>5. Asks(c) = {}
  BY <1>3, <1>4 DEF InStep, UnheardAndDue
<1> QED
  BY <1>1, <1>5 DEF InStep, HeardAndDone, LossIsDue

\* A connection the client takes is of its own generation, with nothing decided.
LEMMA ConnectionIsNews ==
  ASSUME NEW c \in ClientViews, NEW w \in WorkerViews, InStep(c, w), InOrderSeen(c, w), Engaged(c),
         c.conn = "Reconnecting", NEW e \in c.due, e.type = "Reconnected", e.gen >= c.gen
  PROVE  /\ Asks(c) = {} /\ e.gen = c.gen /\ ~w.alone
         /\ LossIsDue(c, w) \/ (w.part = "Serving" /\ w.gen = c.gen)
<1>0. c.gen \in Nat /\ w.gen \in Nat /\ w.newest \in Nat \cup {-1} /\ e.gen \in Nat
  BY ViewTypes
<1>1. /\ e.gen <= w.newest /\ w.newest <= w.gen
      /\ (w.part \in {"Waiting", "Trying"} => w.newest < w.gen) /\ ~w.alone /\ w.part # "Gone"
  BY DEF InStep, NewsIsOld, AloneForGood, GoesUnasked
<1>2. c.gen <= w.gen /\ (w.part \in {"Waiting", "Trying"} => c.gen < w.gen)
  BY <1>0, <1>1
<1>3. \A n \in c.told : n.type = "Restart" => n.gen # c.gen
  <2>1. ASSUME NEW n \in c.told, n.type = "Restart", n.gen = c.gen PROVE FALSE
    <3>1. w.gen < c.gen \/ (w.gen = c.gen /\ w.part \in {"Waiting", "Gone"})
      BY <2>1 DEF InOrderSeen
    <3> QED
      BY <1>0, <1>1, <1>2, <3>1
  <2> QED
    BY <2>1
<1>4. Tell("Restart", c.gen) \notin Asks(c)
  BY <1>3 DEF Asks, Tell
<1>5. ~(w.part \in {"Waiting", "Trying"} /\ w.gen = c.gen)
  BY <1>0, <1>2
<1>6. Asks(c) = {}
  BY <1>4, <1>5 DEF InStep, UnheardAndDue
<1>7. LossIsDue(c, w) \/ (w.part = "Serving" /\ w.gen = c.gen)
  BY <1>1, <1>5, <1>6 DEF InStep, HeardAndDone
<1>8. e.gen = c.gen
  <2>1. CASE LossIsDue(c, w)
    <3>1. w.gen = c.gen + 1 /\ w.newest < w.gen
      BY <1>1, <2>1 DEF LossIsDue
    <3> QED
      BY <1>0, <1>1, <3>1
  <2>2. CASE w.gen = c.gen
    BY <1>0, <1>1, <2>2
  <2> QED
    BY <1>7, <2>1, <2>2
<1> QED
  BY <1>1, <1>6, <1>7, <1>8

\* A refused connection was live, and so nothing is decided.
LEMMA LiveIsUnasked ==
  ASSUME NEW c \in ClientViews, NEW w \in WorkerViews, InStep(c, w), Engaged(c), c.conn = "Live"
  PROVE  /\ Asks(c) = {}
         /\ \/ w.part = "Gone"
            \/ w.gen = c.gen /\ w.part = "Serving"
            \/ w.gen = c.gen + 1 /\ w.part = "Waiting"
<1>1. Asks(c) = {}
  BY DEF InStep, UnheardAndDue
<1> QED
  BY <1>1 DEF InStep, HeardAndDone, LossIsDue

\* The client says goodbye: the worker is told, or there is no client to wait for it.
LEMMA SaysGoodbye ==
  ASSUME NEW c \in ClientViews, NEW d \in ClientViews, NEW w \in WorkerViews, InStep(c, w),
         d.due = c.due,
         \A x \in d.told : x \in c.told \/ x.type = "Shutdown",
         \/ d.dropped /\ d.conn = c.conn /\ d.status = c.status
         \/ d.conn \in ShutKinds /\ \E n \in d.told : n.type = "Shutdown"
  PROVE  InStep(d, w)
<1>0. NewsIsOld(c, w) /\ AloneForGood(c, w)
  BY DEF InStep
<1>1. ~Engaged(d)
  BY DEF Engaged
<1>2. NewsIsOld(d, w) /\ AloneForGood(d, w)
  BY <1>0 DEF NewsIsOld, AloneForGood, ShutKinds
<1>3. GoesUnasked(d, w) /\ HeardAndDone(d, w) /\ UnheardAndDue(d, w)
  BY <1>1 DEF GoesUnasked, HeardAndDone, UnheardAndDue
<1>4. GoodbyeHeeded(d, w)
  BY DEF GoodbyeHeeded
<1> QED
  BY <1>2, <1>3, <1>4 DEF InStep

\* The client takes the connection its worker made.
LEMMA TakesConnection ==
  ASSUME NEW c \in ClientViews, NEW d \in ClientViews, NEW w \in WorkerViews,
         InStep(c, w), InOrderSeen(c, w), Engaged(c), c.conn = "Reconnecting",
         NEW e \in c.due, e.type = "Reconnected", e.gen >= c.gen,
         d.conn = "Live", d.gen = e.gen, d.dropped = c.dropped, d.told = c.told,
         d.due \subseteq c.due, \A x \in c.due : x \in d.due \/ x = e
  PROVE  InStep(d, w)
<1>0. /\ Asks(c) = {} /\ d.gen = c.gen /\ ~w.alone
      /\ LossIsDue(c, w) \/ (w.part = "Serving" /\ w.gen = c.gen)
  BY ConnectionIsNews
<1>1. NewsIsOld(c, w) /\ GoesUnasked(c, w)
  BY DEF InStep
<1>2. Engaged(d) /\ Asks(d) = Asks(c)
  BY DEF Engaged, Asks, ShutKinds
<1>3. NewsIsOld(d, w) /\ AloneForGood(d, w) /\ UnheardAndDue(d, w) /\ GoodbyeHeeded(d, w)
  BY <1>0, <1>1, <1>2 DEF NewsIsOld, AloneForGood, UnheardAndDue, GoodbyeHeeded, ShutKinds
<1>4. GoesUnasked(d, w)
  BY <1>0, <1>1 DEF GoesUnasked
<1>5. LossIsDue(c, w) => LossIsDue(d, w)
  BY <1>0 DEF LossIsDue
<1>6. HeardAndDone(d, w)
  BY <1>0, <1>5 DEF HeardAndDone
<1> QED
  BY <1>3, <1>4, <1>6 DEF InStep

\* The client hears that its worker is gone.
LEMMA HearsOfTheEnd ==
  ASSUME NEW c \in ClientViews, NEW d \in ClientViews, NEW w \in WorkerViews, InStep(c, w),
         ~c.dropped, NEW e \in c.due, e.type = "Stopped",
         d.conn \in ShutKinds, d.status.kind = "Stopped", d.told = c.told, d.due \subseteq c.due
  PROVE  InStep(d, w)
<1>0. NewsIsOld(c, w) /\ AloneForGood(c, w)
  BY DEF InStep
<1>1. w.part = "Gone"
  BY <1>0 DEF NewsIsOld
<1>2. ~Engaged(d)
  BY DEF Engaged
<1>3. NewsIsOld(d, w) /\ AloneForGood(d, w)
  BY <1>0 DEF NewsIsOld, AloneForGood, ShutKinds
<1>4. GoesUnasked(d, w) /\ HeardAndDone(d, w) /\ UnheardAndDue(d, w) /\ GoodbyeHeeded(d, w)
  BY <1>1, <1>2 DEF GoesUnasked, HeardAndDone, UnheardAndDue, GoodbyeHeeded
<1> QED
  BY <1>3, <1>4 DEF InStep

\* What is seen of the client is of these kinds, now and after a step, and moves as it moves.
LEMMA SeenTypes ==
  ASSUME ChannelTypes, ClientTypes
  PROVE  ClientSeen \in ClientViews
<1>1. notices \in Seq(Notice) /\ events \in Seq(Event) /\ inbox \in Seq(Event)
  BY DEF ChannelTypes, ClientTypes
<1>2. Carried(notices) \in SUBSET Notice /\ InFlight \in SUBSET Event
  BY <1>1 DEF Carried, InFlight
<1>3. /\ conn \in {"Live", "Reconnecting", "Stopped", "ShutLinked", "Shut"} /\ clientGen \in Nat
      /\ link \in Nat /\ status \in StatusValues /\ dropped \in BOOLEAN
  BY DEF ClientTypes, ShutKinds, Generation
<1> QED
  BY <1>2, <1>3 DEF ClientSeen, ClientViews

\* What is seen of the client is a view of one after a step too.
LEMMA SeenTypesNext ==
  ASSUME ChannelTypes', ClientTypes'
  PROVE  ClientSeen' \in ClientViews
<1>1. notices' \in Seq(Notice) /\ events' \in Seq(Event) /\ inbox' \in Seq(Event)
  BY DEF ChannelTypes, ClientTypes
<1>2. Carried(notices)' \in SUBSET Notice /\ InFlight' \in SUBSET Event
  BY <1>1 DEF Carried, InFlight
<1>3. /\ conn' \in {"Live", "Reconnecting", "Stopped", "ShutLinked", "Shut"} /\ clientGen' \in Nat
      /\ link' \in Nat /\ status' \in StatusValues /\ dropped' \in BOOLEAN
  BY DEF ClientTypes, ShutKinds, Generation
<1> QED
  BY <1>2, <1>3 DEF ClientSeen, ClientViews

\* What is seen of the client, part by part.
LEMMA SeenParts ==
  /\ ClientSeen.conn = conn /\ ClientSeen.gen = clientGen /\ ClientSeen.status = status
  /\ ClientSeen.dropped = dropped /\ ClientSeen.told = Carried(notices) /\ ClientSeen.due = InFlight
  /\ (ClientSeen').conn = conn' /\ (ClientSeen').gen = clientGen' /\ (ClientSeen').status = status'
  /\ (ClientSeen').dropped = dropped' /\ (ClientSeen').told = Carried(notices)'
  /\ (ClientSeen').due = InFlight'
BY DEF ClientSeen

\* Only restarts follow another decision, as long as what is told last is one, or no decision, or
\* has none before it.
LEMMA OnlyRestartsStillFollow ==
  ASSUME ChannelTypes, OnlyRestartsFollow,
         \/ notices' = notices
         \/ notices # <<>> /\ notices' = Tail(notices)
         \/ \E n \in Notice : /\ notices' = Append(notices, n)
                              /\ n.type \in {"Reconnect", "Stop"} => Asks(ClientSeen) = {}
  PROVE  OnlyRestartsFollow'
<1> DEFINE Told3 == {"Restart", "Reconnect", "Stop"}
<1>0. notices \in Seq(Notice)
  BY DEF ChannelTypes
<1>1. CASE notices' = notices
  BY <1>1 DEF OnlyRestartsFollow
<1>2. CASE notices # <<>> /\ notices' = Tail(notices)
  <2> SUFFICES ASSUME NEW i \in 1..Len(notices'), NEW j \in 1..Len(notices'), i < j,
                      notices'[i].type \in Told3, notices'[j].type \in Told3
               PROVE  notices'[j].type = "Restart"
    BY DEF OnlyRestartsFollow
  <2>1. /\ Len(notices) \in Nat /\ Len(notices') = Len(notices) - 1
        /\ notices'[i] = notices[i + 1] /\ notices'[j] = notices[j + 1]
    BY <1>0, <1>2, TakeFacts
  <2>2. i + 1 \in 1..Len(notices) /\ j + 1 \in 1..Len(notices) /\ i + 1 < j + 1
    BY <2>1
  <2> QED
    BY <2>1, <2>2 DEF OnlyRestartsFollow
<1>3. ASSUME NEW n \in Notice, notices' = Append(notices, n),
             n.type \in {"Reconnect", "Stop"} => Asks(ClientSeen) = {}
      PROVE  OnlyRestartsFollow'
  <2> SUFFICES ASSUME NEW i \in 1..Len(notices'), NEW j \in 1..Len(notices'), i < j,
                      notices'[i].type \in Told3, notices'[j].type \in Told3
               PROVE  notices'[j].type = "Restart"
    BY DEF OnlyRestartsFollow
  <2>1. /\ Len(notices) \in Nat /\ Len(notices') = Len(notices) + 1
        /\ \A k \in 1..Len(notices) : notices'[k] = notices[k]
        /\ notices'[Len(notices) + 1] = n
    BY <1>0, <1>3, AppendFacts
  <2>2. i \in 1..Len(notices) /\ (j \in 1..Len(notices) \/ j = Len(notices) + 1)
    BY <2>1
  <2>3. CASE j \in 1..Len(notices)
    BY <2>1, <2>2, <2>3 DEF OnlyRestartsFollow
  <2>4. CASE j = Len(notices) + 1
    <3>1. notices[i] \in Asks(ClientSeen)
      BY <2>1, <2>2, SeenParts DEF Asks, Carried
    <3> QED
      BY <1>3, <2>1, <2>4, <3>1
  <2> QED
    BY <2>2, <2>3, <2>4
<1> QED
  BY <1>1, <1>2, <1>3

\* A step of the client that tells a worker in step nothing it acts on for the client.
LEMMA ClientTellsNothing ==
  ASSUME ChannelTypes, ClientTypes, ChannelTypes', ClientTypes', OnlyRestartsFollow,
         NEW w \in WorkerViews,
         InStep(ClientSeen, w), UNCHANGED <<conn, clientGen, dropped>>,
         conn \in ShutKinds \cup {"Stopped"} => status' = status,
         \A x \in InFlight' : x \in InFlight \/ x.type \in {"Message", "Status"},
         \A x \in InFlight : x \in InFlight' \/ Trifling(ClientSeen, x),
         \/ notices' = notices
         \/ \E n \in Notice : notices' = Append(notices, n) /\ n.type \notin Weighty
  PROVE  InStep(ClientSeen', w) /\ OnlyRestartsFollow'
<1>1. /\ \A x \in Carried(notices)' : x \in Carried(notices) \/ x.type \notin Weighty
      /\ \A x \in Carried(notices) : x \in Carried(notices)'
  BY ToldCarries, FlightUnmoved
<1> DEFINE c == ClientSeen
           d == ClientSeen'
<1>2. c \in ClientViews /\ d \in ClientViews /\ InStep(c, w)
  BY SeenTypes, SeenTypesNext
<1>3. d.conn = c.conn /\ d.gen = c.gen /\ d.dropped = c.dropped
  BY SeenParts
<1>4. c.conn \in ShutKinds \cup {"Stopped"} => d.status = c.status
  BY SeenParts
<1>5. /\ \A x \in d.due : x \in c.due \/ x.type \in {"Message", "Status"}
      /\ \A x \in c.due : x \in d.due \/ Trifling(c, x)
  BY SeenParts
<1>6. /\ \A x \in d.told : x \in c.told \/ x.type \notin Weighty
      /\ \A x \in c.told : x \in d.told \/ x.type \notin Weighty
  BY <1>1, SeenParts
<1> HIDE DEF c, d
<1>7. InStep(d, w)
  BY <1>2, <1>3, <1>4, <1>5, <1>6, NothingWeighty
<1>8. OnlyRestartsFollow'
  BY OnlyRestartsStillFollow DEF Weighty
<1> QED
  BY <1>7, <1>8 DEF d

\* The client takes a message with nothing to act on.
LEMMA ClientTakesTrifle ==
  ASSUME ChannelTypes, ClientTypes, ChannelTypes', ClientTypes', OnlyRestartsFollow,
         NEW w \in WorkerViews,
         InStep(ClientSeen, w), NEW type, Taking(type), events' = events,
         UNCHANGED <<conn, clientGen, dropped, notices>>,
         conn \in ShutKinds \cup {"Stopped"} => status' = status,
         Trifling(ClientSeen, Head(inbox))
  PROVE  InStep(ClientSeen', w) /\ OnlyRestartsFollow'
BY ReceivedLands, ClientTellsNothing

\* The client decides, with its worker where the decision will move it.
LEMMA ClientAsks ==
  ASSUME ChannelTypes, ClientTypes, ChannelTypes', ClientTypes', OnlyRestartsFollow,
         NEW w \in WorkerViews,
         InStep(ClientSeen, w), AtWork, dropped' = dropped, InFlight' \subseteq InFlight,
         \A x \in InFlight : x.type = "Stopped" => x \in InFlight',
         NEW n \in Notice, notices' = Append(notices, n),
         n.type # "Restart" => Asks(ClientSeen) = {},
         \/ n = Tell("Restart", clientGen') /\ conn' = "Reconnecting" /\ ~w.alone
         \/ /\ n = Tell("Reconnect", clientGen') /\ conn' = "Reconnecting" /\ ~w.alone
            /\ w.part = "Waiting" /\ w.gen = clientGen'
         \/ /\ n = Tell("Stop", clientGen' - 1) /\ conn' = "Stopped"
            /\ w.alone => status' = StoppedBy("Initialize")
            /\ \/ w.part = "Gone"
               \/ w.gen = clientGen' - 1 /\ w.part \in {"Serving", "Trying", "Waiting"}
               \/ w.gen = clientGen' /\ w.part = "Waiting"
  PROVE  InStep(ClientSeen', w) /\ OnlyRestartsFollow'
<1>1. \A x : x \in Carried(notices)' <=> x \in Carried(notices) \/ x = n
  BY ToldCarries
<1> DEFINE c == ClientSeen
           d == ClientSeen'
<1>2. c \in ClientViews /\ d \in ClientViews /\ InStep(c, w)
  BY SeenTypes, SeenTypesNext
<1>3. Engaged(c) /\ d.dropped = c.dropped /\ d.due \subseteq c.due
  BY SeenParts DEF Engaged, AtWork
<1>4. /\ \A x \in c.due : x.type = "Stopped" => x \in d.due
      /\ \A x : x \in d.told <=> x \in c.told \/ x = n
  BY <1>1, SeenParts
<1>5. n.type # "Restart" => Asks(c) = {}
  OBVIOUS
<1>6. \/ n = Tell("Restart", d.gen) /\ d.conn = "Reconnecting" /\ ~w.alone
      \/ /\ n = Tell("Reconnect", d.gen) /\ d.conn = "Reconnecting" /\ ~w.alone
         /\ w.part = "Waiting" /\ w.gen = d.gen
      \/ /\ n = Tell("Stop", d.gen - 1) /\ d.conn = "Stopped"
         /\ w.alone => d.status = StoppedBy("Initialize")
         /\ \/ w.part = "Gone"
            \/ w.gen = d.gen - 1 /\ w.part \in {"Serving", "Trying", "Waiting"}
            \/ w.gen = d.gen /\ w.part = "Waiting"
  BY SeenParts
<1> HIDE DEF c, d
<1>7. InStep(d, w)
  BY <1>2, <1>3, <1>4, <1>5, <1>6, Asked
<1>8. OnlyRestartsFollow'
  BY <1>5, OnlyRestartsStillFollow DEF c
<1> QED
  BY <1>7, <1>8 DEF d

\* The client says goodbye, or goes.
LEMMA ClientSaysGoodbye ==
  ASSUME ChannelTypes, ClientTypes, ChannelTypes', ClientTypes', OnlyRestartsFollow,
         NEW w \in WorkerViews,
         InStep(ClientSeen, w), ShutdownCall \/ DropClient
  PROVE  InStep(ClientSeen', w) /\ OnlyRestartsFollow'
<1>0. link \in Generation /\ clientGen \in Generation
      /\ conn \in {"Live", "Reconnecting", "Stopped"} \cup ShutKinds
  BY DEF ClientTypes
<1>1. \/ notices' = notices /\ conn \in ShutKinds
      \/ \E n \in Notice : n.type = "Shutdown" /\ notices' = Append(notices, n)
  <2>1. Goodbye(link, Handshake) \in Notice /\ Goodbye(clientGen, FALSE) \in Notice
    BY <1>0, MessageTypes DEF Handshake
  <2>2. Goodbye(link, Handshake).type = "Shutdown" /\ Goodbye(clientGen, FALSE).type = "Shutdown"
    BY DEF Goodbye
  <2> QED
    BY <1>0, <2>1, <2>2 DEF ShutdownCall, DropClient, Farewell, Told, ShutKinds
<1>2. /\ \A x \in Carried(notices)' : x \in Carried(notices) \/ x.type = "Shutdown"
      /\ conn \notin ShutKinds => \E n \in Carried(notices)' : n.type = "Shutdown"
  <2>1. CASE notices' = notices /\ conn \in ShutKinds
    BY <2>1, FlightUnmoved
  <2>2. ASSUME NEW n \in Notice, n.type = "Shutdown", notices' = Append(notices, n)
        PROVE  /\ \A x \in Carried(notices)' : x \in Carried(notices) \/ x.type = "Shutdown"
               /\ \E m \in Carried(notices)' : m.type = "Shutdown"
    BY <2>2, ToldCarries
  <2> QED
    BY <1>1, <2>1, <2>2
<1>3. InFlight' = InFlight
  BY FlightUnmoved DEF ShutdownCall, DropClient
<1>4. \/ dropped' /\ conn' = conn /\ status' = status
      \/ conn' \in ShutKinds /\ \E n \in Carried(notices)' : n.type = "Shutdown"
  BY <1>2 DEF ShutdownCall, DropClient, ShutKinds
<1> DEFINE c == ClientSeen
           d == ClientSeen'
<1>5. c \in ClientViews /\ d \in ClientViews /\ InStep(c, w)
  BY SeenTypes, SeenTypesNext
<1>6. d.due = c.due /\ \A x \in d.told : x \in c.told \/ x.type = "Shutdown"
  BY <1>2, <1>3, SeenParts
<1>7. \/ d.dropped /\ d.conn = c.conn /\ d.status = c.status
      \/ d.conn \in ShutKinds /\ \E n \in d.told : n.type = "Shutdown"
  BY <1>4, SeenParts
<1> HIDE DEF c, d
<1>8. InStep(d, w)
  BY <1>5, <1>6, <1>7, SaysGoodbye
<1>9. OnlyRestartsFollow'
  BY <1>1, OnlyRestartsStillFollow
<1> QED
  BY <1>8, <1>9 DEF d

\* The client takes the connection its worker made, or has moved past it.
LEMMA ClientTakesConnection ==
  ASSUME ChannelTypes, ClientTypes, ChannelTypes', ClientTypes', OnlyRestartsFollow,
         NEW w \in WorkerViews,
         InStep(ClientSeen, w), InOrderSeen(ClientSeen, w), ReceiveReconnected
  PROVE  InStep(ClientSeen', w) /\ OnlyRestartsFollow'
<1> DEFINE e == Head(inbox)
<1>1. /\ e \in InFlight /\ e.type = "Reconnected" /\ Idling
      /\ events' = events /\ notices' = notices /\ dropped' = dropped
      /\ InFlight' \subseteq InFlight /\ \A x \in InFlight : x \in InFlight' \/ x = e
  BY ReceivedLands DEF ReceiveReconnected, Taking, Ignored, channelVars
<1>2. e.gen \in Nat /\ clientGen \in Nat
  BY TakingTypes DEF ReceiveReconnected, ClientTypes, Generation
<1>3. CASE conn # "Reconnecting" \/ e.gen < clientGen
  <2>1. Trifling(ClientSeen, e)
    BY <1>1, <1>3, SeenParts DEF Trifling
  <2>2. Ignored
    BY <1>2, <1>3 DEF ReceiveReconnected
  <2> QED
    BY <1>1, <2>1, <2>2, ClientTakesTrifle DEF ReceiveReconnected, Ignored, channelVars
<1>4. CASE conn = "Reconnecting" /\ e.gen >= clientGen
  <2>1. conn' = "Live" /\ clientGen' = e.gen
    BY <1>2, <1>4 DEF ReceiveReconnected
  <2> DEFINE c == ClientSeen
             d == ClientSeen'
  <2>2. c \in ClientViews /\ d \in ClientViews /\ InStep(c, w) /\ InOrderSeen(c, w)
    BY SeenTypes, SeenTypesNext
  <2>3. Engaged(c) /\ c.conn = "Reconnecting" /\ e \in c.due /\ e.gen >= c.gen
    BY <1>1, <1>4, SeenParts DEF Engaged, Idling, ShutKinds
  <2>4. d.conn = "Live" /\ d.gen = e.gen /\ d.dropped = c.dropped
    BY <1>1, <2>1, SeenParts
  <2>5. d.told = c.told
    BY <1>1, SeenParts, FlightUnmoved
  <2>6. d.due \subseteq c.due /\ \A x \in c.due : x \in d.due \/ x = e
    BY <1>1, SeenParts
  <2> HIDE DEF c, d, e
  <2>7. InStep(d, w)
    BY <1>1, <2>2, <2>3, <2>4, <2>5, <2>6, TakesConnection
  <2>8. OnlyRestartsFollow'
    BY <1>1, OnlyRestartsStillFollow
  <2> QED
    BY <2>7, <2>8 DEF d
<1> QED
  BY <1>2, <1>3, <1>4

\* The client hears that its worker is gone, which is news to it.
LEMMA ClientHearsOfTheEnd ==
  ASSUME ChannelTypes, ClientTypes, ChannelTypes', ClientTypes', OnlyRestartsFollow,
         NEW w \in WorkerViews,
         InStep(ClientSeen, w), ReceiveStopped
  PROVE  InStep(ClientSeen', w) /\ OnlyRestartsFollow'
<1> DEFINE e == Head(inbox)
<1>1. /\ e \in InFlight /\ e.type = "Stopped" /\ Idling /\ events' = events /\ notices' = notices
      /\ InFlight' \subseteq InFlight
  BY ReceivedLands DEF ReceiveStopped, Taking, Ignored, channelVars
<1>2. \A why : /\ StoppedBy(why).kind = "Stopped" /\ StoppedBy(why).reason = why
               /\ Starting # StoppedBy(why) /\ Running # StoppedBy(why)
  BY DEF StoppedBy, Starting, Running, Status
<1> DEFINE c == ClientSeen
           d == ClientSeen'
<1>3. c \in ClientViews /\ d \in ClientViews /\ InStep(c, w) /\ e \in c.due /\ ~c.dropped
  BY <1>1, SeenTypes, SeenTypesNext, SeenParts DEF Idling
<1>4. w.part = "Gone" /\ e.arg # "Initialize"
  BY <1>1, <1>3 DEF InStep, NewsIsOld
<1>5. ~Engaged(c) \/ w.alone
  BY <1>3, <1>4 DEF InStep, GoesUnasked
<1>6. \/ conn \in ShutKinds
      \/ conn # "Reconnecting" /\ (conn = "Stopped" => status = StoppedBy("Initialize"))
  BY <1>3, <1>5, SeenParts DEF InStep, AloneForGood, Engaged
<1>7. conn \in {"Live", "Stopped"} \cup ShutKinds
  BY <1>6 DEF ClientTypes
<1>8. conn' \in ShutKinds /\ status'.kind = "Stopped"
  <2>1. CASE Ignored
    <3>1. conn' = conn /\ status' = status
      BY <2>1 DEF Ignored
    <3>2. conn \in ShutKinds /\ status.kind = "Stopped"
      <4>1. CASE conn = "Stopped"
        <5>1. status # StoppedBy(e.arg)
          BY <1>2, <1>4, <1>6, <4>1 DEF ShutKinds
        <5>2. conn' = "Shut"
          BY <5>1 DEF ReceiveStopped
        <5> QED
          BY <3>1, <4>1, <5>2
      <4>2. CASE conn \in {"Live", "ShutLinked"}
        <5>1. conn' = "Shut" /\ status' = StoppedBy(e.arg)
          BY <4>2 DEF ReceiveStopped
        <5> QED
          BY <1>2, <3>1, <5>1 DEF ShutKinds
      <4>3. CASE conn = "Shut"
        <5>1. status = StoppedBy(e.arg) \/ status' = StoppedBy(e.arg)
          BY DEF ReceiveStopped
        <5> QED
          BY <1>2, <3>1, <4>3, <5>1 DEF ShutKinds
      <4> QED
        BY <1>7, <4>1, <4>2, <4>3 DEF ShutKinds
    <3> QED
      BY <3>1, <3>2
  <2>2. CASE ~Ignored
    <3>1. conn' = "Shut" /\ status' = StoppedBy(e.arg)
      BY <2>2 DEF ReceiveStopped
    <3> QED
      BY <1>2, <3>1 DEF ShutKinds
  <2> QED
    BY <2>1, <2>2
<1>9. d.conn \in ShutKinds /\ d.status.kind = "Stopped"
  BY <1>8, SeenParts
<1>10. d.told = c.told /\ d.due \subseteq c.due
  BY <1>1, SeenParts, FlightUnmoved
<1> HIDE DEF c, d, e
<1>11. InStep(d, w)
  BY <1>1, <1>3, <1>9, <1>10, HearsOfTheEnd
<1>12. OnlyRestartsFollow'
  BY <1>1, OnlyRestartsStillFollow
<1> QED
  BY <1>11, <1>12 DEF d

\* The client halts: it stops the worker at a generation the worker has just reached, and rests.
LEMMA ClientHalts ==
  ASSUME ChannelTypes, ClientTypes, ChannelTypes', ClientTypes', OnlyRestartsFollow,
         NEW w \in WorkerViews,
         InStep(ClientSeen, w), NEW type, type # "Stopped", Taking(type), events' = events,
         AtWork, dropped' = dropped, NEW g \in Nat, NEW why, Halt(g, why),
         w.alone => why = "Initialize", Asks(ClientSeen) = {},
         \/ w.part = "Gone"
         \/ w.gen = g /\ w.part \in {"Serving", "Trying", "Waiting"}
         \/ w.gen = g + 1 /\ w.part = "Waiting"
  PROVE  InStep(ClientSeen', w) /\ OnlyRestartsFollow'
<1>1. /\ notices' = Append(notices, Tell("Stop", g)) /\ conn' = "Stopped" /\ clientGen' = g + 1
      /\ status' = StoppedBy(why)
  BY DEF Halt, Told
<1>2. Tell("Stop", g) \in Notice /\ clientGen' - 1 = g
  BY <1>1, MessageTypes DEF Generation, ControlTypes
<1>3. /\ InFlight' \subseteq InFlight
      /\ \A x \in InFlight : x.type = "Stopped" => x \in InFlight'
  BY ReceivedLands
<1>4. /\ Tell("Stop", g) = Tell("Stop", clientGen' - 1) /\ conn' = "Stopped"
      /\ w.alone => status' = StoppedBy("Initialize")
      /\ \/ w.part = "Gone"
         \/ w.gen = clientGen' - 1 /\ w.part \in {"Serving", "Trying", "Waiting"}
         \/ w.gen = clientGen' /\ w.part = "Waiting"
  BY <1>1, <1>2
<1> QED
  BY <1>1, <1>2, <1>3, <1>4, ClientAsks

\* Every step of the client keeps it in step with its worker.
LEMMA ClientStaysInStep ==
  ASSUME ChannelTypes, ClientTypes, OwnAreStatuses, LetGoBeforeReconnect,
         OnlyRestartsFollow, ClientNext,
         NEW w \in WorkerViews, w.alone => ~RestartCall,
         InStep(ClientSeen, w), InOrderSeen(ClientSeen, w)
  PROVE  InStep(ClientSeen', w) /\ OnlyRestartsFollow'
<1>0. /\ ChannelTypes' /\ ClientTypes' /\ clientGen \in Nat /\ link \in Nat /\ w.gen \in Nat
      /\ ClientSeen \in ClientViews
  BY ClientTypesKept, ViewTypes, SeenTypes DEF ClientTypes, Generation
<1>1. CASE RestartCall
  <2>1. Tell("Restart", clientGen + 1) \in Notice /\ Tell("Restart", clientGen + 1).type = "Restart"
    BY <1>0, MessageTypes DEF Generation, ControlTypes, Tell
  <2>2. AtWork /\ InFlight' = InFlight
    BY <1>1, FlightUnmoved DEF RestartCall, Idling, AtWork
  <2>3. /\ notices' = Append(notices, Tell("Restart", clientGen + 1)) /\ dropped' = dropped
        /\ clientGen' = clientGen + 1 /\ conn' = "Reconnecting"
    BY <1>1 DEF RestartCall, Told
  <2> QED
    BY <1>0, <1>1, <2>1, <2>2, <2>3, ClientAsks
<1>2. CASE RestartReturn
  <2>1. InFlight' = InFlight
    BY <1>2, FlightUnmoved DEF RestartReturn, channelVars
  <2> QED
    BY <1>0, <1>2, <2>1, ClientTellsNothing DEF RestartReturn, channelVars
<1>3. CASE ShutdownCall \/ DropClient
  BY <1>0, <1>3, ClientSaysGoodbye
<1>4. CASE Poll
  <2>1. /\ \A x \in InFlight' : x \in InFlight \/ x.type = "Status"
        /\ InFlight \subseteq InFlight'
    BY <1>4, PolledFlies
  <2> QED
    BY <1>0, <1>4, <2>1, ClientTellsNothing DEF Poll
<1>5. CASE ReceiveInitialized
  <2>1. conn = "Live"
    BY <1>5 DEF ReceiveInitialized, ForInitialize, LetGoBeforeReconnect
  <2>2. Trifling(ClientSeen, Head(inbox))
    BY <1>5 DEF ReceiveInitialized, Taking, Trifling
  <2>3. /\ InFlight' \subseteq InFlight
        /\ \A x \in InFlight : x \in InFlight' \/ Trifling(ClientSeen, x)
    BY <1>5, <2>2, ReceivedLands DEF ReceiveInitialized
  <2>4. Tell("Handshaken", link) \in Notice /\ Tell("Handshaken", link).type \notin Weighty
    BY <1>0, MessageTypes DEF Tell, Weighty, Generation, ControlTypes
  <2>5. /\ UNCHANGED <<conn, clientGen, dropped>>
        /\ notices' = Append(notices, Tell("Handshaken", link))
    BY <1>5, <2>1 DEF ReceiveInitialized, Told
  <2> QED
    BY <1>0, <2>1, <2>3, <2>4, <2>5, ClientTellsNothing DEF ShutKinds
<1>6. CASE ReceiveStale \/ ReceiveStatus
  <2>1. Trifling(ClientSeen, Head(inbox))
    BY <1>6 DEF ReceiveStale, ReceiveStatus, Taking, Trifling
  <2> QED
    BY <1>0, <1>6, <2>1, ClientTakesTrifle DEF ReceiveStale, ReceiveStatus, Ignored, channelVars
<1>7. CASE ReceiveRefused
  <2>1. conn = "Live" /\ AtWork
    BY <1>7 DEF ReceiveRefused, ForInitialize, LetGoBeforeReconnect, Taking, Idling, AtWork,
                ShutKinds
  <2>2. Engaged(ClientSeen) /\ ClientSeen.conn = "Live"
    BY <2>1, SeenParts DEF Engaged, AtWork
  <2>3. /\ Asks(ClientSeen) = {}
        /\ \/ w.part = "Gone"
           \/ w.gen = clientGen /\ w.part = "Serving"
           \/ w.gen = clientGen + 1 /\ w.part = "Waiting"
    BY <1>0, <2>2, LiveIsUnasked, SeenParts
  <2>4. Taking("Message") /\ Halt(clientGen, "Initialize") /\ events' = events /\ dropped' = dropped
    BY <1>7 DEF ReceiveRefused
  <2> QED
    BY <1>0, <2>1, <2>3, <2>4, ClientHalts
<1>8. CASE ReceiveLost
  <2> DEFINE e == Head(inbox)
  <2>1. /\ Taking("Lost") /\ e \in InFlight /\ e.type = "Lost" /\ e.gen \in Nat /\ Idling
        /\ events' = events /\ InFlight' \subseteq InFlight
        /\ \A x \in InFlight : x \in InFlight' \/ x = e
    BY <1>8, ReceivedLands, TakingTypes
    DEF ReceiveLost, Taking, Ignored, channelVars, Generation
  <2>2. CASE LossMoot(e.gen)
    <3>1. Trifling(ClientSeen, e)
      BY <2>1, <2>2, SeenParts DEF Trifling, LossMoot
    <3> QED
      BY <1>0, <1>8, <2>1, <2>2, <3>1, ClientTakesTrifle DEF ReceiveLost, Ignored, channelVars
  <2>3. CASE ~LossMoot(e.gen)
    <3>1. AtWork /\ e.gen > clientGen
      BY <1>0, <2>1, <2>3 DEF LossMoot, AtWork, Idling
    <3>2. /\ w.gen = e.gen /\ w.part = "Waiting" /\ ~w.alone /\ Asks(ClientSeen) = {}
      <4>1. Engaged(ClientSeen) /\ e \in ClientSeen.due /\ e.gen > ClientSeen.gen
        BY <2>1, <3>1, SeenParts DEF Engaged, AtWork
      <4> QED
        BY <1>0, <2>1, <4>1, LossIsNews
    <3>3. /\ dropped' = dropped
          /\ \/ /\ clientGen' = e.gen /\ conn' = "Reconnecting"
                /\ notices' = Append(notices, Tell("Reconnect", e.gen))
             \/ \E why : Halt(e.gen, why)
      BY <1>8, <2>3 DEF ReceiveLost, Told
    <3>4. CASE \E why : Halt(e.gen, why)
      <4> HIDE DEF e
      <4> QED
        BY <1>0, <2>1, <3>1, <3>2, <3>3, <3>4, ClientHalts
    <3>5. CASE /\ clientGen' = e.gen /\ conn' = "Reconnecting"
               /\ notices' = Append(notices, Tell("Reconnect", e.gen))
      <4>1. Tell("Reconnect", e.gen) \in Notice
        BY <2>1, MessageTypes DEF ControlTypes, Generation
      <4>2. \A x \in InFlight : x.type = "Stopped" => x \in InFlight'
        BY <2>1
      <4> QED
        BY <1>0, <2>1, <3>1, <3>2, <3>3, <3>5, <4>1, <4>2, ClientAsks
    <3> QED
      BY <3>3, <3>4, <3>5
  <2> QED
    BY <2>2, <2>3
<1>9. CASE ReceiveAttempting
  <2> DEFINE e == Head(inbox)
  <2>1. /\ Taking("Attempting") /\ e \in InFlight /\ e.type = "Attempting" /\ Idling
        /\ events' = events /\ Trifling(ClientSeen, e) /\ dropped' = dropped
    BY <1>9, ReceivedLands
    DEF ReceiveAttempting, Taking, Ignored, channelVars, Trifling
  <2>2. CASE /\ UNCHANGED <<conn, clientGen, notices>>
             /\ conn \in ShutKinds \cup {"Stopped"} => status' = status
    BY <1>0, <2>1, <2>2, ClientTakesTrifle
  <2>3. CASE ~ /\ UNCHANGED <<conn, clientGen, notices>>
               /\ conn \in ShutKinds \cup {"Stopped"} => status' = status
    <3>1. conn = "Reconnecting" /\ e.gen = clientGen /\ Halt(clientGen, "GaveUp")
      BY <1>9, <2>3 DEF ReceiveAttempting, Ignored, channelVars, ShutKinds
    <3>2. AtWork /\ Engaged(ClientSeen) /\ e \in ClientSeen.due
      BY <2>1, <3>1, SeenParts DEF AtWork, Idling, ShutKinds, Engaged
    <3>3. /\ Asks(ClientSeen) = {} /\ ~w.alone
          /\ \/ w.gen = clientGen /\ w.part \in {"Serving", "Trying"}
             \/ w.gen = clientGen + 1 /\ w.part = "Waiting"
      BY <1>0, <2>1, <3>1, <3>2, AttemptIsNews, SeenParts
    <3> QED
      BY <1>0, <2>1, <3>1, <3>2, <3>3, ClientHalts
  <2> QED
    BY <2>2, <2>3
<1>10. CASE ReceiveReconnected
  BY <1>0, <1>10, ClientTakesConnection
<1>11. CASE ReceiveStopped
  BY <1>0, <1>11, ClientHearsOfTheEnd
<1> QED
  BY <1>1, <1>2, <1>3, <1>4, <1>5, <1>6, <1>7, <1>8, <1>9, <1>10, <1>11 DEF ClientNext, Receive

\* A live client holds the link of its generation.
LEMMA ClientKeepsLink ==
  ASSUME LetGoBeforeReconnect, LinkIsCurrent, ClientNext
  PROVE  LinkIsCurrent'
<1> USE DEF LinkIsCurrent
<1>1. CASE UNCHANGED <<conn, clientGen, link>>
  BY <1>1
<1>2. CASE RestartCall \/ ShutdownCall
  BY <1>2 DEF RestartCall, ShutdownCall
<1>3. CASE \/ RestartReturn \/ DropClient \/ Poll
           \/ ReceiveStale \/ ReceiveStatus \/ ReceiveInitialized
  BY <1>1, <1>3
  DEF RestartReturn, DropClient, Poll, ReceiveStale, ReceiveStatus, ReceiveInitialized, Ignored
<1>4. CASE ReceiveRefused \/ ReceiveLost \/ ReceiveAttempting
  BY <1>1, <1>4 DEF ReceiveRefused, ReceiveLost, ReceiveAttempting, Halt, Ignored
<1>5. CASE ReceiveReconnected
  BY <1>1, <1>5 DEF ReceiveReconnected, Ignored
<1>6. CASE ReceiveStopped
  BY <1>1, <1>6 DEF ReceiveStopped, Ignored
<1> QED
  BY <1>1, <1>2, <1>3, <1>4, <1>5, <1>6 DEF ClientNext, Receive

----------------------------------------------------------------------------
\* What a worker does, by what it takes from its inbox, what it reports and the part it then plays.

\* A worker's step leaves the client as it is.
Unmoved(c, d) == d.conn = c.conn /\ d.gen = c.gen /\ d.status = c.status /\ d.dropped = c.dropped

\* Notice n was taken from what the worker is told, and only restarts are left, newer ones after a
\* restart.
Taken(c, d, n) ==
  /\ n \in c.told /\ d.told \subseteq c.told /\ \A x \in c.told : x \in d.told \/ x = n
  /\ n.type \in {"Restart", "Reconnect", "Stop"} =>
       \A x \in Asks(d) : x.type = "Restart" /\ (n.type = "Restart" => n.gen < x.gen)

\* e is the one thing reported.
Sent(c, d, e) == d.due = c.due \cup {e}

\* One that is leaving was told to.
LEMMA WorkerLeaves ==
  ASSUME NEW c \in ClientViews, NEW d \in ClientViews, NEW w \in WorkerViews, NEW v \in WorkerViews,
         InStep(c, w), Unmoved(c, d), d.due = c.due, NEW n, Taken(c, d, n), n.type = "Shutdown",
         w.part # "Gone", v.part = "Leaving", v.gen = w.gen, v.newest = w.newest, v.alone = w.alone
  PROVE  InStep(d, v)
<1>0. NewsIsOld(c, w) /\ AloneForGood(c, w) /\ GoesUnasked(c, w)
  BY DEF InStep
<1>1. ~Engaged(c) /\ ~Engaged(d)
  BY <1>0 DEF GoesUnasked, Taken, Unmoved, Engaged
<1>2. NewsIsOld(d, v)
  BY <1>0 DEF NewsIsOld
<1>3. AloneForGood(d, v)
  BY <1>0 DEF AloneForGood, Unmoved, Taken
<1>4. GoesUnasked(d, v) /\ HeardAndDone(d, v) /\ UnheardAndDue(d, v) /\ GoodbyeHeeded(d, v)
  BY <1>1 DEF GoesUnasked, HeardAndDone, UnheardAndDue, GoodbyeHeeded
<1> QED
  BY <1>2, <1>3, <1>4 DEF InStep

\* One that goes says so: it was told to leave, or it was alone with its connection.
LEMMA WorkerGoes ==
  ASSUME NEW c \in ClientViews, NEW d \in ClientViews, NEW w \in WorkerViews, NEW v \in WorkerViews,
         InStep(c, w), Unmoved(c, d),
         d.told \subseteq c.told, \A x \in c.told : x \in d.told \/ x.type = "Shutdown",
         NEW e, Sent(c, d, e), e.type = "Stopped", e.arg # "Initialize", w.alone \/ ~Engaged(c),
         v.part = "Gone", v.gen = w.gen, v.newest = w.newest, v.alone = w.alone
  PROVE  InStep(d, v)
<1>0. NewsIsOld(c, w) /\ AloneForGood(c, w) /\ GoesUnasked(c, w) /\ UnheardAndDue(c, w)
  BY DEF InStep
<1>1. (Engaged(d) <=> Engaged(c)) /\ e \in d.due
  BY DEF Unmoved, Engaged, Sent
<1>2. Asks(d) = Asks(c)
  <2>1. \A x : x \in Asks(d) <=> x \in Asks(c)
    BY DEF Asks
  <2> QED
    BY <2>1
<1>3. NewsIsOld(d, v)
  BY <1>0 DEF NewsIsOld, Sent
<1>4. AloneForGood(d, v)
  BY <1>0 DEF AloneForGood, Unmoved, Sent
<1>5. GoesUnasked(d, v)
  BY <1>0, <1>1 DEF GoesUnasked
<1>6. HeardAndDone(d, v)
  BY DEF HeardAndDone
<1>7. UnheardAndDue(d, v)
  <2>1. SUFFICES ASSUME Engaged(c), Asks(c) # {} PROVE c.conn = "Stopped"
    BY <1>1, <1>2 DEF UnheardAndDue, Unmoved
  <2>2. w.alone
    BY <2>1
  <2> QED
    BY <1>0, <2>1, <2>2 DEF UnheardAndDue, AloneForGood
<1>8. GoodbyeHeeded(d, v)
  BY <1>1 DEF GoodbyeHeeded
<1> QED
  BY <1>3, <1>4, <1>5, <1>6, <1>7, <1>8 DEF InStep

\* The decision taken was the only one, when it is no restart.
LEMMA TakenIsLast ==
  ASSUME NEW c, NEW d, NEW n, Taken(c, d, n), n.type \in {"Reconnect", "Stop"}, Asks(c) = {n}
  PROVE  Asks(d) = {}
<1>1. SUFFICES ASSUME NEW x \in Asks(d) PROVE FALSE
  OBVIOUS
<1>2. x.type = "Restart" /\ x \in Asks(c)
  BY DEF Taken, Asks
<1> QED
  BY <1>2

\* What the worker takes besides a restart leaves the restarts there.
LEMMA RestartStays ==
  ASSUME NEW c, NEW d, NEW n, Taken(c, d, n), NEW r, n # r, r \in Asks(c)
  PROVE  r \in Asks(d)
BY DEF Taken, Asks

\* One that waits with the generation it is told to reconnect tries to.
LEMMA WorkerTriesAgain ==
  ASSUME NEW c \in ClientViews, NEW d \in ClientViews, NEW w \in WorkerViews, NEW v \in WorkerViews,
         InStep(c, w), Unmoved(c, d), d.due = c.due, NEW n, Taken(c, d, n), n.type = "Reconnect",
         w.part # "Gone",
         v.part = IF w.part = "Waiting" /\ n.gen = w.gen THEN "Trying" ELSE w.part,
         v.gen = w.gen, v.newest = w.newest, v.alone = w.alone
  PROVE  InStep(d, v)
<1>0. /\ NewsIsOld(c, w) /\ AloneForGood(c, w) /\ GoesUnasked(c, w)
      /\ UnheardAndDue(c, w) /\ GoodbyeHeeded(c, w) /\ n \in Asks(c)
  BY DEF InStep, Taken, Asks
<1>1. Engaged(d) <=> Engaged(c)
  BY DEF Unmoved, Engaged
<1>2. NewsIsOld(d, v)
  BY <1>0 DEF NewsIsOld
<1>3. AloneForGood(d, v)
  BY <1>0 DEF AloneForGood, Unmoved, Taken
<1>4. GoesUnasked(d, v)
  BY <1>0, <1>1 DEF GoesUnasked, Taken
<1>5. GoodbyeHeeded(d, v)
  BY <1>0 DEF GoodbyeHeeded, Unmoved, Taken
<1>6. HeardAndDone(d, v) /\ UnheardAndDue(d, v)
  <2>1. CASE ~Engaged(c)
    BY <1>1, <2>1 DEF HeardAndDone, UnheardAndDue
  <2>2. CASE c.conn = "Reconnecting" /\ Tell("Restart", c.gen) \in Asks(c)
    <3>1. n # Tell("Restart", c.gen)
      BY DEF Tell
    <3>2. Tell("Restart", c.gen) \in Asks(d)
      BY <2>2, <3>1, RestartStays
    <3> QED
      BY <2>2, <3>2 DEF HeardAndDone, UnheardAndDue, Unmoved
  <2>3. CASE /\ c.conn = "Reconnecting" /\ Asks(c) = {Tell("Reconnect", c.gen)}
             /\ w.part = "Waiting" /\ w.gen = c.gen
    <3>1. n = Tell("Reconnect", c.gen) /\ n.gen = c.gen
      BY <1>0, <2>3 DEF Tell
    <3>2. Asks(d) = {}
      BY <2>3, <3>1, TakenIsLast
    <3> QED
      BY <2>3, <3>1, <3>2 DEF HeardAndDone, UnheardAndDue, Unmoved
  <2>4. CASE Asks(c) = {Tell("Stop", c.gen - 1)}
    BY <1>0, <2>4 DEF Tell
  <2> QED
    BY <1>0, <2>1, <2>2, <2>3, <2>4 DEF UnheardAndDue
<1> QED
  BY <1>2, <1>3, <1>4, <1>5, <1>6 DEF InStep

\* One that is stopped rests past the generation it is stopped at, unless it already moved on or is
\* leaving.
LEMMA WorkerRests ==
  ASSUME NEW c \in ClientViews, NEW d \in ClientViews, NEW w \in WorkerViews, NEW v \in WorkerViews,
         InStep(c, w), Unmoved(c, d), d.due = c.due, NEW n, Taken(c, d, n), n.type = "Stop",
         w.part # "Gone",
         \/ v.part = "Resting" /\ n.gen = w.gen /\ v.gen = w.gen + 1
         \/ /\ v.part = w.part /\ v.gen = w.gen
            /\ w.part \in {"Resting", "Leaving"} \/ n.gen # w.gen,
         w.part = "Leaving" => v.part = "Leaving",
         v.newest = w.newest, v.alone = w.alone
  PROVE  InStep(d, v)
<1>0. /\ NewsIsOld(c, w) /\ AloneForGood(c, w) /\ GoesUnasked(c, w)
      /\ UnheardAndDue(c, w) /\ GoodbyeHeeded(c, w) /\ n \in Asks(c)
      /\ w.gen \in Nat /\ w.newest \in Nat \cup {-1} /\ c.gen \in Nat
      /\ \A e \in c.due : e.gen \in Nat
  BY ViewTypes DEF InStep, Taken, Asks
<1>1. Engaged(d) <=> Engaged(c)
  BY DEF Unmoved, Engaged
<1>2. NewsIsOld(d, v)
  <2>1. /\ \A g \in Nat \cup {-1} : g <= w.gen => g <= v.gen
        /\ v.part \in {"Waiting", "Trying"} => v.part = w.part /\ v.gen = w.gen
        /\ v.part # "Gone"
    BY <1>0
  <2>2. w.newest <= v.gen
    BY <1>0, <2>1 DEF NewsIsOld
  <2> QED
    BY <1>0, <2>1, <2>2 DEF NewsIsOld
<1>3. AloneForGood(d, v)
  BY <1>0 DEF AloneForGood, Unmoved, Taken
<1>4. GoesUnasked(d, v)
  BY <1>0, <1>1 DEF GoesUnasked, Taken
<1>5. GoodbyeHeeded(d, v)
  BY <1>0 DEF GoodbyeHeeded, Unmoved, Taken
<1>6. HeardAndDone(d, v) /\ UnheardAndDue(d, v)
  <2>1. CASE ~Engaged(c)
    BY <1>1, <2>1 DEF HeardAndDone, UnheardAndDue
  <2>2. CASE c.conn = "Reconnecting" /\ Tell("Restart", c.gen) \in Asks(c)
    <3>1. n # Tell("Restart", c.gen)
      BY DEF Tell
    <3>2. Tell("Restart", c.gen) \in Asks(d)
      BY <2>2, <3>1, RestartStays
    <3> QED
      BY <2>2, <3>2 DEF HeardAndDone, UnheardAndDue, Unmoved
  <2>3. CASE Asks(c) = {Tell("Reconnect", c.gen)}
    BY <1>0, <2>3 DEF Tell
  <2>4. CASE /\ c.conn = "Stopped" /\ Asks(c) = {Tell("Stop", c.gen - 1)}
             /\ \/ w.gen = c.gen - 1 /\ w.part \in {"Serving", "Trying", "Waiting"}
                \/ w.gen = c.gen /\ w.part = "Waiting"
    <3>1. n = Tell("Stop", c.gen - 1) /\ n.gen = c.gen - 1
      BY <1>0, <2>4 DEF Tell
    <3>2. Asks(d) = {}
      BY <2>4, <3>1, TakenIsLast
    <3>3. v.part \in {"Resting", "Waiting"} /\ v.gen = c.gen
      BY <1>0, <2>4, <3>1
    <3> QED
      BY <2>4, <3>2, <3>3 DEF HeardAndDone, UnheardAndDue, Unmoved
  <2> QED
    BY <1>0, <2>1, <2>2, <2>3, <2>4 DEF UnheardAndDue
<1> QED
  BY <1>2, <1>3, <1>4, <1>5, <1>6 DEF InStep

\* One that is told to restart tries for the generation it is told, whatever it did before.
LEMMA WorkerRestarts ==
  ASSUME NEW c \in ClientViews, NEW d \in ClientViews, NEW w \in WorkerViews, NEW v \in WorkerViews,
         InStep(c, w), InOrderSeen(c, w), Unmoved(c, d), d.due = c.due,
         NEW n, Taken(c, d, n), n.type = "Restart", w.part \notin {"Leaving", "Gone"},
         v.part = "Trying", v.gen = n.gen, v.newest = w.newest, v.alone = w.alone
  PROVE  InStep(d, v)
<1>0. /\ NewsIsOld(c, w) /\ AloneForGood(c, w) /\ GoesUnasked(c, w)
      /\ UnheardAndDue(c, w) /\ GoodbyeHeeded(c, w) /\ n \in Asks(c)
      /\ w.gen \in Nat /\ w.newest \in Nat \cup {-1} /\ c.gen \in Nat /\ n.gen \in Nat
      /\ \A e \in c.due : e.gen \in Nat
      /\ \A x \in c.told : x.gen \in Nat
  BY ViewTypes DEF InStep, Taken, Asks
<1>1. Engaged(d) <=> Engaged(c)
  BY DEF Unmoved, Engaged
<1>2. /\ w.gen < n.gen \/ (w.gen = n.gen /\ w.part = "Waiting")
      /\ \A x \in Asks(c) : x.type = "Restart" => x.gen <= c.gen
  BY <1>0 DEF InOrderSeen, Taken, Asks
<1>3. NewsIsOld(d, v)
  <2>1. w.newest <= w.gen /\ (w.part = "Waiting" => w.newest < w.gen)
    BY <1>0 DEF NewsIsOld
  <2>2. w.newest < n.gen /\ w.gen <= n.gen
    BY <1>0, <1>2, <2>1
  <2>3. \A e \in d.due :
          /\ e.type \in {"Lost", "Attempting"} => e.gen <= w.gen /\ e.gen \in Nat
          /\ e.type = "Reconnected" => e.gen <= w.newest
          /\ e.type # "Stopped"
    BY <1>0 DEF NewsIsOld
  <2>4. \A e \in d.due : e.type \in {"Lost", "Attempting"} => e.gen <= n.gen
    BY <1>0, <2>2, <2>3
  <2> QED
    BY <1>0, <2>2, <2>3, <2>4 DEF NewsIsOld
<1>4. AloneForGood(d, v)
  BY <1>0 DEF AloneForGood, Taken
<1>5. GoesUnasked(d, v)
  BY <1>0, <1>1 DEF GoesUnasked, Taken
<1>6. GoodbyeHeeded(d, v)
  BY <1>0 DEF GoodbyeHeeded, Unmoved, Taken
<1>7. HeardAndDone(d, v) /\ UnheardAndDue(d, v)
  <2>1. CASE ~Engaged(c)
    BY <1>1, <2>1 DEF HeardAndDone, UnheardAndDue
  <2>2. CASE c.conn = "Reconnecting" /\ Tell("Restart", c.gen) \in Asks(c)
    <3>1. CASE n = Tell("Restart", c.gen)
      <4>1. n.gen = c.gen
        BY <3>1 DEF Tell
      <4>2. ASSUME NEW x \in Asks(d) PROVE FALSE
        <5>1. x.type = "Restart" /\ n.gen < x.gen /\ x \in Asks(c) /\ x.gen \in Nat
          BY <1>0 DEF Taken, Asks
        <5> QED
          BY <1>0, <1>2, <4>1, <5>1
      <4>3. Asks(d) = {}
        BY <4>2
      <4> QED
        BY <2>2, <4>1, <4>3 DEF HeardAndDone, UnheardAndDue, Unmoved
    <3>2. CASE n # Tell("Restart", c.gen)
      <4>1. Tell("Restart", c.gen) \in Asks(d)
        BY <2>2, <3>2, RestartStays
      <4> QED
        BY <2>2, <4>1 DEF HeardAndDone, UnheardAndDue, Unmoved
    <3> QED
      BY <3>1, <3>2
  <2>3. CASE Asks(c) = {Tell("Reconnect", c.gen)} \/ Asks(c) = {Tell("Stop", c.gen - 1)}
    BY <1>0, <2>3 DEF Tell
  <2> QED
    BY <1>0, <2>1, <2>2, <2>3 DEF UnheardAndDue
<1> QED
  BY <1>3, <1>4, <1>5, <1>6, <1>7 DEF InStep

\* One that is leaving restarts for nobody, and one that is alone or behind is not asked to.
LEMMA RestartIsMoot ==
  ASSUME NEW c \in ClientViews, NEW d \in ClientViews, NEW w \in WorkerViews,
         InStep(c, w), InOrderSeen(c, w), Unmoved(c, d), d.due = c.due,
         NEW n, Taken(c, d, n), n.type = "Restart", w.part # "Gone",
         w.alone \/ n.gen < w.gen \/ w.part = "Leaving"
  PROVE  InStep(d, w)
<1>0. /\ NewsIsOld(c, w) /\ AloneForGood(c, w) /\ GoesUnasked(c, w) /\ GoodbyeHeeded(c, w)
      /\ w.gen \in Nat /\ n.gen \in Nat
  BY ViewTypes DEF InStep, Taken
<1>1. ~w.alone
  BY <1>0 DEF AloneForGood, Taken
<1>2. ~(n.gen < w.gen)
  BY <1>0 DEF InOrderSeen, Taken
<1>3. w.part = "Leaving"
  BY <1>1, <1>2
<1>4. ~Engaged(c) /\ ~Engaged(d)
  BY <1>0, <1>3 DEF GoesUnasked, Unmoved, Engaged
<1>5. NewsIsOld(d, w)
  BY <1>0 DEF NewsIsOld
<1>6. AloneForGood(d, w)
  BY <1>1 DEF AloneForGood
<1>7. GoodbyeHeeded(d, w)
  BY <1>3 DEF GoodbyeHeeded
<1>8. GoesUnasked(d, w) /\ HeardAndDone(d, w) /\ UnheardAndDue(d, w)
  BY <1>4 DEF GoesUnasked, HeardAndDone, UnheardAndDue
<1> QED
  BY <1>5, <1>6, <1>7, <1>8 DEF InStep

\* One that loses a connection, or the dials for one, waits past it and reports the loss.
LEMMA WorkerLoses ==
  ASSUME NEW c \in ClientViews, NEW d \in ClientViews, NEW w \in WorkerViews, NEW v \in WorkerViews,
         InStep(c, w), Unmoved(c, d), d.told = c.told,
         NEW e, Sent(c, d, e), e.type = "Lost", e.gen = w.gen + 1,
         w.part \in {"Serving", "Trying"}, ~w.alone,
         v.part = "Waiting", v.gen = w.gen + 1, v.newest = w.newest, v.alone = w.alone
  PROVE  InStep(d, v)
<1>0. /\ NewsIsOld(c, w) /\ AloneForGood(c, w) /\ GoesUnasked(c, w)
      /\ HeardAndDone(c, w) /\ UnheardAndDue(c, w) /\ GoodbyeHeeded(c, w)
      /\ w.gen \in Nat /\ w.newest \in Nat \cup {-1} /\ c.gen \in Nat
      /\ \A x \in c.due : x.gen \in Nat
  BY ViewTypes DEF InStep
<1>1. /\ Engaged(d) <=> Engaged(c)
      /\ Asks(d) = Asks(c) /\ e \in d.due /\ \A x \in d.due : x \in c.due \/ x = e
  BY DEF Unmoved, Engaged, Asks, Sent
<1>2. NewsIsOld(d, v)
  <2>1. \A x \in c.due :
          /\ x.type \in {"Lost", "Attempting"} => x.gen <= w.gen
          /\ x.type = "Reconnected" => x.gen <= w.newest
          /\ x.type # "Stopped"
    BY <1>0 DEF NewsIsOld
  <2>2. \A x \in d.due : x.type \in {"Lost", "Attempting"} => x.gen <= v.gen
    BY <1>0, <1>1, <2>1
  <2>3. \A x \in d.due : x.type = "Attempting" => x.gen < v.gen
    BY <1>0, <1>1, <2>1
  <2>4. \A x \in d.due : x.type = "Reconnected" => x.gen <= v.newest
    BY <1>1, <2>1
  <2>5. v.newest < v.gen /\ v.newest <= v.gen
    BY <1>0 DEF NewsIsOld
  <2> QED
    BY <1>1, <2>1, <2>2, <2>3, <2>4, <2>5 DEF NewsIsOld
<1>3. AloneForGood(d, v)
  BY DEF AloneForGood
<1>4. GoesUnasked(d, v)
  BY <1>0, <1>1 DEF GoesUnasked
<1>5. GoodbyeHeeded(d, v)
  BY <1>0 DEF GoodbyeHeeded, Unmoved
<1>6. HeardAndDone(d, v)
  <2>1. SUFFICES ASSUME Engaged(c), Asks(c) = {} PROVE HeardAndDone(d, v)
    BY <1>1 DEF HeardAndDone
  <2>2. c.conn \in {"Live", "Reconnecting"} /\ w.gen = c.gen
    BY <1>0, <2>1 DEF HeardAndDone, LossIsDue
  <2>3. LossIsDue(d, v)
    BY <1>0, <1>1, <2>2 DEF LossIsDue, Unmoved
  <2> QED
    BY <2>2, <2>3 DEF HeardAndDone, Unmoved
<1>7. UnheardAndDue(d, v)
  <2>1. SUFFICES ASSUME Engaged(c), Asks(c) # {} PROVE UnheardAndDue(d, v)
    BY <1>1 DEF UnheardAndDue
  <2>2. CASE c.conn = "Reconnecting" /\ Tell("Restart", c.gen) \in Asks(c)
    BY <1>1, <2>2 DEF UnheardAndDue, Unmoved
  <2>3. CASE c.conn = "Stopped" /\ Asks(c) = {Tell("Stop", c.gen - 1)} /\ w.gen = c.gen - 1
    <3>1. v.gen = c.gen
      BY <1>0, <2>3
    <3> QED
      BY <1>1, <2>3, <3>1 DEF UnheardAndDue, Unmoved
  <2> QED
    BY <1>0, <2>1, <2>2, <2>3 DEF UnheardAndDue
<1> QED
  BY <1>2, <1>3, <1>4, <1>5, <1>6, <1>7 DEF InStep

\* One that makes a connection serves it, and tells the client unless it waits on that one already.
LEMMA WorkerServes ==
  ASSUME NEW c \in ClientViews, NEW d \in ClientViews, NEW w \in WorkerViews, NEW v \in WorkerViews,
         InStep(c, w), Unmoved(c, d), d.told = c.told,
         \/ w.part = "Serving" /\ d.due = c.due
         \/ /\ w.part = "Trying" /\ ~w.alone
            /\ \E e : Sent(c, d, e) /\ e.type = "Reconnected" /\ e.gen = w.gen,
         v.part = "Serving", v.gen = w.gen, v.newest = w.gen, v.alone = w.alone
  PROVE  InStep(d, v)
<1>0. /\ NewsIsOld(c, w) /\ AloneForGood(c, w) /\ GoesUnasked(c, w)
      /\ HeardAndDone(c, w) /\ UnheardAndDue(c, w) /\ GoodbyeHeeded(c, w)
      /\ w.gen \in Nat /\ w.newest \in Nat \cup {-1} /\ c.gen \in Nat
      /\ \A x \in c.due : x.gen \in Nat
  BY ViewTypes DEF InStep
<1>1. /\ Engaged(d) <=> Engaged(c)
      /\ Asks(d) = Asks(c) /\ c.due \subseteq d.due
      /\ \A x \in d.due : x \in c.due \/ (x.type = "Reconnected" /\ x.gen = w.gen /\ ~w.alone)
  BY DEF Unmoved, Engaged, Asks, Sent
<1>2. NewsIsOld(d, v)
  <2>1. \A x \in c.due : x.type = "Reconnected" => x.gen <= w.gen
    BY <1>0 DEF NewsIsOld
  <2>2. \A x \in d.due : x.type = "Reconnected" => x.gen <= v.newest
    BY <1>0, <1>1, <2>1
  <2>3. \A x \in d.due : /\ x.type \in {"Lost", "Attempting"} => x.gen <= v.gen
                         /\ x.type # "Stopped"
    BY <1>0, <1>1 DEF NewsIsOld
  <2> QED
    BY <1>0, <2>2, <2>3 DEF NewsIsOld
<1>3. AloneForGood(d, v)
  BY <1>0, <1>1 DEF AloneForGood, Unmoved
<1>4. GoesUnasked(d, v)
  BY <1>0, <1>1 DEF GoesUnasked
<1>5. GoodbyeHeeded(d, v)
  BY <1>0 DEF GoodbyeHeeded, Unmoved
<1>6. HeardAndDone(d, v)
  <2>1. SUFFICES ASSUME Engaged(c), Asks(c) = {} PROVE HeardAndDone(d, v)
    BY <1>1 DEF HeardAndDone
  <2>2. CASE w.part = "Serving" /\ d.due = c.due
    BY <1>0, <2>1, <2>2 DEF HeardAndDone, LossIsDue, Unmoved
  <2>3. CASE /\ w.part = "Trying"
             /\ \E e : Sent(c, d, e) /\ e.type = "Reconnected" /\ e.gen = w.gen
    <3>1. c.conn = "Reconnecting" /\ w.gen = c.gen
      BY <1>0, <2>1, <2>3 DEF HeardAndDone, LossIsDue
    <3>2. \E e \in d.due : e.type = "Reconnected" /\ e.gen = c.gen
      BY <2>3, <3>1 DEF Sent
    <3> QED
      BY <3>1, <3>2 DEF HeardAndDone, Unmoved
  <2> QED
    BY <2>2, <2>3
<1>7. UnheardAndDue(d, v)
  <2>1. SUFFICES ASSUME Engaged(c), Asks(c) # {} PROVE UnheardAndDue(d, v)
    BY <1>1 DEF UnheardAndDue
  <2>2. CASE c.conn = "Reconnecting" /\ Tell("Restart", c.gen) \in Asks(c)
    BY <1>1, <2>2 DEF UnheardAndDue, Unmoved
  <2>3. CASE c.conn = "Stopped" /\ Asks(c) = {Tell("Stop", c.gen - 1)} /\ w.gen = c.gen - 1
    BY <1>1, <2>3 DEF UnheardAndDue, Unmoved
  <2> QED
    BY <1>0, <2>1, <2>2, <2>3 DEF UnheardAndDue
<1> QED
  BY <1>2, <1>3, <1>4, <1>5, <1>6, <1>7 DEF InStep

\* One whose attempt failed reports it and tries on.
LEMMA WorkerFailsAgain ==
  ASSUME NEW c \in ClientViews, NEW d \in ClientViews, NEW w \in WorkerViews,
         InStep(c, w), Unmoved(c, d), d.told = c.told,
         NEW e, Sent(c, d, e), e.type = "Attempting", e.gen = w.gen, w.part = "Trying", ~w.alone
  PROVE  InStep(d, w)
<1>0. /\ NewsIsOld(c, w) /\ AloneForGood(c, w) /\ GoesUnasked(c, w)
      /\ HeardAndDone(c, w) /\ UnheardAndDue(c, w) /\ GoodbyeHeeded(c, w) /\ w.gen \in Nat
  BY ViewTypes DEF InStep
<1>1. /\ Engaged(d) <=> Engaged(c)
      /\ Asks(d) = Asks(c) /\ c.due \subseteq d.due /\ \A x \in d.due : x \in c.due \/ x = e
  BY DEF Unmoved, Engaged, Asks, Sent
<1>2. NewsIsOld(d, w)
  <2>1. e.gen <= w.gen
    BY <1>0
  <2> QED
    BY <1>0, <1>1, <2>1 DEF NewsIsOld
<1>3. AloneForGood(d, w) /\ GoesUnasked(d, w) /\ GoodbyeHeeded(d, w)
  BY <1>0, <1>1 DEF AloneForGood, GoesUnasked, GoodbyeHeeded, Unmoved
<1>4. HeardAndDone(d, w) /\ UnheardAndDue(d, w)
  BY <1>0, <1>1 DEF HeardAndDone, UnheardAndDue, LossIsDue, Unmoved
<1> QED
  BY <1>2, <1>3, <1>4 DEF InStep

\* A worker in order is in order with what is seen of the client.
LEMMA SeenInOrder ==
  ASSUME ChannelTypes, NEW w, WorkerInOrder(w.gen, w.part \in {"Waiting", "Gone"})
  PROVE  InOrderSeen(ClientSeen, w)
<1>1. /\ w.gen <= clientGen + 1 /\ (w.gen = clientGen + 1 => w.part \in {"Waiting", "Gone"})
      /\ \A i \in 1..Len(notices) :
           notices[i].type = "Restart" =>
             /\ notices[i].gen <= clientGen
             /\ \/ w.gen < notices[i].gen
                \/ w.gen = notices[i].gen /\ w.part \in {"Waiting", "Gone"}
  BY DEF WorkerInOrder, ToldIsReached
<1> QED
  BY <1>1, SeenParts DEF InOrderSeen, Carried

\* The worker takes what is first in its inbox.
LEMMA FirstIsTaken ==
  ASSUME ChannelTypes, notices # <<>>, notices' = Tail(notices),
         OnlyRestartsFollow, RestartsAreNewer
  PROVE  Taken(ClientSeen, ClientSeen', Head(notices)) /\ OnlyRestartsFollow'
<1>0. notices \in Seq(Notice)
  BY DEF ChannelTypes
<1>1. /\ Len(notices) \in Nat \ {0} /\ Len(notices') = Len(notices) - 1
      /\ Head(notices) = notices[1]
      /\ \A i \in 1..Len(notices') : notices'[i] = notices[i + 1]
  BY <1>0, TakeFacts
<1>2. /\ Head(notices) \in Carried(notices) /\ Carried(notices)' \subseteq Carried(notices)
      /\ \A x \in Carried(notices) : x \in Carried(notices)' \/ x = Head(notices)
  BY <1>0, CarriedLess
<1>3. ASSUME Head(notices).type \in {"Restart", "Reconnect", "Stop"}, NEW x \in Carried(notices)',
             x.type \in {"Restart", "Reconnect", "Stop"}
      PROVE  x.type = "Restart" /\ (Head(notices).type = "Restart" => Head(notices).gen < x.gen)
  <2>1. PICK i \in 1..Len(notices') : x = notices'[i]
    BY <1>3 DEF Carried
  <2>2. i + 1 \in 1..Len(notices) /\ 1 \in 1..Len(notices) /\ 1 < i + 1 /\ x = notices[i + 1]
    BY <1>1, <2>1
  <2>3. x.type = "Restart"
    BY <1>1, <1>3, <2>2 DEF OnlyRestartsFollow
  <2>4. Head(notices).type = "Restart" => Head(notices).gen < x.gen
    BY <1>1, <2>2, <2>3 DEF RestartsAreNewer
  <2> QED
    BY <2>3, <2>4
<1>4. Taken(ClientSeen, ClientSeen', Head(notices))
  BY <1>2, <1>3, SeenParts DEF Taken, Asks
<1>5. OnlyRestartsFollow'
  BY OnlyRestartsStillFollow
<1> QED
  BY <1>4, <1>5

\* A step of the worker leaves what is seen of the client unmoved.
LEMMA SeenUnmoved ==
  ASSUME UNCHANGED clientVars
  PROVE  Unmoved(ClientSeen, ClientSeen')
BY SeenParts DEF Unmoved, clientVars

\* What the worker reports is all that is new on its way to the client.
LEMMA SeenSent ==
  ASSUME ChannelTypes, UNCHANGED clientVars, NEW e, events' = Append(events, e), e \in Event
  PROVE  Sent(ClientSeen, ClientSeen', e)
<1>1. Carried(events)' = Carried(events) \cup {e} /\ inbox' = inbox
  BY CarriedMore DEF ChannelTypes, clientVars
<1> QED
  BY <1>1, SeenParts DEF Sent, InFlight, Carried

\* What is seen of the client at a step of its worker.
LEMMA SeenAtWork ==
  ASSUME ChannelTypes, ClientTypes, ChannelTypes', ClientTypes', UNCHANGED clientVars,
         OnlyRestartsFollow, RestartsAreNewer
  PROVE  /\ ClientSeen \in ClientViews /\ ClientSeen' \in ClientViews
         /\ Unmoved(ClientSeen, ClientSeen')
         /\ events' = events => (ClientSeen').due = ClientSeen.due
         /\ \A e \in Event : events' = Append(events, e) => Sent(ClientSeen, ClientSeen', e)
         /\ notices' = notices => (ClientSeen').told = ClientSeen.told
         /\ notices # <<>> /\ notices' = Tail(notices) =>
              Taken(ClientSeen, ClientSeen', Head(notices))
<1>1. events' = events => (ClientSeen').due = ClientSeen.due
  BY FlightUnmoved, SeenParts DEF clientVars
<1>2. notices' = notices => (ClientSeen').told = ClientSeen.told
  BY FlightUnmoved, SeenParts
<1>3. notices # <<>> /\ notices' = Tail(notices) => Taken(ClientSeen, ClientSeen', Head(notices))
  BY FirstIsTaken
<1> QED
  BY <1>1, <1>2, <1>3, SeenTypes, SeenTypesNext, SeenUnmoved, SeenSent

\* A worker that stays as it is, takes at most what nothing hangs on, and reports at most a message.
LEMMA WorkerMarksTime ==
  ASSUME ChannelTypes, ClientTypes, ChannelTypes', ClientTypes', UNCHANGED clientVars,
         OnlyRestartsFollow, RestartsAreNewer, NEW w \in WorkerViews, InStep(ClientSeen, w),
         \/ notices' = notices
         \/ \E n \in Notice : notices' = Append(notices, n) /\ n.type \notin Weighty
         \/ notices # <<>> /\ notices' = Tail(notices) /\ Head(notices).type \notin Weighty,
         events' = events \/ \E e \in Event : events' = Append(events, e) /\ e.type = "Message"
  PROVE  InStep(ClientSeen', w) /\ OnlyRestartsFollow'
<1> DEFINE c == ClientSeen
           d == ClientSeen'
<1>1. c \in ClientViews /\ d \in ClientViews /\ Unmoved(c, d) /\ InStep(c, w)
  BY SeenAtWork
<1>2. /\ \A x \in d.due : x \in c.due \/ x.type = "Message"
      /\ \A x \in c.due : x \in d.due
  BY SeenAtWork DEF Sent
<1>3. /\ \A x \in d.told : x \in c.told \/ x.type \notin Weighty
      /\ \A x \in c.told : x \in d.told \/ x.type \notin Weighty
  BY SeenAtWork, SeenParts, ToldCarries DEF Taken
<1> HIDE DEF c, d
<1>4. InStep(d, w)
  BY <1>1, <1>2, <1>3, NothingWeighty DEF Unmoved
<1>5. OnlyRestartsFollow'
  BY OnlyRestartsStillFollow DEF Weighty
<1> QED
  BY <1>4, <1>5 DEF d
=============================================================================
