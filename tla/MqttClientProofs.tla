--------------------------- MODULE MqttClientProofs ---------------------------
(***************************************************************************)
(* The safety of the client, for any number of threads, either kind of     *)
(* mutex, any callbacks and any fault: IInv is an inductive invariant.     *)
(* Then what the client does with the packets it receives: it gives the    *)
(* application no data after a disconnection, and waits for no answer that *)
(* is not on its way.  Both need the wire, which IInv says little about.   *)
(***************************************************************************)
EXTENDS MqttClient, SequenceTheorems, TLAPS

-------------------------------------------------------------------------------
(***************************************************************************)
(* The socket and the broker's side: their type, and what the calls of the *)
(* client and the steps of the environment do to the connection.           *)
(***************************************************************************)

\* Some of the packets are taken, to their end or not.
Takes == \E k : TakeUpTo(k)

\* What is left of the packets was there before.
LEMMA TakesFrom ==
    ASSUME LinkTypeOK, Takes
    PROVE  /\ rx' \in Seq(Packets)
           /\ rx' # <<>> => rx # <<>>
           /\ framed' = FALSE
           /\ UNCHANGED <<sock, partial, served, owed>>
<1>1. PICK k : TakeUpTo(k)
  BY DEF Takes
<1>2. rx \in Seq(Packets) /\ Len(rx) \in Nat /\ k \in 1..Len(rx) + 1
  BY <1>1 DEF LinkTypeOK, TakeUpTo
<1>3. k \in Int /\ Len(rx) \in Int /\ \A i \in k..Len(rx) : rx[i] \in Packets
  BY <1>2
<1>4. rx' \in Seq(Packets)
  BY <1>1, <1>3, SubSeqProperties DEF TakeUpTo
<1>5. rx = <<>> => rx' = <<>>
  <2> SUFFICES ASSUME rx = <<>> PROVE rx' = <<>>
    OBVIOUS
  <2>1. Len(rx) = 0
    OBVIOUS
  <2>2. Len(rx) < k
    BY <1>2, <2>1
  <2> QED
    BY <1>1, <1>3, <2>2, SubSeqEmpty DEF TakeUpTo
<1> QED
  BY <1>1, <1>4, <1>5 DEF TakeUpTo

\* Every call of the client keeps the type (socket/posix/mqtt_socket_posix.c).
LEMMA CallsKeepType ==
    ASSUME SocketAssumption, LinkTypeOK
    PROVE  /\ \A opened \in BOOLEAN : OpenSocket(opened) => LinkTypeOK'
           /\ ConnectSocket => LinkTypeOK'
           /\ CloseSocket => LinkTypeOK'
           /\ \A a \in Answers : Transmit(a) => LinkTypeOK'
           /\ TransmitOnly => LinkTypeOK'
           /\ Consume \/ ConsumePart => LinkTypeOK'
           /\ Takes => LinkTypeOK'
<1>e. /\ <<>> \in Seq(Packets)
      /\ NoneOwed \in [Answers -> 0..MaxOwed]
  BY DEF SocketAssumption, NoneOwed
<1>1. ASSUME NEW opened \in BOOLEAN, OpenSocket(opened) PROVE LinkTypeOK'
  BY <1>1, <1>e DEF OpenSocket, Emptied, LinkTypeOK
<1>2. ConnectSocket => LinkTypeOK'
  BY DEF ConnectSocket, LinkTypeOK
<1>3. CloseSocket => LinkTypeOK'
  BY <1>e DEF CloseSocket, Emptied, LinkTypeOK, linkVars
<1>4. ASSUME NEW a \in Answers, Transmit(a) PROVE LinkTypeOK'
  BY <1>4 DEF Transmit, LinkTypeOK, SocketAssumption
<1>5. TransmitOnly => LinkTypeOK'
  BY DEF TransmitOnly, LinkTypeOK, linkVars
<1>6. Consume => LinkTypeOK'
  <2> SUFFICES ASSUME Consume PROVE LinkTypeOK'
    OBVIOUS
  <2>1. Tail(rx) \in Seq(Packets)
    BY HeadTailProperties DEF Consume, CanRead, Arrived, LinkTypeOK
  <2> QED
    BY <2>1 DEF Consume, LinkTypeOK
<1>7. ConsumePart => LinkTypeOK'
  BY DEF ConsumePart, LinkTypeOK
<1>8. Takes => LinkTypeOK'
  BY TakesFrom DEF LinkTypeOK
<1> QED
  BY <1>1, <1>2, <1>3, <1>4, <1>5, <1>6, <1>7, <1>8

\* So does every step of the broker and of the network.
LEMMA EnvironmentKeepsType ==
    ASSUME SocketAssumption, LinkTypeOK, Environment
    PROVE  LinkTypeOK'
<1>n. NoneOwed \in [Answers -> 0..MaxOwed]
  BY DEF SocketAssumption, NoneOwed
<1>a. ASSUME NEW p \in Packets PROVE Append(rx, p) \in Seq(Packets)
  BY AppendProperties DEF LinkTypeOK
<1>b. ASSUME NEW p \in Packets, Arrives(p)
      PROVE  /\ UNCHANGED <<sock, framed>>
             /\ rx' \in Seq(Packets) /\ partial' \in BOOLEAN
  BY <1>a, <1>b DEF Arrives
<1>1. CASE BrokerAnswers
  <2>0. PICK a \in Answers : \E c \in Arguments(a) :
          /\ owed[a] > 0
          /\ Arrives(Answer(a, c))
          /\ owed' = [owed EXCEPT ![a] = @ - 1]
          /\ served' = (served \/ (a = "CONNACK" /\ c = 0))
    BY <1>1 DEF BrokerAnswers
  <2>1. PICK c \in Arguments(a) :
          /\ owed[a] > 0
          /\ Arrives(Answer(a, c))
          /\ owed' = [owed EXCEPT ![a] = @ - 1]
          /\ served' = (served \/ (a = "CONNACK" /\ c = 0))
    BY <2>0
  <2>2. Answer(a, c) \in Packets
    BY DEF SocketAssumption, Arguments, Answer, Packets
  <2>3. UNCHANGED <<sock, framed>> /\ rx' \in Seq(Packets) /\ partial' \in BOOLEAN
    BY <1>b, <2>1, <2>2
  <2>5. served' \in BOOLEAN
    BY <2>1
  <2>4. owed' \in [Answers -> 0..MaxOwed]
    BY <2>1 DEF LinkTypeOK, SocketAssumption
  <2> QED
    BY <2>3, <2>4, <2>5 DEF LinkTypeOK
<1>2. CASE BrokerPublishes
  <2>1. PICK p \in Publications : Arrives(p) /\ UNCHANGED <<owed, served>>
    BY <1>2 DEF BrokerPublishes
  <2>2. p \in Packets
    BY DEF SocketAssumption
  <2>3. UNCHANGED <<sock, framed>> /\ rx' \in Seq(Packets) /\ partial' \in BOOLEAN
    BY <1>b, <2>1, <2>2
  <2> QED
    BY <2>1, <2>3 DEF LinkTypeOK
<1>3. CASE BrokerCompletes
  BY <1>3 DEF BrokerCompletes, LinkTypeOK
<1>4. CASE BrokerCloses
  BY <1>4, <1>n DEF BrokerCloses, LinkTypeOK
<1>5. CASE NetworkResets
  <2>e. <<>> \in Seq(Packets)
    OBVIOUS
  <2>1. rx' \in Seq(Packets) /\ partial' \in BOOLEAN
    BY <1>5, <2>e DEF NetworkResets, LinkTypeOK
  <2> QED
    BY <1>5, <1>n, <2>1 DEF NetworkResets, LinkTypeOK
<1> QED
  BY <1>1, <1>2, <1>3, <1>4, <1>5 DEF Environment

\* A closed socket is not connected; nothing but ConnectSocket connects one;
\* nothing but OpenSocket gives a fresh one.
LEMMA CallsMoveSocket ==
    ASSUME LinkTypeOK
    PROVE  /\ CloseSocket => ~Connected' /\ (sock' = "fresh" <=> sock = "fresh")
           /\ \A a \in Answers : Transmit(a) => UNCHANGED sock
           /\ TransmitOnly \/ Consume \/ ConsumePart \/ Takes => UNCHANGED sock
           /\ Environment => /\ sock = "fresh" <=> sock' = "fresh"
                             /\ sock \in {"up", "eof", "reset"} <=> sock' \in {"up", "eof", "reset"}
                             /\ Connected' => Connected
<1>1. CloseSocket => ~Connected' /\ (sock' = "fresh" <=> sock = "fresh")
  BY DEF CloseSocket, Connected, linkVars
<1>2. \A a \in Answers : Transmit(a) => UNCHANGED sock
  BY DEF Transmit
<1>3. TransmitOnly \/ Consume \/ ConsumePart \/ Takes => UNCHANGED sock
  BY TakesFrom DEF TransmitOnly, Consume, ConsumePart, linkVars
<1>4. Environment => /\ sock = "fresh" <=> sock' = "fresh"
                     /\ sock \in {"up", "eof", "reset"} <=> sock' \in {"up", "eof", "reset"}
                     /\ Connected' => Connected
  <2>1. BrokerAnswers => UNCHANGED sock
    BY DEF BrokerAnswers, Arrives
  <2>2. BrokerPublishes => UNCHANGED sock
    BY DEF BrokerPublishes, Arrives
  <2> QED
    BY <2>1, <2>2 DEF Environment, BrokerCompletes, BrokerCloses, NetworkResets, Connected
<1> QED
  BY <1>1, <1>2, <1>3, <1>4

-------------------------------------------------------------------------------
(***************************************************************************)
(* The type.                                                               *)
(***************************************************************************)

LEMMA TypeInit == ASSUME ClientAssumption, SocketAssumption, Init PROVE TypeOK
<1>1. LinkTypeOK
  <2>1. <<>> \in Seq(Packets) /\ NoneOwed \in [Answers -> 0..MaxOwed]
    BY DEF SocketAssumption, NoneOwed
  <2> QED
    BY <2>1 DEF Init, LinkInit, LinkTypeOK
<1>2. note \in Notes
  BY DEF Init, Notes
<1>3. packet_id \in 0..PacketIdMod - 1 /\ topic_size \in 0..MaxTopic /\ nest \in 0..MaxNest
  BY DEF Init, ClientAssumption
<1>4. pc \in [Threads -> Pcs]
  BY DEF Init, Pcs
<1>5. ClientTypeOK
  BY <1>2, <1>3, <1>4 DEF Init, ClientTypeOK, States
<1> QED
  BY <1>1, <1>5 DEF TypeOK

\* The counter, the notifications and the program counters stay in their types.
LEMMA SmallTypes ==
    ASSUME ClientAssumption, ClientTypeOK
    PROVE  /\ NextPacketId => packet_id' \in 0..PacketIdMod - 1
           /\ \A k \in {"connect_ok", "connect_fail", "lost", "closed"} :
                Notify(k) => note' \in Notes
           /\ \A t \in Threads, p \in Pcs :
                pc' = [pc EXCEPT ![t] = p] => pc' \in [Threads -> Pcs]
<1>1. NextPacketId => packet_id' \in 0..PacketIdMod - 1
  BY DEF NextPacketId, ClientTypeOK, ClientAssumption
<1>2. ASSUME NEW k \in {"connect_ok", "connect_fail", "lost", "closed"}, Notify(k)
      PROVE  note' \in Notes
  <2>1. 1 - note.bit \in {0, 1}
    BY DEF ClientTypeOK, Notes
  <2> QED
    BY <1>2, <2>1 DEF Notify, Notes
<1>3. ASSUME NEW t \in Threads, NEW p \in Pcs, pc' = [pc EXCEPT ![t] = p]
      PROVE  pc' \in [Threads -> Pcs]
  BY <1>3 DEF ClientTypeOK
<1> QED
  BY <1>1, <1>2, <1>3

\* The task takes packets it misreads, or closes the socket.
LEMMA MisreadTakes ==
    ASSUME TaskMisreads
    PROVE  Takes \/ (CloseSocket /\ TaskStraysIntoEnd)
<1>1. TakesSome => Takes
  BY DEF TakesSome, Takes
<1> QED
  BY <1>1
     DEF TaskMisreads, TaskReadsBeyond, TaskStraysIntoPublish, TaskStraysIntoSuback,
         TaskStraysIntoAnswer, TaskStraysIntoEnd, Takes

\* What the actions do to the socket is one of the calls of MqttSocket.
LEMMA LinkStep == ASSUME SocketAssumption, LinkTypeOK, Next PROVE LinkTypeOK'
<1>u. UNCHANGED linkVars => LinkTypeOK'
  BY DEF linkVars, LinkTypeOK
<1>f. Finish => LinkTypeOK'
  BY CallsKeepType DEF Finish
<1>l. ASSUME NEW t \in Threads, LosesConnection(t) PROVE LinkTypeOK'
  BY <1>l, CallsKeepType DEF LosesConnection
<1>1. CASE MqttClientInit
  BY <1>1, CallsKeepType DEF MqttClientInit
<1>2. ASSUME NEW t \in Threads, Api(t) PROVE LinkTypeOK'
  <2>1. CASE SetIdentity(t)
    BY <2>1, <1>u DEF SetIdentity
  <2>2. CASE SetKeepalive(t)
    BY <2>2, <1>u DEF SetKeepalive
  <2>3. CASE Connect(t)
    BY <2>3, CallsKeepType DEF Connect
  <2>4. CASE Disconnect(t)
    BY <2>4, CallsKeepType DEF Disconnect
  <2>5. ASSUME NEW op, NEW a \in Answers, Request(t, op, a) PROVE LinkTypeOK'
    BY <2>5, <1>l, CallsKeepType DEF Request
  <2>6. "SUBACK" \in Answers /\ "UNSUBACK" \in Answers /\ "PUBACK" \in Answers
    BY DEF Answers
  <2>7. CASE Publish(t)
    BY <2>6, <2>7, <1>l, CallsKeepType DEF Publish
  <2> QED
    BY <1>2, <2>1, <2>2, <2>3, <2>4, <2>5, <2>6, <2>7 DEF Api, Subscribe, Unsubscribe
<1>3. ASSUME NEW t \in Threads, BlocksOnItself(t) \/ ReturnFromCallback(t)
      PROVE  LinkTypeOK'
  BY <1>3, <1>u, <1>f
     DEF BlocksOnItself, ReturnFromCallback, ReturnsNested, ReturnsToBranch,
         ReturnsRefused, ReturnsFinal
<1>4. CASE TaskBegins
  <2>1. "CONNACK" \in Answers /\ "PINGRESP" \in Answers
    BY DEF Answers
  <2>2. CASE TaskPolls
    BY <2>1, <2>2, <1>u, CallsKeepType DEF TaskPolls
  <2> QED
    BY <1>4, <2>1, <2>2, <1>u, <1>f, CallsKeepType
       DEF TaskBegins, TaskSettles, TaskSendsConnect, TaskFailsToConnect
<1>5. CASE TaskSelects \/ TaskResumes
  BY <1>5, <1>u, <1>f
     DEF TaskSelects, TaskResumes, TaskStartsReading, TaskGivesUp, TaskFindsNothing
<1>6. CASE TaskReads
  BY <1>6, <1>u, <1>f, CallsKeepType
     DEF TaskReads, TaskFailsToRead, TaskFailsInPayload, TaskReadsConnack,
         TaskRefusesPublish, TaskReadsPublish, TaskReadsSuback, TaskReadsAnswer,
         TaskReadsOther
<1>9. CASE TaskMisreads
  BY <1>9, CallsKeepType, MisreadTakes DEF Finish
<1>7. CASE KeepaliveElapses \/ ResponseElapses
  BY <1>7, <1>u DEF KeepaliveElapses, ResponseElapses
<1>8. CASE World
  BY <1>8, EnvironmentKeepsType DEF World
<1> QED
  BY <1>1, <1>2, <1>3, <1>4, <1>5, <1>6, <1>7, <1>8, <1>9 DEF Next, MqttClientTask

\* A step of the client keeps the types of its variables.
LEMMA ClientStep ==
    ASSUME SocketAssumption, ClientAssumption, TypeOK, Next
    PROVE  ClientTypeOK'
<1> USE DEF setVars, timerVars, threadVars, pollVars
<1>t. LinkTypeOK /\ ClientTypeOK /\ Task \in Threads
  BY DEF TypeOK, Threads
<1>p. {"idle", "reading", "select", "relock", "cb_connected", "cb_refused", "cb_publish",
       "cb_suback", "cb_lost", "cb_final_connect", "cb_final_disconnect"} \subseteq Pcs
  BY DEF Pcs, Waiting, CallbackPcs
<1>s. {"DISCONNECTED", "NOT_INITIALIZED", "TCP_CONNECTING", "MQTT_CONNECTING",
       "MQTT_CONNECTED", "MQTT_DISCONNECTING"} \subseteq States
  BY DEF States
<1>n. ASSUME NEW s \in States \cup {InvalidState}, NotifyEnd(s)
      PROVE  /\ state' \in States \cup {InvalidState}
             /\ owner' \in Threads
             /\ pc' \in [Threads -> Pcs]
             /\ note' \in Notes
  BY <1>n, <1>t, <1>p, SmallTypes DEF NotifyEnd, EndKind, Runs
<1>f. ASSUME Finish
      PROVE  /\ state' \in States \cup {InvalidState}
             /\ owner' \in Threads
             /\ pc' \in [Threads -> Pcs]
             /\ note' \in Notes
  BY <1>f, <1>n, <1>t DEF Finish, ClientTypeOK
<1>g. ASSUME NEW n \in 0..MaxTopic, GivesMessage(n) PROVE ClientTypeOK'
  BY <1>g, <1>t, <1>p, SmallTypes DEF GivesMessage, Runs, ClientTypeOK
<1>l. ASSUME NEW t \in Threads, LosesConnection(t)
      PROVE  /\ owner' \in Threads \cup {NoThread}
             /\ pc' \in [Threads -> Pcs]
             /\ nest' \in 0..MaxNest
             /\ note' \in Notes
             /\ UNCHANGED <<state, packet_id, is_waiting_response, timerVars>>
  <2>1. nest < MaxNest => nest + 1 \in 0..MaxNest
    BY <1>t DEF ClientTypeOK, ClientAssumption
  <2> QED
    BY <1>l, <1>t, <1>p, <2>1, SmallTypes DEF LosesConnection, ClientTypeOK
<1>1. CASE MqttClientInit
  <2>1. state' \in States
    BY <1>1, <1>s DEF MqttClientInit
  <2>2. packet_id' \in 0..PacketIdMod - 1 /\ topic_size' \in 0..MaxTopic
    BY <1>1 DEF MqttClientInit, ClientAssumption
  <2> QED
    BY <1>1, <1>t, <2>1, <2>2 DEF MqttClientInit, ClientTypeOK
<1>2. ASSUME NEW t \in Threads, Api(t) PROVE ClientTypeOK'
  <2>1. CASE SetIdentity(t)
    BY <2>1, <1>t DEF SetIdentity, ClientTypeOK, ClientAssumption
  <2>2. CASE SetKeepalive(t)
    BY <2>2, <1>t DEF SetKeepalive, ClientTypeOK, ClientAssumption
  <2>3. CASE Connect(t)
    BY <2>3, <1>t, <1>s DEF Connect, ClientTypeOK
  <2>4. CASE Disconnect(t)
    BY <2>4, <1>t, <1>s DEF Disconnect, ClientTypeOK
  <2>5. ASSUME NEW op, NEW a, Request(t, op, a) PROVE ClientTypeOK'
    BY <2>5, <1>t, <1>l, SmallTypes, ZenonT(30) DEF Request, ClientTypeOK
  <2>6. CASE Publish(t)
    BY <2>6, <1>t, <1>l, SmallTypes, ZenonT(30) DEF Publish, ClientTypeOK
  <2> QED
    BY <1>2, <2>1, <2>2, <2>3, <2>4, <2>5, <2>6 DEF Api, Subscribe, Unsubscribe
<1>3. ASSUME NEW t \in Threads, BlocksOnItself(t) PROVE ClientTypeOK'
  BY <1>3, <1>t DEF BlocksOnItself, ClientTypeOK
<1>4. ASSUME NEW t \in Threads, ReturnFromCallback(t) PROVE ClientTypeOK'
  <2>1. CASE ReturnsNested(t)
    <3>1. nest - 1 \in 0..MaxNest
      BY <2>1, <1>t DEF ReturnsNested, ClientTypeOK, ClientAssumption
    <3> QED
      BY <2>1, <3>1, <1>t, <1>s, SmallTypes DEF ReturnsNested, AfterLost, ClientTypeOK
  <2>2. CASE ReturnsToBranch(t)
    <3>1. is_waiting_response' \in BOOLEAN
      BY <2>2 DEF ReturnsToBranch, EndsWait
    <3> QED
      BY <2>2, <3>1, <1>t, <1>p, SmallTypes DEF ReturnsToBranch, Release, ClientTypeOK
  <2>3. CASE ReturnsRefused(t)
    BY <2>3, <1>t, <1>f DEF ReturnsRefused, ClientTypeOK
  <2>4. CASE ReturnsFinal(t)
    BY <2>4, <1>t, <1>p, <1>s, SmallTypes
       DEF ReturnsFinal, AfterLost, Release, ClientTypeOK
  <2> QED
    BY <1>4, <2>1, <2>2, <2>3, <2>4 DEF ReturnFromCallback
<1>5. CASE TaskBegins
  <2>1. CASE TaskSettles
    BY <2>1, <1>t, <1>s DEF TaskSettles, ClientTypeOK
  <2>2. CASE TaskSendsConnect
    BY <2>2, <1>t, <1>s DEF TaskSendsConnect, ClientTypeOK
  <2>3. CASE TaskFailsToConnect
    BY <2>3, <1>t, <1>f DEF TaskFailsToConnect, ClientTypeOK
  <2>4. CASE TaskPolls
    BY <2>4, <1>t, <1>p, SmallTypes, ZenonT(30) DEF TaskPolls, ClientTypeOK
  <2> QED
    BY <1>5, <2>1, <2>2, <2>3, <2>4 DEF TaskBegins
<1>6. CASE TaskSelects
  BY <1>6, <1>t, <1>p, SmallTypes DEF TaskSelects, SelectResults, ClientTypeOK
<1>7. CASE TaskResumes
  <2>1. CASE TaskStartsReading
    BY <2>1, <1>t, <1>p, SmallTypes DEF TaskStartsReading, Runs, ClientTypeOK
  <2>2. CASE TaskGivesUp
    BY <2>2, <1>t, <1>f DEF TaskGivesUp, ClientTypeOK
  <2>3. CASE TaskFindsNothing
    BY <2>3, <1>t, <1>p, SmallTypes DEF TaskFindsNothing, Release, ClientTypeOK
  <2> QED
    BY <1>7, <2>1, <2>2, <2>3 DEF TaskResumes
<1>8. CASE TaskReads
  <2>1. CASE TaskFailsToRead
    BY <2>1, <1>t, <1>f DEF TaskFailsToRead, ClientTypeOK
  <2>2. CASE TaskReadsConnack
    BY <2>2, <1>t, <1>p, <1>s, SmallTypes DEF TaskReadsConnack, Runs, ClientTypeOK
  <2>3. CASE TaskReadsPublish \/ TaskRefusesPublish
    <3>1. Head(rx) \in Packets
      BY <2>3, <1>t, HeadTailProperties
         DEF TaskReadsPublish, TaskRefusesPublish, ReadsPacket, CanRead, PublishArrived,
             Arrived, LinkTypeOK
    <3>2. Head(rx).arg \in Nat
      BY <3>1 DEF Packets
    <3>3. AcceptsPublish(Head(rx)) => Head(rx).arg \in 0..MaxTopic
      BY <3>2, <1>t DEF AcceptsPublish, AcceptsTopic, ClientTypeOK, ClientAssumption
    <3>4. CASE TaskReadsPublish
      BY <3>3, <3>4, <1>g DEF TaskReadsPublish
    <3>5. CASE TaskRefusesPublish
      <4>1. topic_size' \in 0..MaxTopic
        BY <3>3, <3>5, <1>t DEF TaskRefusesPublish, ClientTypeOK
      <4> QED
        BY <3>5, <4>1, <1>t, <1>f DEF TaskRefusesPublish, ClientTypeOK
    <3> QED
      BY <2>3, <3>4, <3>5
  <2>4. CASE TaskReadsSuback
    <3>1. /\ state' \in States \cup {InvalidState}
          /\ owner' \in Threads
          /\ pc' \in [Threads -> Pcs]
          /\ note' \in Notes
      BY <2>4, <1>t, <1>p, <1>f, SmallTypes DEF TaskReadsSuback, Runs, ClientTypeOK
    <3> QED
      BY <2>4, <3>1, <1>t DEF TaskReadsSuback, ClientTypeOK
  <2>5. CASE TaskReadsAnswer
    BY <2>5, <1>t, <1>p, SmallTypes DEF TaskReadsAnswer, Release, ClientTypeOK
  <2>6. CASE TaskReadsOther
    BY <2>6, <1>t, <1>n DEF TaskReadsOther, ClientTypeOK
  <2>7. CASE TaskFailsInPayload
    <3>1. Head(rx) \in Packets
      BY <2>7, <1>t, HeadTailProperties DEF TaskFailsInPayload, LinkTypeOK
    <3>2. Head(rx).arg \in Nat
      BY <3>1 DEF Packets
    <3>3. topic_size' \in 0..MaxTopic
      BY <2>7, <3>2, <1>t DEF TaskFailsInPayload, ClientTypeOK, ClientAssumption
    <3>4. /\ state' \in States \cup {InvalidState}
          /\ owner' \in Threads
          /\ pc' \in [Threads -> Pcs]
          /\ note' \in Notes
      BY <2>7, <1>t, <1>p, <1>f, SmallTypes DEF TaskFailsInPayload, Runs, ClientTypeOK
    <3>5. is_waiting_response' \in BOOLEAN
      BY <2>7, <1>t DEF TaskFailsInPayload, ClientTypeOK
    <3> QED
      BY <2>7, <3>3, <3>4, <3>5, <1>t DEF TaskFailsInPayload, ClientTypeOK
  <2> QED
    BY <1>8, <2>1, <2>2, <2>3, <2>4, <2>5, <2>6, <2>7 DEF TaskReads
<1>11. CASE TaskMisreads
  <2>1. CASE TaskReadsBeyond
    <3>1. Head(rx) \in Packets
      BY <2>1, <1>t, HeadTailProperties
         DEF TaskReadsBeyond, PublishArrived, Arrived, LinkTypeOK
    <3>2. Head(rx).arg \in 0..MaxTopic
      BY <2>1, <3>1, <1>t
         DEF TaskReadsBeyond, Packets, AcceptsPublish, AcceptsTopic, ClientTypeOK,
             ClientAssumption
    <3> QED
      BY <2>1, <3>2, <1>g DEF TaskReadsBeyond
  <2>2. CASE TaskStraysIntoPublish
    <3>1. PICK n \in 0..topic_size : GivesMessage(n)
      BY <2>2 DEF TaskStraysIntoPublish
    <3>2. n \in 0..MaxTopic
      BY <1>t DEF ClientTypeOK, ClientAssumption
    <3> QED
      BY <3>1, <3>2, <1>g
  <2>3. CASE TaskStraysIntoSuback
    BY <2>3, <1>t, <1>p, SmallTypes DEF TaskStraysIntoSuback, Runs, ClientTypeOK
  <2>4. CASE TaskStraysIntoAnswer
    BY <2>4, <1>t, <1>p, SmallTypes DEF TaskStraysIntoAnswer, Release, ClientTypeOK
  <2>5. CASE TaskStraysIntoEnd
    <3>1. PICK s \in States \cup {InvalidState} : NotifyEnd(s)
      BY <2>5, <1>t DEF TaskStraysIntoEnd, ClientTypeOK
    <3>2. topic_size' \in 0..MaxTopic
      BY <2>5, <1>t DEF TaskStraysIntoEnd, ClientTypeOK, ClientAssumption
    <3>3. is_waiting_response' \in BOOLEAN
      BY <2>5, <1>t DEF TaskStraysIntoEnd, ClientTypeOK
    <3> QED
      BY <2>5, <3>1, <3>2, <3>3, <1>t, <1>n DEF TaskStraysIntoEnd, ClientTypeOK
  <2> QED
    BY <1>11, <2>1, <2>2, <2>3, <2>4, <2>5 DEF TaskMisreads
<1>9. CASE KeepaliveElapses \/ ResponseElapses
  <2>1. UNCHANGED <<state, packet_id, is_waiting_response, topic_size, identity, keepalive,
                    owner, pc, nest, stuck, branch, polled, note>>
    BY <1>9 DEF KeepaliveElapses, ResponseElapses, clientVars
  <2>2. /\ keepalive_expired' \in BOOLEAN
        /\ response_expired' \in BOOLEAN
    BY <1>9, <1>t DEF KeepaliveElapses, ResponseElapses, ClientTypeOK
  <2> QED
    BY <2>1, <2>2, <1>t DEF ClientTypeOK
<1>10. CASE World
  <2>1. UNCHANGED <<state, packet_id, is_waiting_response, topic_size, identity, keepalive,
                    keepalive_expired, response_expired, owner, pc, nest, stuck, branch,
                    polled, note>>
    BY <1>10 DEF World, clientVars
  <2> QED
    BY <2>1, <1>t DEF ClientTypeOK
<1> QED
  BY <1>1, <1>2, <1>3, <1>4, <1>5, <1>6, <1>7, <1>8, <1>9, <1>10, <1>11
     DEF Next, MqttClientTask

\* The type invariant, for every value of the constants.
THEOREM TypeCorrect == Spec => []TypeOK
<1>1. Init => TypeOK
  BY TypeInit, SocketAssumption, ClientAssumption
<1>2. TypeOK /\ [Next]_vars => TypeOK'
  <2> SUFFICES ASSUME TypeOK, [Next]_vars PROVE TypeOK'
    OBVIOUS
  <2>1. CASE Next
    BY <2>1, LinkStep, ClientStep, SocketAssumption, ClientAssumption DEF TypeOK
  <2>2. CASE UNCHANGED vars
    BY <2>2 DEF vars, linkVars, setVars, timerVars, threadVars, pollVars, TypeOK,
                LinkTypeOK, ClientTypeOK
  <2> QED
    BY <2>1, <2>2
<1> QED
  BY <1>1, <1>2, PTL DEF Spec

-------------------------------------------------------------------------------
(***************************************************************************)
(* The mutex.                                                              *)
(***************************************************************************)

\* A free mutex, and one the task reads with, has no callback under it.
LEMMA NobodyUnder ==
    ASSUME ClientAssumption, ClientTypeOK, LockDiscipline
    PROVE  owner = NoThread \/ pc[Task] = "reading" => nest = 0 /\ ~stuck
<1> SUFFICES ASSUME owner = NoThread \/ pc[Task] = "reading", nest > 0 \/ stuck
             PROVE  FALSE
  BY DEF ClientTypeOK, ClientAssumption
<1>1. PICK t \in Threads : pc[t] \in CallbackPcs
  BY DEF LockDiscipline
<1>2. owner = t
  BY <1>1 DEF LockDiscipline, Holding
<1>3. t # NoThread
  BY DEF ClientAssumption
<1>4. pc[Task] = "reading"
  BY <1>2, <1>3
<1>5. owner = Task
  BY <1>4 DEF LockDiscipline, Holding, Threads
<1> QED
  BY <1>1, <1>2, <1>4, <1>5 DEF CallbackPcs

\* The steps that read are steps of the reader.
LEMMA ReadsInReader == ASSUME TaskReads \/ TaskMisreads PROVE pc[Task] = "reading"
<1>1. TaskReads => pc[Task] = "reading"
  BY DEF TaskReads, TaskFailsToRead, TaskFailsInPayload, TaskReadsConnack,
         TaskRefusesPublish, PublishArrived, TaskReadsPublish, TaskReadsSuback,
         TaskReadsAnswer, TaskReadsOther, ReadsPacket, Reads
<1>2. TaskMisreads => pc[Task] = "reading"
  BY DEF TaskMisreads, TaskReadsBeyond, TaskStraysIntoPublish, TaskStraysIntoSuback,
         TaskStraysIntoAnswer, TaskStraysIntoEnd, PublishArrived, Strays, Reads
<1> QED
  BY <1>1, <1>2

\* The part of LockDiscipline that a step which leaves the mutex, the program
\* counters, the nesting and the flag alone cannot disturb.
LEMMA LockKept ==
    ASSUME LockDiscipline, UNCHANGED threadVars, branch' = branch
    PROVE  LockDiscipline'
  BY DEF LockDiscipline, threadVars

\* A thread that has the mutex, or finds it free, runs a callback or reads.
LEMMA LockTaken ==
    ASSUME ClientAssumption, ClientTypeOK, LockDiscipline,
           NEW t \in Threads, NEW p \in Holding, Runs(t, p),
           owner = NoThread \/ owner = t,
           t \in AppThreads => p = "cb_lost",
           nest = 0, ~stuck, UNCHANGED <<nest, stuck, branch>>
    PROVE  LockDiscipline'
<1>1. pc' \in [Threads -> Pcs] /\ pc'[t] = p /\ owner' = t
  BY DEF Runs, ClientTypeOK, Holding, Pcs
<1>2. \A u \in Threads : u # t => pc'[u] = pc[u] /\ pc[u] \notin Holding
  BY DEF Runs, ClientTypeOK, LockDiscipline, ClientAssumption
<1>3. \A u \in Threads : owner' = u <=> pc'[u] \in Holding
  BY <1>1, <1>2
<1>4. \A u \in AppThreads : pc'[u] \in {"idle", "cb_lost"}
  BY <1>1, <1>2 DEF LockDiscipline, Threads
<1>5. pc'[Task] \in Waiting => branch' # "none"
  BY <1>1, <1>2 DEF LockDiscipline, Threads, Waiting, Holding, CallbackPcs
<1> QED
  BY <1>3, <1>4, <1>5 DEF LockDiscipline

\* A thread that has the mutex, or finds it free, ends its operation.
LEMMA LockGivenBack ==
    ASSUME ClientAssumption, ClientTypeOK, LockDiscipline,
           NEW t \in Threads, Release(t),
           owner = NoThread \/ owner = t,
           nest = 0, ~stuck, UNCHANGED <<nest, stuck, branch>>
    PROVE  LockDiscipline'
<1>1. pc' \in [Threads -> Pcs] /\ pc'[t] = "idle" /\ owner' = NoThread
  BY DEF Release, ClientTypeOK, Pcs
<1>2. \A u \in Threads : u # t => pc'[u] = pc[u] /\ pc[u] \notin Holding
  BY DEF Release, ClientTypeOK, LockDiscipline, ClientAssumption
<1>3. \A u \in Threads : owner' = u <=> pc'[u] \in Holding
  BY <1>1, <1>2 DEF ClientAssumption, Holding, CallbackPcs
<1>4. \A u \in AppThreads : pc'[u] \in {"idle", "cb_lost"}
  BY <1>1, <1>2 DEF LockDiscipline, Threads
<1>5. pc'[Task] \in Waiting => branch' # "none"
  BY <1>1, <1>2 DEF LockDiscipline, Threads, Waiting
<1> QED
  BY <1>3, <1>4, <1>5 DEF LockDiscipline

\* A call whose packet cannot be sent takes the mutex, or nests a callback.
LEMMA LockLost ==
    ASSUME ClientAssumption, ClientTypeOK, LockDiscipline,
           NEW t \in Threads, NEW op, Enters(t, op), LosesConnection(t),
           UNCHANGED <<stuck, branch>>
    PROVE  LockDiscipline'
<1>1. CASE owner = t
  <2>1. RecursiveMutex /\ pc[t] \in CallbackPcs
    BY <1>1 DEF Enters, InCallback, ClientAssumption
  <2>2. UNCHANGED <<owner, pc, stuck, branch>> /\ nest' = nest + 1
    BY <1>1 DEF LosesConnection
  <2> QED
    BY <2>1, <2>2 DEF LockDiscipline
<1>2. CASE owner # t
  <2>1. owner = NoThread
    BY <1>2 DEF Enters, InCallback
  <2>2. Runs(t, "cb_lost") /\ UNCHANGED nest
    BY <1>2 DEF LosesConnection, Runs
  <2>3. "cb_lost" \in Holding
    BY DEF Holding, CallbackPcs
  <2> QED
    BY <2>1, <2>2, <2>3, NobodyUnder, LockTaken
<1> QED
  BY <1>1, <1>2

\* The task ends a connection: it has the mutex or finds it free.
LEMMA LockEnds ==
    ASSUME ClientAssumption, ClientTypeOK, LockDiscipline,
           NEW s, NotifyEnd(s), owner = NoThread \/ owner = Task,
           nest = 0, ~stuck, UNCHANGED <<nest, stuck, branch>>
    PROVE  LockDiscipline'
<1>1. {"cb_final_connect", "cb_final_disconnect"} \subseteq Holding /\ Task \in Threads
  BY DEF Holding, CallbackPcs, Threads
<1>2. PICK p \in {"cb_final_connect", "cb_final_disconnect"} : Runs(Task, p)
  BY DEF NotifyEnd
<1>3. Task \notin AppThreads
  BY DEF ClientAssumption
<1> QED
  BY <1>1, <1>2, <1>3, LockTaken

LEMMA LockInit == ASSUME ClientAssumption, Init PROVE LockDiscipline
  BY DEF ClientAssumption, Init, LockDiscipline, Holding, CallbackPcs, Waiting, Threads

\* A step keeps the discipline.
LEMMA LockStep ==
    ASSUME ClientAssumption, TypeOK, LockDiscipline, Next
    PROVE  LockDiscipline'
<1> USE DEF threadVars, pollVars
<1>t. ClientTypeOK /\ Task \in Threads /\ Task \notin AppThreads
  BY DEF TypeOK, Threads, ClientAssumption
<1>r. pc[Task] = "reading" => owner = Task
  BY <1>t DEF LockDiscipline, Holding
<1>h. {"reading", "cb_connected", "cb_refused", "cb_publish", "cb_suback"} \subseteq Holding
  BY DEF Holding, CallbackPcs
<1>1. CASE MqttClientInit
  BY <1>1, LockKept DEF MqttClientInit
<1>2. ASSUME NEW t \in Threads, Api(t) PROVE LockDiscipline'
  <2>1. CASE SetIdentity(t) \/ SetKeepalive(t) \/ Connect(t) \/ Disconnect(t)
    BY <2>1, LockKept DEF SetIdentity, SetKeepalive, Connect, Disconnect
  <2>2. ASSUME NEW op, NEW a, Request(t, op, a) PROVE LockDiscipline'
    BY <2>2, <1>t, LockKept, LockLost DEF Request
  <2>3. CASE Publish(t)
    BY <2>3, <1>t, LockKept, LockLost DEF Publish
  <2> QED
    BY <1>2, <2>1, <2>2, <2>3 DEF Api, Subscribe, Unsubscribe
<1>3. ASSUME NEW t \in Threads, BlocksOnItself(t) PROVE LockDiscipline'
  BY <1>3 DEF BlocksOnItself, InCallback, LockDiscipline
<1>4. ASSUME NEW t \in Threads, ReturnFromCallback(t) PROVE LockDiscipline'
  <2>0. owner = t /\ ~stuck /\ pc[t] \in CallbackPcs
    BY <1>4 DEF ReturnFromCallback, ReturnsNested, ReturnsToBranch, ReturnsRefused,
                ReturnsFinal, InCallback
  <2>1. CASE ReturnsNested(t)
    BY <2>0, <2>1, <1>t DEF ReturnsNested, LockDiscipline, ClientTypeOK, ClientAssumption
  <2>2. CASE ReturnsToBranch(t)
    BY <2>0, <2>2, <1>t, LockGivenBack DEF ReturnsToBranch
  <2>3. CASE ReturnsRefused(t)
    <3>1. t = Task
      BY <2>3 DEF ReturnsRefused, LockDiscipline, Threads
    <3> QED
      BY <2>0, <2>3, <3>1, <1>t, LockEnds DEF ReturnsRefused, Finish
  <2>4. CASE ReturnsFinal(t)
    BY <2>0, <2>4, <1>t, LockGivenBack DEF ReturnsFinal
  <2> QED
    BY <1>4, <2>1, <2>2, <2>3, <2>4 DEF ReturnFromCallback
<1>5. CASE TaskBegins
  <2>1. CASE TaskSettles \/ TaskSendsConnect
    BY <2>1, LockKept DEF TaskSettles, TaskSendsConnect
  <2>2. CASE TaskFailsToConnect
    BY <2>2, <1>t, NobodyUnder, LockEnds DEF TaskFailsToConnect, TaskEnters, Finish
  <2>3. CASE TaskPolls
    <3>1. /\ pc' = [pc EXCEPT ![Task] = "select"]
          /\ branch' # "none"
          /\ owner = NoThread /\ nest = 0 /\ ~stuck
          /\ UNCHANGED <<owner, nest, stuck>>
      BY <2>3, <1>t, NobodyUnder DEF TaskPolls, TaskEnters
    <3>2. \A u \in Threads : pc[u] \notin Holding
      BY <3>1 DEF LockDiscipline, ClientAssumption
    <3>3. \A u \in Threads : pc'[u] \notin Holding
      BY <3>1, <3>2, <1>t DEF ClientTypeOK, Holding, CallbackPcs
    <3>4. \A u \in AppThreads : pc'[u] = pc[u]
      BY <3>1, <1>t DEF ClientTypeOK, Threads
    <3> QED
      BY <3>1, <3>3, <3>4 DEF LockDiscipline, ClientAssumption
  <2> QED
    BY <1>5, <2>1, <2>2, <2>3 DEF TaskBegins
<1>6. CASE TaskSelects
  <2>1. /\ pc[Task] = "select"
        /\ pc' = [pc EXCEPT ![Task] = "relock"]
        /\ UNCHANGED <<owner, nest, stuck, branch>>
    BY <1>6 DEF TaskSelects
  <2>2. \A u \in Threads : pc'[u] \in Holding <=> pc[u] \in Holding
    BY <2>1, <1>t DEF ClientTypeOK, Holding, CallbackPcs
  <2>3. \A u \in Threads : pc'[u] \in CallbackPcs <=> pc[u] \in CallbackPcs
    BY <2>1, <1>t DEF ClientTypeOK, CallbackPcs
  <2>4. \A u \in AppThreads : pc'[u] = pc[u]
    BY <2>1, <1>t DEF ClientTypeOK, Threads
  <2> QED
    BY <2>1, <2>2, <2>3, <2>4 DEF LockDiscipline, Waiting
<1>7. CASE TaskResumes
  <2>1. owner = NoThread /\ nest = 0 /\ ~stuck
    BY <1>7, <1>t, NobodyUnder
       DEF TaskResumes, TaskStartsReading, TaskGivesUp, TaskFindsNothing, TaskRelocks
  <2>2. CASE TaskStartsReading
    BY <2>1, <2>2, <1>t, <1>h, LockTaken DEF TaskStartsReading
  <2>3. CASE TaskGivesUp
    BY <2>1, <2>3, <1>t, LockEnds DEF TaskGivesUp, Finish
  <2>4. CASE TaskFindsNothing
    BY <2>1, <2>4, <1>t, LockGivenBack DEF TaskFindsNothing
  <2> QED
    BY <1>7, <2>2, <2>3, <2>4 DEF TaskResumes
<1>8. CASE TaskReads
  <2>1. owner = Task /\ nest = 0 /\ ~stuck
    BY <1>8, <1>t, <1>r, NobodyUnder, ReadsInReader
  <2>2. CASE TaskFailsToRead
    BY <2>1, <2>2, <1>t, LockEnds DEF TaskFailsToRead, Finish
  <2>3. CASE TaskReadsConnack
    BY <2>1, <2>3, <1>t, <1>h, LockTaken DEF TaskReadsConnack
  <2>4. CASE TaskReadsPublish
    BY <2>1, <2>4, <1>t, <1>h, LockTaken DEF TaskReadsPublish, GivesMessage
  <2>9. CASE TaskRefusesPublish
    BY <2>1, <2>9, <1>t, LockEnds DEF TaskRefusesPublish, Finish
  <2>5. CASE TaskReadsSuback
    BY <2>1, <2>5, <1>t, <1>h, LockTaken, LockEnds DEF TaskReadsSuback, Finish
  <2>6. CASE TaskReadsAnswer
    BY <2>1, <2>6, <1>t, LockGivenBack DEF TaskReadsAnswer
  <2>7. CASE TaskReadsOther
    BY <2>1, <2>7, <1>t, LockEnds DEF TaskReadsOther
  <2>8. CASE TaskFailsInPayload
    BY <2>1, <2>8, <1>t, <1>h, LockTaken, LockEnds DEF TaskFailsInPayload, Finish
  <2> QED
    BY <1>8, <2>2, <2>3, <2>4, <2>5, <2>6, <2>7, <2>8, <2>9 DEF TaskReads
<1>10. CASE TaskMisreads
  <2>1. owner = Task /\ nest = 0 /\ ~stuck
    BY <1>10, <1>t, <1>r, NobodyUnder, ReadsInReader
  <2>2. CASE TaskReadsBeyond \/ TaskStraysIntoPublish
    BY <2>1, <2>2, <1>t, <1>h, LockTaken
       DEF TaskReadsBeyond, TaskStraysIntoPublish, GivesMessage
  <2>3. CASE TaskStraysIntoSuback
    BY <2>1, <2>3, <1>t, <1>h, LockTaken DEF TaskStraysIntoSuback
  <2>4. CASE TaskStraysIntoAnswer
    BY <2>1, <2>4, <1>t, LockGivenBack DEF TaskStraysIntoAnswer
  <2>5. CASE TaskStraysIntoEnd
    BY <2>1, <2>5, <1>t, LockEnds DEF TaskStraysIntoEnd
  <2> QED
    BY <1>10, <2>2, <2>3, <2>4, <2>5 DEF TaskMisreads
<1>9. CASE KeepaliveElapses \/ ResponseElapses \/ World
  BY <1>9, LockKept DEF KeepaliveElapses, ResponseElapses, World, clientVars
<1> QED
  BY <1>1, <1>2, <1>3, <1>4, <1>5, <1>6, <1>7, <1>8, <1>9, <1>10 DEF Next, MqttClientTask

\* Mutual exclusion of the operations and of the callbacks, at any depth.
THEOREM MutexProtects == Spec => []LockDiscipline
<1>1. Init => LockDiscipline
  BY LockInit, ClientAssumption
<1>2. TypeOK /\ LockDiscipline /\ [Next]_vars => LockDiscipline'
  <2> SUFFICES ASSUME TypeOK, LockDiscipline, [Next]_vars PROVE LockDiscipline'
    OBVIOUS
  <2>1. CASE Next
    BY <2>1, LockStep, ClientAssumption
  <2>2. CASE UNCHANGED vars
    BY <2>2, LockKept DEF vars, threadVars, pollVars
  <2> QED
    BY <2>1, <2>2
<1> QED
  BY <1>1, <1>2, TypeCorrect, PTL DEF Spec

-------------------------------------------------------------------------------
(***************************************************************************)
(* The state, the socket and the case label.                               *)
(***************************************************************************)

Agreement == StateMatchesSocket /\ FreshIsQuiet /\ LossIsLate /\ BranchStaysValid

Final == {"cb_lost", "cb_final_connect", "cb_final_disconnect"}

\* Only the owner of the mutex can be telling an end.
LEMMA OwnerEnds ==
    ASSUME ClientAssumption, ClientTypeOK, LockDiscipline
    PROVE  /\ owner = NoThread \/ pc[Task] = "reading" =>
                ~Ending /\ \A t \in Threads : pc[t] \notin CallbackPcs
           /\ \A t \in Threads : owner = t =>
                /\ Ending <=> nest > 0 \/ pc[t] \in Final
                /\ \A u \in Threads : pc[u] \in CallbackPcs => u = t
<1>1. ASSUME owner = NoThread \/ pc[Task] = "reading", NEW t \in Threads
      PROVE  pc[t] \notin CallbackPcs
  <2>1. CASE owner = NoThread
    BY <2>1 DEF LockDiscipline, Holding, ClientAssumption
  <2>2. CASE pc[Task] = "reading"
    BY <2>2 DEF LockDiscipline, Holding, Threads, CallbackPcs
  <2> QED
    BY <1>1, <2>1, <2>2
<1>2. Final \subseteq CallbackPcs
  BY DEF Final, CallbackPcs
<1>3. ASSUME owner = NoThread \/ pc[Task] = "reading" PROVE ~Ending
  <2>1. nest = 0
    BY <1>3, NobodyUnder
  <2> QED
    BY <1>1, <1>2, <1>3, <2>1 DEF Ending, Final
<1>4. ASSUME NEW t \in Threads, owner = t, NEW u \in Threads, pc[u] \in CallbackPcs
      PROVE  u = t
  BY <1>4 DEF LockDiscipline, Holding
<1>5. ASSUME NEW t \in Threads, owner = t
      PROVE  Ending <=> nest > 0 \/ pc[t] \in Final
  BY <1>2, <1>4, <1>5 DEF Ending, Final
<1> QED
  BY <1>1, <1>3, <1>4, <1>5

\* A step that leaves the state, the threads and the label alone, and brings no
\* connection about.
LEMMA AgreementKept ==
    ASSUME Agreement, UNCHANGED <<state, owner, pc, nest, branch>>,
           sock' = "fresh" <=> sock = "fresh", Connected' => Connected,
           sock \in {"up", "eof", "reset"} <=> sock' \in {"up", "eof", "reset"}
    PROVE  Agreement'
  BY DEF Agreement, StateMatchesSocket, FreshIsQuiet, LossIsLate, BranchStaysValid,
         Ending, InBranch

\* The task ends a connection.
LEMMA AgreementEnds ==
    ASSUME ClientAssumption, ClientTypeOK, LockDiscipline, Agreement,
           NEW s, NotifyEnd(s), owner = NoThread \/ owner = Task,
           nest = 0, UNCHANGED <<nest, branch>>, ~Connected', sock' # "fresh"
    PROVE  Agreement'
<1>1. PICK p \in {"cb_final_connect", "cb_final_disconnect"} :
        pc' = [pc EXCEPT ![Task] = p] /\ owner' = Task
  BY DEF NotifyEnd, Runs
<1>2. pc'[Task] = p /\ \A u \in Threads : u # Task => pc'[u] = pc[u]
  BY <1>1 DEF ClientTypeOK, Threads
<1>3. Ending'
  BY <1>1, <1>2 DEF Ending, Threads
<1>4. \A u \in Threads : u # Task => pc[u] # "cb_lost"
  BY DEF LockDiscipline, ClientAssumption, Holding, CallbackPcs
<1>5. ~InBranch' /\ \A u \in Threads : pc'[u] # "cb_lost"
  BY <1>2, <1>4 DEF InBranch, Waiting
<1>6. nest' = 0
  OBVIOUS
<1> QED
  BY <1>3, <1>5, <1>6
     DEF Agreement, StateMatchesSocket, FreshIsQuiet, LossIsLate, BranchStaysValid

\* The task goes on, in a callback or out of its branch, with a socket and a
\* state that agree.
LEMMA AgreementGoesOn ==
    ASSUME ClientAssumption, ClientTypeOK, LockDiscipline, Agreement,
           owner = NoThread \/ owner = Task,
           NEW p \in Pcs \ Final, pc' = [pc EXCEPT ![Task] = p],
           nest = 0, UNCHANGED <<nest, branch, sock>>, pc[Task] \notin Final,
           sock # "fresh", p \notin {"select", "relock", "reading"},
           \/ UNCHANGED state
           \/ state' = "MQTT_CONNECTED" /\ state \in Active
           \/ state' = "DISCONNECTED" /\ state = "MQTT_DISCONNECTING"
    PROVE  Agreement'
<1>1. pc'[Task] = p /\ \A u \in Threads : u # Task => pc'[u] = pc[u]
  BY DEF ClientTypeOK, Threads
<1>2. \A u \in Threads : u # Task => pc[u] \notin Final
  BY DEF LockDiscipline, ClientAssumption, Holding, CallbackPcs, Final
<1>3. \A u \in Threads : pc[u] \notin Final /\ pc'[u] \notin Final
  BY <1>1, <1>2
<1>4. ~Ending /\ ~Ending'
  BY <1>3 DEF Ending, Final
<1>5. ~InBranch'
  BY <1>1 DEF InBranch, Waiting
<1>6. Connected' <=> Connected
  BY DEF Connected
<1>7. StateMatchesSocket'
  BY <1>4, <1>6 DEF Agreement, StateMatchesSocket, Active, InvalidState
<1>8. LossIsLate'
  BY <1>3 DEF LossIsLate, Final
<1> QED
  BY <1>5, <1>7, <1>8 DEF Agreement, FreshIsQuiet, BranchStaysValid

LEMMA AgreementInit == ASSUME Init PROVE Agreement
  BY DEF Init, LinkInit, Agreement, StateMatchesSocket, FreshIsQuiet, LossIsLate,
         BranchStaysValid, Ending, InBranch, Connected, Active, InvalidState, Waiting,
         Threads

\* The calls of the application.
LEMMA AgreementApi ==
    ASSUME ClientAssumption, TypeOK, LockDiscipline, LockDiscipline', Agreement,
           NEW t \in Threads, Api(t)
    PROVE  Agreement'
<1> USE DEF threadVars, pollVars, linkVars
<1>t. ClientTypeOK /\ LinkTypeOK /\ Task \in Threads
  BY DEF TypeOK, Threads
<1>k. ASSUME UNCHANGED <<state, owner, pc, nest, branch, sock>> PROVE Agreement'
  BY <1>k, AgreementKept DEF Connected
<1>1. CASE SetIdentity(t) \/ SetKeepalive(t)
  BY <1>1, <1>k DEF SetIdentity, SetKeepalive
<1>2. CASE Connect(t)
  <2>1. /\ sock = "fresh" /\ sock' = "up"
        /\ state' = "TCP_CONNECTING"
        /\ UNCHANGED <<owner, pc, nest, branch>>
    BY <1>2 DEF Connect, ConnectSocket
  <2>2. owner = NoThread /\ ~InBranch
    BY <2>1 DEF Agreement, FreshIsQuiet
  <2>3. nest = 0 /\ ~Ending /\ \A u \in Threads : pc[u] # "cb_lost"
    BY <2>2, <1>t, NobodyUnder, OwnerEnds DEF CallbackPcs
  <2> QED
    BY <2>1, <2>2, <2>3
       DEF Agreement, StateMatchesSocket, FreshIsQuiet, LossIsLate, BranchStaysValid,
           Ending, InBranch, Connected, Active, InvalidState
<1>3. CASE Disconnect(t)
  <2>1. /\ state = "MQTT_CONNECTED" /\ state' = "MQTT_DISCONNECTING"
        /\ UNCHANGED <<owner, pc, nest, branch>>
        /\ ~Connected' /\ (sock' = "fresh" <=> sock = "fresh")
    BY <1>3, <1>t, CallsMoveSocket DEF Disconnect
  <2> QED
    BY <2>1
       DEF Agreement, StateMatchesSocket, FreshIsQuiet, LossIsLate, BranchStaysValid,
           Ending, InBranch, Active, InvalidState
<1>4. ASSUME NEW op, Enters(t, op), LosesConnection(t), state = "MQTT_CONNECTED",
             UNCHANGED branch
      PROVE  Agreement'
  <2>1. /\ UNCHANGED state
        /\ ~Connected' /\ (sock' = "fresh" <=> sock = "fresh")
    BY <1>4, <1>t, CallsMoveSocket DEF LosesConnection
  <2>2. Ending' /\ (InBranch' <=> InBranch)
    <3>1. CASE owner = t
      BY <1>4, <3>1, <1>t
         DEF LosesConnection, Ending, InBranch, ClientTypeOK, ClientAssumption
    <3>2. CASE owner # t
      <4>1. pc' = [pc EXCEPT ![t] = "cb_lost"] /\ pc[t] = "idle"
        BY <1>4, <3>2 DEF LosesConnection, Enters, InCallback
      <4>2. pc'[t] = "cb_lost" /\ \A u \in Threads : u # t => pc'[u] = pc[u]
        BY <4>1, <1>t DEF ClientTypeOK
      <4> QED
        BY <4>1, <4>2, <1>t DEF Ending, InBranch, Waiting
    <3> QED
      BY <3>1, <3>2
  <2> QED
    BY <1>4, <2>1, <2>2
       DEF Agreement, StateMatchesSocket, FreshIsQuiet, LossIsLate, BranchStaysValid
<1>5. ASSUME NEW op, NEW a \in Answers, Request(t, op, a) PROVE Agreement'
  BY <1>5, <1>t, <1>k, <1>4, CallsMoveSocket DEF Request
<1>6. "SUBACK" \in Answers /\ "UNSUBACK" \in Answers /\ "PUBACK" \in Answers
  BY DEF Answers
<1>7. CASE Publish(t)
  <2>1. ASSUME ~LosesConnection(t) PROVE UNCHANGED sock
    BY <2>1, <1>7, <1>t, <1>6, CallsMoveSocket DEF Publish
  <2> QED
    BY <1>7, <2>1, <1>k, <1>4 DEF Publish
<1> QED
  BY <1>1, <1>2, <1>3, <1>5, <1>6, <1>7 DEF Api, Subscribe, Unsubscribe

\* The return of a callback.
LEMMA AgreementReturn ==
    ASSUME ClientAssumption, TypeOK, LockDiscipline, Agreement,
           NEW t \in Threads, ReturnFromCallback(t)
    PROVE  Agreement'
<1> USE DEF threadVars, pollVars, linkVars
<1>t. ClientTypeOK /\ LinkTypeOK /\ Task \in Threads
  BY DEF TypeOK, Threads
<1>o. owner = t /\ pc[t] \in CallbackPcs /\ owner # NoThread /\ sock # "fresh"
  BY DEF ReturnFromCallback, ReturnsNested, ReturnsToBranch, ReturnsRefused,
         ReturnsFinal, InCallback, Agreement, FreshIsQuiet, ClientAssumption
<1>e. /\ Ending <=> nest > 0 \/ pc[t] \in Final
      /\ \A u \in Threads : pc[u] \in CallbackPcs => u = t
  BY <1>o, <1>t, OwnerEnds
<1>b. pc[t] # "cb_lost" => t = Task
  BY <1>o DEF LockDiscipline, Threads, CallbackPcs
<1>1. CASE ReturnsNested(t)
  <2>1. /\ nest > 0 /\ state' = "DISCONNECTED"
        /\ UNCHANGED <<sock, owner, pc, branch>>
    BY <1>1 DEF ReturnsNested, AfterLost
  <2>2. ~Connected'
    BY <2>1, <1>e DEF Agreement, StateMatchesSocket, Connected
  <2> QED
    BY <2>1, <2>2, <1>o
       DEF Agreement, StateMatchesSocket, FreshIsQuiet, LossIsLate, BranchStaysValid,
           InBranch, Active, InvalidState
<1>2. CASE ReturnsToBranch(t)
  <2>1. /\ nest = 0 /\ pc[t] \in {"cb_connected", "cb_suback", "cb_publish"}
        /\ UNCHANGED <<state, sock, nest, branch>>
        /\ pc' = [pc EXCEPT ![t] = "idle"]
    BY <1>2 DEF ReturnsToBranch, Release
  <2>2. t = Task /\ pc[Task] \notin Final /\ "idle" \in Pcs \ Final
    BY <2>1, <1>b DEF Final, Pcs
  <2> QED
    BY <2>1, <2>2, <1>t, <1>o, AgreementGoesOn
<1>3. CASE ReturnsRefused(t)
  <2>1. t = Task /\ nest = 0 /\ UNCHANGED <<nest, branch>> /\ Finish
    BY <1>3, <1>b DEF ReturnsRefused
  <2> QED
    BY <2>1, <1>t, <1>o, CallsMoveSocket, AgreementEnds DEF Finish
<1>4. CASE ReturnsFinal(t)
  <2>1. /\ nest = 0 /\ nest' = 0 /\ pc[t] \in Final /\ state' = "DISCONNECTED"
        /\ UNCHANGED <<sock, branch>>
        /\ pc' = [pc EXCEPT ![t] = "idle"]
    BY <1>4 DEF ReturnsFinal, AfterLost, Release, Final
  <2>2. ~Connected'
    BY <2>1, <1>e DEF Agreement, StateMatchesSocket, Connected
  <2>3. pc'[t] = "idle" /\ \A u \in Threads : u # t => pc'[u] = pc[u] /\ pc[u] \notin CallbackPcs
    BY <2>1, <1>t, <1>e DEF ClientTypeOK
  <2>4. \A u \in Threads : pc'[u] # "cb_lost"
    BY <2>3 DEF CallbackPcs
  <2>5. InBranch' => InBranch /\ t # Task
    BY <2>3, <1>t DEF InBranch, Waiting
  <2>6. InBranch' => branch' = "MQTT_CONNECTED"
    <3> SUFFICES ASSUME InBranch' PROVE branch = "MQTT_CONNECTED"
      BY <2>1
    <3>1. state \in {"MQTT_CONNECTED", "MQTT_DISCONNECTING", "DISCONNECTED"}
      BY <2>5, <1>b DEF Agreement, LossIsLate
    <3> QED
      BY <2>5, <3>1 DEF Agreement, BranchStaysValid
  <2> QED
    BY <2>1, <2>2, <2>4, <2>6, <1>o
       DEF Agreement, StateMatchesSocket, FreshIsQuiet, LossIsLate, BranchStaysValid,
           Active, InvalidState
<1> QED
  BY <1>1, <1>2, <1>3, <1>4 DEF ReturnFromCallback

\* The client task.
LEMMA AgreementTask ==
    ASSUME ClientAssumption, TypeOK, LockDiscipline, Agreement, MqttClientTask
    PROVE  Agreement'
<1> USE DEF threadVars, pollVars, linkVars
<1>t. ClientTypeOK /\ LinkTypeOK /\ Task \in Threads
  BY DEF TypeOK, Threads
<1>p. {"idle", "cb_connected", "cb_refused", "cb_publish", "cb_suback"} \subseteq Pcs \ Final
  BY DEF Pcs, CallbackPcs, Final
<1>f. InBranch => sock # "fresh"
  BY DEF Agreement, FreshIsQuiet
<1>e. ASSUME Finish, owner = NoThread \/ owner = Task, nest = 0, UNCHANGED <<nest, branch>>,
             sock # "fresh"
      PROVE  Agreement'
  BY <1>e, <1>t, CallsMoveSocket, AgreementEnds DEF Finish
<1>1. CASE TaskBegins
  <2>1. owner = NoThread /\ nest = 0 /\ pc[Task] = "idle"
    BY <1>1, <1>t, NobodyUnder
       DEF TaskBegins, TaskSettles, TaskSendsConnect, TaskFailsToConnect, TaskPolls,
           TaskEnters
  <2>2. ~Ending /\ ~InBranch
    BY <2>1, <1>t, OwnerEnds DEF InBranch, Waiting
  <2>3. CASE TaskSettles
    BY <2>2, <2>3
       DEF TaskSettles, Agreement, StateMatchesSocket, FreshIsQuiet, LossIsLate,
           BranchStaysValid, Ending, InBranch, Connected, Active, InvalidState
  <2>4. CASE TaskSendsConnect
    <3>1. UNCHANGED sock
      BY <2>4, <1>t, CallsMoveSocket DEF TaskSendsConnect, Answers
    <3> QED
      BY <2>2, <2>4, <3>1
         DEF TaskSendsConnect, Agreement, StateMatchesSocket, FreshIsQuiet, LossIsLate,
             BranchStaysValid, Ending, InBranch, Connected, Active, InvalidState
  <2>5. CASE TaskFailsToConnect
    BY <2>1, <2>5, <1>e
       DEF TaskFailsToConnect, Agreement, StateMatchesSocket
  <2>6. CASE TaskPolls
    <3>1. /\ UNCHANGED <<state, sock, owner, nest>>
          /\ state \in {"MQTT_CONNECTING", "MQTT_CONNECTED"} /\ branch' = state
          /\ pc' = [pc EXCEPT ![Task] = "select"]
      BY <2>6, <1>t, CallsMoveSocket DEF TaskPolls, Answers
    <3>2. pc'[Task] = "select" /\ \A u \in Threads : u # Task => pc'[u] = pc[u]
      BY <3>1, <1>t DEF ClientTypeOK
    <3>3. \A u \in Threads : pc'[u] \notin Final
      BY <2>1, <3>2, <1>t, OwnerEnds DEF Final, CallbackPcs
    <3> QED
      BY <2>1, <2>2, <3>1, <3>3
         DEF Agreement, StateMatchesSocket, FreshIsQuiet, LossIsLate, BranchStaysValid,
             Ending, Final, Connected, Active, InvalidState
  <2> QED
    BY <1>1, <2>3, <2>4, <2>5, <2>6 DEF TaskBegins
<1>2. CASE TaskSelects \/ TaskStartsReading
  <2>1. /\ InBranch /\ UNCHANGED <<state, sock, nest, branch>>
        /\ \/ pc' = [pc EXCEPT ![Task] = "relock"] /\ UNCHANGED owner
           \/ pc' = [pc EXCEPT ![Task] = "reading"] /\ owner = NoThread /\ owner' = Task
    BY <1>2 DEF TaskSelects, TaskStartsReading, TaskRelocks, Runs, InBranch, Waiting
  <2>2. InBranch' /\ pc'[Task] \notin Final /\ \A u \in Threads : u # Task => pc'[u] = pc[u]
    BY <2>1, <1>t DEF ClientTypeOK, InBranch, Waiting, Final
  <2>3. pc[Task] \notin Final
    BY <2>1 DEF InBranch, Waiting, Final
  <2>4. (Ending' <=> Ending) /\ \A u \in Threads : pc'[u] = "cb_lost" <=> pc[u] = "cb_lost"
    BY <2>1, <2>2, <2>3 DEF Ending, Final
  <2> QED
    BY <2>1, <2>2, <2>4, <1>f
       DEF Agreement, StateMatchesSocket, FreshIsQuiet, LossIsLate, BranchStaysValid,
           Connected
<1>3. CASE TaskGivesUp \/ TaskFindsNothing
  <2>1. /\ owner = NoThread /\ nest = 0 /\ sock # "fresh" /\ pc[Task] \notin Final
        /\ UNCHANGED <<nest, branch>>
    BY <1>3, <1>t, <1>f, NobodyUnder
       DEF TaskGivesUp, TaskFindsNothing, TaskRelocks, InBranch, Waiting, Final
  <2>2. CASE TaskGivesUp
    BY <2>1, <2>2, <1>e DEF TaskGivesUp
  <2>3. CASE TaskFindsNothing
    BY <2>1, <2>3, <1>t, <1>p, AgreementGoesOn DEF TaskFindsNothing, Release
  <2> QED
    BY <1>3, <2>2, <2>3
<1>4. CASE TaskReads \/ TaskMisreads
  <2>1. pc[Task] = "reading"
    BY <1>4, ReadsInReader
  <2>2. owner = Task /\ nest = 0 /\ sock # "fresh" /\ pc[Task] \notin Final
    BY <2>1, <1>t, <1>f, NobodyUnder
       DEF LockDiscipline, Holding, InBranch, Waiting, Final
  <2>3. CASE TaskFailsToRead
    BY <2>2, <2>3, <1>e DEF TaskFailsToRead
  <2>4. CASE TaskReadsConnack
    <3>1. state = "MQTT_CONNECTING"
      BY <2>1, <2>4
         DEF TaskReadsConnack, Reads, Agreement, BranchStaysValid, InBranch, Waiting
    <3>2. UNCHANGED sock
      BY <2>4, <1>t, CallsMoveSocket DEF TaskReadsConnack
    <3>3. /\ UNCHANGED <<nest, branch>>
          /\ \/ state' = "MQTT_CONNECTED" /\ pc' = [pc EXCEPT ![Task] = "cb_connected"]
             \/ UNCHANGED state /\ pc' = [pc EXCEPT ![Task] = "cb_refused"]
      BY <2>4 DEF TaskReadsConnack, Runs
    <3> QED
      BY <2>2, <3>1, <3>2, <3>3, <1>t, <1>p, AgreementGoesOn DEF Active
  <2>5. ASSUME NEW s, NotifyEnd(s), CloseSocket, UNCHANGED <<nest, branch>>
        PROVE  Agreement'
    BY <2>2, <2>5, <1>t, CallsMoveSocket, AgreementEnds
  <2>6. ASSUME NEW c \in {"idle", "cb_publish", "cb_suback"},
               Consume \/ ConsumePart \/ Takes,
               pc' = [pc EXCEPT ![Task] = c], UNCHANGED <<state, nest, branch>>
        PROVE  Agreement'
    <3>1. UNCHANGED sock
      BY <2>6, <1>t, CallsMoveSocket
    <3>2. c \in Pcs \ Final
      BY <1>p
    <3> QED
      BY <2>2, <2>6, <3>1, <3>2, <1>t, AgreementGoesOn
  <2>7. CASE TaskReadsPublish
    BY <2>6, <2>7 DEF TaskReadsPublish, GivesMessage, Runs
  <2>12. CASE TaskRefusesPublish
    BY <2>5, <2>12 DEF TaskRefusesPublish, Finish
  <2>8. CASE TaskReadsSuback
    BY <2>5, <2>6, <2>8 DEF TaskReadsSuback, Finish, Runs
  <2>9. CASE TaskReadsAnswer
    BY <2>6, <2>9 DEF TaskReadsAnswer, Release
  <2>10. CASE TaskReadsOther
    BY <2>5, <2>10 DEF TaskReadsOther
  <2>11. CASE TaskFailsInPayload
    <3>1. CASE branch = "MQTT_CONNECTING"
      <4>1. /\ UNCHANGED <<state, sock, nest, branch>>
            /\ pc' = [pc EXCEPT ![Task] = "cb_refused"]
        BY <2>11, <3>1 DEF TaskFailsInPayload, Runs
      <4>2. state = "MQTT_CONNECTING"
        BY <2>1, <3>1 DEF Agreement, BranchStaysValid, InBranch, Waiting
      <4> QED
        BY <2>2, <4>1, <4>2, <1>t, <1>p, AgreementGoesOn DEF Active
    <3>2. CASE branch # "MQTT_CONNECTING"
      BY <2>2, <2>11, <3>2, <1>e DEF TaskFailsInPayload
    <3> QED
      BY <3>1, <3>2
  <2>13. CASE TaskMisreads
    <3>1. TakesSome => Takes
      BY DEF TakesSome, Takes
    <3>2. CASE TaskReadsBeyond
      BY <2>6, <3>2 DEF TaskReadsBeyond, Takes, GivesMessage, Runs
    <3>3. CASE TaskStraysIntoPublish \/ TaskStraysIntoSuback
      BY <2>6, <3>1, <3>3
         DEF TaskStraysIntoPublish, TaskStraysIntoSuback, GivesMessage, Runs
    <3>4. CASE TaskStraysIntoAnswer
      BY <2>6, <3>1, <3>4 DEF TaskStraysIntoAnswer, Release
    <3>5. CASE TaskStraysIntoEnd
      BY <2>5, <3>5 DEF TaskStraysIntoEnd
    <3> QED
      BY <2>13, <3>2, <3>3, <3>4, <3>5 DEF TaskMisreads
  <2> QED
    BY <1>4, <2>3, <2>4, <2>7, <2>8, <2>9, <2>10, <2>11, <2>12, <2>13 DEF TaskReads
<1> QED
  BY <1>1, <1>2, <1>3, <1>4 DEF MqttClientTask, TaskResumes

\* Every step.
LEMMA AgreementStep ==
    ASSUME ClientAssumption, TypeOK, LockDiscipline, LockDiscipline', Agreement, Next
    PROVE  Agreement'
<1> USE DEF threadVars, pollVars, linkVars
<1>t. ClientTypeOK /\ LinkTypeOK /\ Task \in Threads
  BY DEF TypeOK, Threads
<1>k. ASSUME UNCHANGED <<state, owner, pc, nest, branch, sock>> PROVE Agreement'
  BY <1>k, AgreementKept DEF Connected
<1>1. CASE MqttClientInit
  <2>1. /\ \A u \in Threads : pc[u] = "idle"
        /\ UNCHANGED <<owner, pc, nest, branch>>
        /\ \/ state' = "DISCONNECTED" /\ sock' = "fresh"
           \/ state' = "NOT_INITIALIZED" /\ sock' = "closed"
    BY <1>1 DEF MqttClientInit, OpenSocket
  <2>2. owner = NoThread
    BY <2>1, <1>t DEF LockDiscipline, ClientTypeOK, Holding, CallbackPcs
  <2>3. nest = 0 /\ ~Ending /\ ~InBranch
    BY <2>1, <2>2, <1>t, NobodyUnder, OwnerEnds DEF InBranch, Waiting
  <2> QED
    BY <2>1, <2>2, <2>3
       DEF Agreement, StateMatchesSocket, FreshIsQuiet, LossIsLate, BranchStaysValid,
           Ending, InBranch, Connected, Active, InvalidState
<1>2. ASSUME NEW t \in Threads, BlocksOnItself(t) PROVE Agreement'
  BY <1>2, <1>k DEF BlocksOnItself
<1>3. CASE KeepaliveElapses \/ ResponseElapses
  BY <1>3, <1>k DEF KeepaliveElapses, ResponseElapses, clientVars
<1>4. CASE World
  BY <1>4, <1>t, CallsMoveSocket, AgreementKept DEF World, clientVars
<1> QED
  BY <1>1, <1>2, <1>3, <1>4, AgreementApi, AgreementReturn, AgreementTask DEF Next

\* IInv is an invariant; so is each of its parts.
THEOREM Safety == Spec => []IInv
<1>1. Init => Agreement
  BY AgreementInit
<1>2. TypeOK /\ LockDiscipline /\ LockDiscipline' /\ Agreement /\ [Next]_vars => Agreement'
  <2> SUFFICES ASSUME TypeOK, LockDiscipline, LockDiscipline', Agreement, [Next]_vars
               PROVE  Agreement'
    OBVIOUS
  <2>1. CASE Next
    BY <2>1, AgreementStep, ClientAssumption
  <2>2. CASE UNCHANGED vars
    BY <2>2, AgreementKept DEF vars, linkVars, threadVars, pollVars, Connected
  <2> QED
    BY <2>1, <2>2
<1>3. Spec => []Agreement
  BY <1>1, <1>2, TypeCorrect, MutexProtects, PTL DEF Spec
<1>4. TypeOK /\ LockDiscipline /\ Agreement => IInv
  BY DEF Agreement, IInv
<1> QED
  BY <1>3, <1>4, TypeCorrect, MutexProtects, PTL

\* The state and the socket agree, whatever is called from whatever callback.
THEOREM SocketFollowsState == Spec => []StateMatchesSocket
<1>1. IInv => StateMatchesSocket
  BY DEF IInv
<1> QED
  BY <1>1, Safety, PTL

\* The case label of the task survives the time it waits without the mutex.
THEOREM BranchSurvivesSelect == Spec => []BranchStaysValid
<1>1. IInv => BranchStaysValid
  BY DEF IInv
<1> QED
  BY <1>1, Safety, PTL

-------------------------------------------------------------------------------
(***************************************************************************)
(* No data after a disconnection.                                          *)
(***************************************************************************)

\* The ways a step of the client moves the socket and what is on the wire.
Calls ==
    \/ \E opened \in BOOLEAN : OpenSocket(opened)
    \/ ConnectSocket
    \/ CloseSocket
    \/ \E a \in Answers : Transmit(a)
    \/ Consume
    \/ Environment
    \/ UNCHANGED linkVars

\* The steps that lose the boundaries of the packets.
StepsOut ==
    \/ TaskReadsPublish /\ ~Whole(Head(rx)) /\ ConsumePart
    \/ TaskMisreads /\ Takes

LEMMA NextCalls == ASSUME Next PROVE Calls \/ StepsOut
<1>a. {"SUBACK", "UNSUBACK", "PUBACK", "CONNACK", "PINGRESP"} \subseteq Answers
  BY DEF Answers
<1>f. Finish => Calls
  BY DEF Finish, Calls
<1>1. CASE MqttClientInit
  BY <1>1 DEF MqttClientInit, Calls
<1>2. ASSUME NEW t \in Threads, Api(t) PROVE Calls
  <2>1. CASE SetIdentity(t) \/ SetKeepalive(t)
    BY <2>1 DEF SetIdentity, SetKeepalive, Calls
  <2>2. CASE Connect(t) \/ Disconnect(t)
    BY <2>2 DEF Connect, Disconnect, Calls
  <2>3. ASSUME NEW op, NEW a \in Answers, Request(t, op, a) PROVE Calls
    BY <2>3 DEF Request, LosesConnection, Calls
  <2>4. CASE Publish(t)
    BY <2>4, <1>a DEF Publish, TransmitOnly, LosesConnection, Calls
  <2> QED
    BY <1>2, <1>a, <2>1, <2>2, <2>3, <2>4 DEF Api, Subscribe, Unsubscribe
<1>3. ASSUME NEW t \in Threads, BlocksOnItself(t) \/ ReturnFromCallback(t) PROVE Calls
  <2>1. CASE BlocksOnItself(t)
    BY <2>1 DEF BlocksOnItself, Calls
  <2>2. CASE ReturnFromCallback(t)
    BY <2>2, <1>f DEF ReturnFromCallback, ReturnsNested, ReturnsToBranch,
                      ReturnsRefused, ReturnsFinal, Calls
  <2> QED
    BY <1>3, <2>1, <2>2
<1>4. CASE TaskBegins
  BY <1>4, <1>a, <1>f
     DEF TaskBegins, TaskSettles, TaskSendsConnect, TaskFailsToConnect, TaskPolls, Calls
<1>5. CASE TaskSelects \/ TaskResumes
  BY <1>5, <1>f
     DEF TaskSelects, TaskResumes, TaskStartsReading, TaskGivesUp, TaskFindsNothing,
         Calls
<1>6. CASE TaskReads
  BY <1>6, <1>f
     DEF TaskReads, TaskFailsToRead, TaskFailsInPayload, TaskReadsConnack,
         TaskRefusesPublish, TaskReadsPublish, TaskReadsSuback, TaskReadsAnswer,
         TaskReadsOther, Calls, StepsOut
<1>8. CASE TaskMisreads
  BY <1>8, MisreadTakes DEF Calls, StepsOut
<1>7. CASE KeepaliveElapses \/ ResponseElapses \/ World
  BY <1>7 DEF KeepaliveElapses, ResponseElapses, World, Calls
<1> QED
  BY <1>1, <1>2, <1>3, <1>4, <1>5, <1>6, <1>7, <1>8 DEF Next, MqttClientTask

\* Without resets, what has been received goes with its connection.
QuietWire == sock # "reset" /\ (rx # <<>> => Connected)

LEMMA QuietStep ==
    ASSUME "reset" \notin Faults, LinkTypeOK, QuietWire, Calls \/ StepsOut
    PROVE  QuietWire'
<1>1. CASE UNCHANGED linkVars
  BY <1>1 DEF QuietWire, linkVars, Connected
<1>2. CASE \E opened \in BOOLEAN : OpenSocket(opened)
  BY <1>2 DEF QuietWire, OpenSocket, Emptied
<1>3. CASE ConnectSocket
  BY <1>3 DEF QuietWire, ConnectSocket, Connected
<1>4. CASE CloseSocket
  BY <1>4 DEF QuietWire, CloseSocket, Emptied, linkVars, Connected
<1>5. CASE (\E a \in Answers : Transmit(a)) \/ Consume \/ ConsumePart
  BY <1>5 DEF QuietWire, Transmit, Consume, ConsumePart, CanRead, Arrived, Connected
<1>7. CASE Takes
  BY <1>7, TakesFrom DEF QuietWire, Connected
<1>6. CASE Environment
  <2>1. CASE BrokerAnswers \/ BrokerPublishes
    BY <2>1 DEF BrokerAnswers, BrokerPublishes, Arrives, QuietWire, Connected
  <2> QED
    BY <1>6, <2>1 DEF Environment, BrokerCompletes, BrokerCloses, NetworkResets,
                      QuietWire, Connected
<1> QED
  BY <1>1, <1>2, <1>3, <1>4, <1>5, <1>6, <1>7 DEF Calls, StepsOut

\* The steps that read a PUBLISH or a SUBACK, or what they take for one.
ReadsData ==
    \/ TaskReadsPublish \/ TaskReadsSuback
    \/ TaskReadsBeyond \/ TaskStraysIntoPublish \/ TaskStraysIntoSuback

\* Only they go from the reader into a callback that is given data.
LEMMA DataIsRead ==
    ASSUME ClientAssumption, TypeOK, Next, pc[Task] = "reading",
           pc'[Task] \in {"cb_publish", "cb_suback"}
    PROVE  ReadsData
<1>t. Task \in Threads /\ pc \in [Threads -> Pcs]
  BY DEF Threads, TypeOK, ClientTypeOK
<1>r. ASSUME NEW t \in Threads, NEW p, pc' = [pc EXCEPT ![t] = p],
             p \notin {"cb_publish", "cb_suback"}
      PROVE  FALSE
  BY <1>r, <1>t
<1>n. ASSUME NEW s, NotifyEnd(s) PROVE FALSE
  BY <1>n, <1>r, <1>t DEF NotifyEnd, Runs
<1>u. UNCHANGED pc => FALSE
  BY <1>t
<1>l. ASSUME NEW t \in Threads, LosesConnection(t) PROVE FALSE
  BY <1>l, <1>r, <1>u DEF LosesConnection
<1> USE DEF threadVars, clientVars
<1>1. CASE MqttClientInit
  BY <1>1, <1>u DEF MqttClientInit
<1>2. ASSUME NEW t \in Threads, Api(t) PROVE FALSE
  <2>1. CASE SetIdentity(t) \/ SetKeepalive(t) \/ Connect(t) \/ Disconnect(t)
    BY <2>1, <1>u DEF SetIdentity, SetKeepalive, Connect, Disconnect
  <2>2. ASSUME NEW op, NEW a, Request(t, op, a) PROVE FALSE
    BY <2>2, <1>u, <1>l DEF Request
  <2>3. CASE Publish(t)
    BY <2>3, <1>u, <1>l DEF Publish
  <2> QED
    BY <1>2, <2>1, <2>2, <2>3 DEF Api, Subscribe, Unsubscribe
<1>3. ASSUME NEW t \in Threads, BlocksOnItself(t) \/ ReturnFromCallback(t) PROVE FALSE
  BY <1>3, <1>u, <1>n, <1>r
     DEF BlocksOnItself, ReturnFromCallback, ReturnsNested, ReturnsToBranch,
         ReturnsRefused, ReturnsFinal, Release, Finish
<1>4. CASE TaskBegins \/ TaskSelects \/ TaskResumes
  BY <1>4 DEF TaskBegins, TaskSettles, TaskSendsConnect, TaskFailsToConnect, TaskPolls,
              TaskEnters, TaskSelects, TaskResumes, TaskStartsReading, TaskGivesUp,
              TaskFindsNothing, TaskRelocks
<1>5. CASE TaskReads
  <2>1. CASE TaskFailsToRead \/ TaskFailsInPayload \/ TaskReadsConnack
    BY <2>1, <1>n, <1>r, <1>t
       DEF TaskFailsToRead, TaskFailsInPayload, TaskReadsConnack, Finish, Runs
  <2>2. CASE TaskReadsAnswer \/ TaskReadsOther \/ TaskRefusesPublish
    BY <2>2, <1>n, <1>r, <1>t
       DEF TaskReadsAnswer, TaskReadsOther, TaskRefusesPublish, Finish, Release
  <2> QED
    BY <1>5, <2>1, <2>2 DEF TaskReads, ReadsData
<1>7. CASE TaskMisreads
  <2>1. CASE TaskStraysIntoAnswer \/ TaskStraysIntoEnd
    BY <2>1, <1>n, <1>r, <1>t DEF TaskStraysIntoAnswer, TaskStraysIntoEnd, Release
  <2> QED
    BY <1>7, <2>1 DEF TaskMisreads, ReadsData
<1>6. CASE KeepaliveElapses \/ ResponseElapses \/ World
  BY <1>6, <1>u DEF KeepaliveElapses, ResponseElapses, World
<1> QED
  BY <1>1, <1>2, <1>3, <1>4, <1>5, <1>6, <1>7 DEF Next, MqttClientTask

\* A packet is read from a connection that is there, so that the state, which
\* the task has not looked at since it chose its case label, still says so.
LEMMA DataStep ==
    ASSUME ClientAssumption, IInv, QuietWire, Next, pc[Task] = "reading",
           pc'[Task] \in {"cb_publish", "cb_suback"}
    PROVE  state = "MQTT_CONNECTED"
<1>1. rx # <<>> /\ branch = "MQTT_CONNECTED"
  BY DataIsRead
     DEF IInv, ReadsData, TaskReadsPublish, TaskReadsSuback, TaskReadsBeyond,
         TaskStraysIntoPublish, TaskStraysIntoSuback, Strays, PublishArrived,
         ReadsPacket, CanRead, Arrived, Reads
<1>2. Connected
  BY <1>1 DEF QuietWire
<1>3. state \in {"MQTT_CONNECTED", "MQTT_DISCONNECTING", "DISCONNECTED"}
  BY <1>1 DEF IInv, BranchStaysValid, InBranch
<1> QED
  BY <1>2, <1>3 DEF IInv, StateMatchesSocket, Active

\* As long as the network resets no connection, the application is given no
\* data after it has disconnected, by whichever thread, although the task may
\* have been told of data before (mqtt_client_task, lines 790-831).
THEOREM NoDataAfterDisconnect ==
    ASSUME ClientAssumption, SocketAssumption, "reset" \notin Faults
    PROVE  Spec => DataWhileConnected
<1>1. Init => QuietWire
  BY DEF Init, LinkInit, QuietWire
<1>2. IInv /\ QuietWire /\ [Next]_vars => QuietWire'
  <2>1. CASE Next
    BY <2>1, NextCalls, QuietStep DEF IInv, TypeOK
  <2>2. CASE UNCHANGED vars
    BY <2>2 DEF vars, linkVars, QuietWire, Connected
  <2> QED
    BY <2>1, <2>2
<1>3. IInv /\ QuietWire /\ [Next]_vars
        => [pc[Task] = "reading" /\ pc'[Task] \in {"cb_publish", "cb_suback"}
              => state = "MQTT_CONNECTED"]_vars
  BY DataStep
<1> QED
  BY <1>1, <1>2, <1>3, Safety, PTL DEF Spec, DataWhileConnected

-------------------------------------------------------------------------------
(***************************************************************************)
(* No wait without an answer on its way.                                   *)
(***************************************************************************)

Requested == {"SUBACK", "UNSUBACK"}

\* The callbacks after which the task clears the flag, whatever it was.
Clearing == {"cb_connected", "cb_suback"}

\* The flag is founded from the end of these callbacks on, as long as the
\* publications have been read to their end.
WaitFounded ==
    /\ framed
    /\ state = "MQTT_CONNECTED"
    /\ sock = "up"
    /\ is_waiting_response
    /\ pc[Task] \notin Clearing
    => \E b \in Requested : Pending(b)

\* An answer is on its way once its request has been sent.
LEMMA RequestPends ==
    ASSUME LinkTypeOK, MaxOwed \in Nat \ {0}, NEW a \in Answers, Transmit(a),
           sock = "up"
    PROVE  Pending(a)'
<1>1. owed'[a] > 0
  BY DEF Transmit, LinkTypeOK
<1> QED
  BY <1>1 DEF Pending

\* It stays on its way until the client reads it, whatever else is sent,
\* received or read.
LEMMA PendingStays ==
    ASSUME LinkTypeOK, SocketAssumption, NEW b \in Answers, Pending(b)
    PROVE  /\ \A a \in Answers : Transmit(a) => Pending(b)'
           /\ TransmitOnly \/ UNCHANGED linkVars => Pending(b)'
           /\ Consume /\ Head(rx).type # b => Pending(b)'
           /\ ConsumePart => Pending(b)'
           /\ BrokerAnswers \/ BrokerPublishes \/ BrokerCompletes => Pending(b)'
<1>5. ConsumePart => Pending(b)'
  BY DEF ConsumePart, Pending
<1>1. ASSUME NEW a \in Answers, Transmit(a) PROVE Pending(b)'
  BY <1>1 DEF Transmit, Pending, LinkTypeOK
<1>2. TransmitOnly \/ UNCHANGED linkVars => Pending(b)'
  BY DEF TransmitOnly, linkVars, Pending
<1>3. ASSUME Consume, Head(rx).type # b PROVE Pending(b)'
  <2>1. /\ rx # <<>> /\ rx' = Tail(rx) /\ owed' = owed
        /\ rx \in Seq(Packets)
    BY <1>3 DEF Consume, CanRead, Arrived, LinkTypeOK
  <2>2. CASE owed[b] > 0
    BY <2>1, <2>2 DEF Pending
  <2>3. CASE \E i \in 1..Len(rx) : rx[i].type = b
    <3>1. PICK i \in 1..Len(rx) : rx[i].type = b
      BY <2>3
    <3>2. i # 1
      BY <1>3, <2>1, <3>1
    <3>3. Len(Tail(rx)) = Len(rx) - 1
      BY <2>1, HeadTailProperties
    <3>4. i - 1 \in 1..Len(rx')
      BY <2>1, <3>2, <3>3
    <3>5. rx'[i - 1] = rx[i]
      BY <2>1, <3>2, <3>3, <3>4
    <3> QED
      BY <3>1, <3>4, <3>5 DEF Pending
  <2> QED
    BY <2>2, <2>3 DEF Pending
<1>4. ASSUME BrokerAnswers \/ BrokerPublishes \/ BrokerCompletes PROVE Pending(b)'
  <2>a. ASSUME NEW p \in Packets, Arrives(p)
        PROVE  /\ (\E i \in 1..Len(rx) : rx[i].type = b)
                      => \E i \in 1..Len(rx') : rx'[i].type = b
               /\ p.type = b => \E i \in 1..Len(rx') : rx'[i].type = b
    <3>1. rx' = Append(rx, p) /\ rx \in Seq(Packets)
      BY <2>a DEF Arrives, LinkTypeOK
    <3>2. /\ Len(rx') = Len(rx) + 1
          /\ \A i \in 1..Len(rx) : rx'[i] = rx[i]
          /\ rx'[Len(rx) + 1] = p
      BY <3>1, AppendProperties
    <3>3. Len(rx) \in Nat
      BY <3>1
    <3>4. 1..Len(rx) \subseteq 1..Len(rx') /\ Len(rx) + 1 \in 1..Len(rx')
      BY <3>2, <3>3
    <3> QED
      BY <3>2, <3>4
  <2>1. CASE BrokerAnswers
    <3>1. PICK a \in Answers : \E c \in Arguments(a) :
            /\ owed[a] > 0
            /\ Arrives(Answer(a, c))
            /\ owed' = [owed EXCEPT ![a] = @ - 1]
      BY <2>1 DEF BrokerAnswers
    <3>2. PICK c \in Arguments(a) :
            /\ Arrives(Answer(a, c))
            /\ owed' = [owed EXCEPT ![a] = @ - 1]
      BY <3>1
    <3>3. Answer(a, c) \in Packets /\ Answer(a, c).type = a
      BY DEF SocketAssumption, Arguments, Answer, Packets
    <3>4. CASE a = b
      BY <2>a, <3>2, <3>3, <3>4 DEF Pending
    <3>5. CASE a # b
      <4>1. owed'[b] = owed[b]
        BY <3>2, <3>5 DEF LinkTypeOK
      <4> QED
        BY <2>a, <3>2, <3>3, <4>1 DEF Pending
    <3> QED
      BY <3>4, <3>5
  <2>2. CASE BrokerPublishes
    <3>1. PICK p \in Publications : Arrives(p) /\ UNCHANGED <<owed, served>>
      BY <2>2 DEF BrokerPublishes
    <3>2. p \in Packets
      BY DEF SocketAssumption
    <3> QED
      BY <2>a, <3>1, <3>2 DEF Pending
  <2>3. CASE BrokerCompletes
    BY <2>3 DEF BrokerCompletes, Pending
  <2> QED
    BY <1>4, <2>1, <2>2, <2>3
<1> QED
  BY <1>1, <1>2, <1>3, <1>4, <1>5

\* A step that leaves the answers on their way, and does not set the flag or end
\* a clearing callback, keeps the flag founded.
LEMMA WaitKept ==
    ASSUME WaitFounded, \A b \in Requested : Pending(b) => Pending(b)',
           state' = "MQTT_CONNECTED" => state = "MQTT_CONNECTED",
           sock' = "up" => sock = "up",
           framed' => framed,
           is_waiting_response' => is_waiting_response,
           pc'[Task] \notin Clearing => pc[Task] \notin Clearing
    PROVE  WaitFounded'
BY DEF WaitFounded

LEMMA WaitApi ==
    ASSUME ClientAssumption, SocketAssumption, MaxOwed > 0, TypeOK, WaitFounded,
           NEW t \in Threads, Api(t)
    PROVE  WaitFounded'
<1> USE DEF threadVars
<1>t. LinkTypeOK /\ MaxOwed \in Nat \ {0} /\ Requested \subseteq Answers
  BY DEF TypeOK, SocketAssumption, Requested, Answers
<1>u. UNCHANGED linkVars => \A b \in Requested : Pending(b) => Pending(b)'
  BY <1>t, PendingStays
<1>c. ~Connected' => WaitFounded'
  BY DEF Connected, WaitFounded
<1>l. LosesConnection(t) => WaitFounded'
  BY <1>c, <1>t, CallsMoveSocket DEF LosesConnection
<1>1. CASE SetIdentity(t) \/ SetKeepalive(t)
  BY <1>1, <1>u, WaitKept DEF SetIdentity, SetKeepalive, linkVars
<1>2. CASE Connect(t) \/ Disconnect(t)
  BY <1>2 DEF Connect, Disconnect, WaitFounded
<1>3. ASSUME NEW op, NEW a \in Requested, Request(t, op, a) PROVE WaitFounded'
  <2>1. CASE Transmit(a)
    <3>1. UNCHANGED <<sock, framed>>
      BY <2>1 DEF Transmit
    <3> QED
      BY <1>t, <2>1, <3>1, RequestPends DEF WaitFounded
  <2> QED
    BY <1>3, <1>l, <2>1 DEF Request
<1>4. CASE Publish(t)
  <2>1. ASSUME \E qos \in PubQos : IF qos = 0 THEN TransmitOnly ELSE Transmit("PUBACK"),
               UNCHANGED <<state, is_waiting_response, pc>>
        PROVE  WaitFounded'
    <3>1. "PUBACK" \in Answers
      BY DEF Answers
    <3>2. \A b \in Requested : Pending(b) => Pending(b)'
      BY <1>t, <2>1, <3>1, PendingStays
    <3>3. UNCHANGED <<sock, framed>>
      BY <2>1 DEF TransmitOnly, Transmit, linkVars
    <3> QED
      BY <2>1, <3>2, <3>3, WaitKept
  <2> QED
    BY <1>4, <1>l, <2>1 DEF Publish
<1> QED
  BY <1>1, <1>2, <1>3, <1>4 DEF Api, Subscribe, Unsubscribe, Requested

LEMMA WaitReturn ==
    ASSUME ClientAssumption, SocketAssumption, TypeOK, LockDiscipline, WaitFounded,
           NEW t \in Threads, BlocksOnItself(t) \/ ReturnFromCallback(t)
    PROVE  WaitFounded'
<1> USE DEF threadVars
<1>t. LinkTypeOK /\ Requested \subseteq Answers
  BY DEF TypeOK, Requested, Answers
<1>u. UNCHANGED linkVars => \A b \in Requested : Pending(b) => Pending(b)'
  BY <1>t, PendingStays
<1>1. CASE BlocksOnItself(t)
  BY <1>1, <1>u, WaitKept DEF BlocksOnItself, linkVars
<1>2. CASE ReturnsNested(t) \/ ReturnsFinal(t)
  BY <1>2 DEF ReturnsNested, ReturnsFinal, AfterLost, WaitFounded
<1>3. CASE ReturnsToBranch(t)
  <2>1. t = Task
    BY <1>3 DEF ReturnsToBranch, LockDiscipline, Threads
  <2>2. is_waiting_response' => is_waiting_response /\ pc[Task] \notin Clearing
    BY <1>3, <2>1 DEF ReturnsToBranch, EndsWait, Clearing
  <2>3. UNCHANGED <<linkVars, state>>
    BY <1>3 DEF ReturnsToBranch
  <2> QED
    BY <1>u, <2>2, <2>3 DEF WaitFounded, linkVars
<1>4. CASE ReturnsRefused(t)
  BY <1>4, <1>t, CallsMoveSocket DEF ReturnsRefused, Finish, Connected, WaitFounded
<1> QED
  BY <1>1, <1>2, <1>3, <1>4 DEF ReturnFromCallback

LEMMA WaitTask ==
    ASSUME ClientAssumption, SocketAssumption, IInv, WaitFounded, MqttClientTask
    PROVE  WaitFounded'
<1> USE DEF threadVars, pollVars
<1>t. /\ LinkTypeOK /\ Requested \subseteq Answers /\ Task \in Threads
      /\ pc \in [Threads -> Pcs]
  BY DEF IInv, TypeOK, ClientTypeOK, Requested, Answers, Threads
<1>u. UNCHANGED linkVars => \A b \in Requested : Pending(b) => Pending(b)'
  BY <1>t, PendingStays
<1>c. ~Connected' => WaitFounded'
  BY DEF Connected, WaitFounded
<1>f. CloseSocket \/ Finish => WaitFounded'
  BY <1>c, <1>t, CallsMoveSocket DEF Finish
<1>s. framed' = FALSE => WaitFounded'
  BY DEF WaitFounded
<1>1. CASE TaskBegins
  <2>1. CASE TaskSettles \/ TaskSendsConnect
    BY <2>1 DEF TaskSettles, TaskSendsConnect, WaitFounded
  <2>2. CASE TaskPolls
    <3>1. "PINGRESP" \in Answers
      BY DEF Answers
    <3>2. Transmit("PINGRESP") \/ UNCHANGED linkVars
      BY <2>2 DEF TaskPolls
    <3>3. /\ UNCHANGED <<sock, framed>>
          /\ \A b \in Requested : Pending(b) => Pending(b)'
      BY <1>t, <1>u, <3>1, <3>2, PendingStays DEF Transmit, linkVars
    <3>4. pc[Task] \notin Clearing /\ UNCHANGED <<state, is_waiting_response>>
      BY <2>2 DEF TaskPolls, TaskEnters, Clearing
    <3> QED
      BY <3>3, <3>4, WaitKept
  <2> QED
    BY <1>1, <1>f, <2>1, <2>2 DEF TaskBegins, TaskFailsToConnect
<1>2. CASE TaskSelects \/ TaskStartsReading \/ TaskFindsNothing
  <2>1. pc[Task] \notin Clearing /\ UNCHANGED <<linkVars, state, is_waiting_response>>
    BY <1>2 DEF TaskSelects, TaskStartsReading, TaskFindsNothing, TaskRelocks, Clearing
  <2> QED
    BY <1>u, <2>1, WaitKept DEF linkVars
<1>3. CASE TaskGivesUp \/ TaskFailsToRead
  BY <1>3, <1>f DEF TaskGivesUp, TaskFailsToRead
<1>4. CASE TaskReads
  <2>r. pc[Task] = "reading"
    BY <1>4, ReadsInReader
  <2>n. branch = "MQTT_CONNECTING" => state = "MQTT_CONNECTING"
    BY <2>r DEF IInv, BranchStaysValid, InBranch
  <2>1. CASE TaskFailsInPayload
    <3>1. CASE branch = "MQTT_CONNECTING" /\ UNCHANGED state
      BY <2>n, <3>1 DEF WaitFounded
    <3> QED
      BY <2>1, <3>1, <1>f DEF TaskFailsInPayload
  <2>2. CASE TaskReadsConnack
    <3>1. CASE Head(rx).arg = 0
      BY <2>2, <3>1, <1>t DEF TaskReadsConnack, Runs, WaitFounded, Clearing
    <3>2. CASE Head(rx).arg # 0
      BY <2>2, <3>2, <2>n DEF TaskReadsConnack, Reads, WaitFounded
    <3> QED
      BY <3>1, <3>2
  <2>3. CASE TaskReadsPublish
    <3>1. CASE Consume
      <4>1. Head(rx).type = "PUBLISH"
        BY <2>3 DEF TaskReadsPublish, ReadsPacket
      <4>2. \A b \in Requested : Pending(b) => Pending(b)'
        BY <1>t, <3>1, <4>1, PendingStays DEF Requested
      <4>3. UNCHANGED <<sock, framed, state, is_waiting_response>>
        BY <2>3, <3>1 DEF TaskReadsPublish, GivesMessage, Consume
      <4> QED
        BY <2>r, <3>1, <4>2, <4>3, WaitKept DEF Clearing
    <3>2. CASE ConsumePart
      BY <1>s, <3>2 DEF ConsumePart
    <3> QED
      BY <2>3, <3>1, <3>2 DEF TaskReadsPublish
  <2>7. CASE TaskRefusesPublish
    BY <2>7, <1>f DEF TaskRefusesPublish
  <2>4. CASE TaskReadsSuback
    BY <2>4, <1>t, <1>f DEF TaskReadsSuback, Runs, WaitFounded, Clearing
  <2>5. CASE TaskReadsAnswer
    BY <2>5 DEF TaskReadsAnswer, WaitFounded
  <2>6. CASE TaskReadsOther
    BY <2>6, <1>f DEF TaskReadsOther
  <2> QED
    BY <1>3, <1>4, <2>1, <2>2, <2>3, <2>4, <2>5, <2>6, <2>7 DEF TaskReads
<1>5. CASE TaskMisreads
  <2>1. LinkTypeOK /\ (Takes \/ CloseSocket)
    BY <1>5, <1>t, MisreadTakes
  <2> QED
    BY <2>1, <1>s, <1>f, TakesFrom
<1> QED
  BY <1>1, <1>2, <1>3, <1>4, <1>5 DEF MqttClientTask, TaskResumes

LEMMA WaitStep ==
    ASSUME ClientAssumption, SocketAssumption, MaxOwed > 0, IInv, WaitFounded, Next
    PROVE  WaitFounded'
<1>t. TypeOK /\ LockDiscipline /\ LinkTypeOK /\ Requested \subseteq Answers
  BY DEF IInv, TypeOK, Requested, Answers
<1>u. UNCHANGED linkVars => \A b \in Requested : Pending(b) => Pending(b)'
  BY <1>t, PendingStays
<1> USE DEF threadVars, clientVars
<1>1. CASE MqttClientInit
  BY <1>1 DEF MqttClientInit, WaitFounded
<1>2. CASE KeepaliveElapses \/ ResponseElapses
  BY <1>2, <1>u, WaitKept DEF KeepaliveElapses, ResponseElapses, linkVars
<1>3. CASE World
  <2>1. UNCHANGED <<state, is_waiting_response, pc>> /\ Environment
    BY <1>3 DEF World
  <2>2. CASE BrokerAnswers \/ BrokerPublishes \/ BrokerCompletes
    <3>1. \A b \in Requested : Pending(b) => Pending(b)'
      BY <1>t, <2>2, PendingStays
    <3>2. UNCHANGED <<sock, framed>>
      BY <2>2 DEF BrokerAnswers, BrokerPublishes, BrokerCompletes, Arrives
    <3> QED
      BY <2>1, <3>1, <3>2, WaitKept
  <2>3. CASE BrokerCloses \/ NetworkResets
    BY <2>3 DEF BrokerCloses, NetworkResets, WaitFounded
  <2> QED
    BY <2>1, <2>2, <2>3 DEF Environment
<1> QED
  BY <1>1, <1>2, <1>3, <1>t, WaitApi, WaitReturn, WaitTask DEF Next

\* The response timeout counts against a healthy connection only while an answer
\* to a subscribe or an unsubscribe is on its way, whatever callbacks call and
\* however deep, as long as no publication was read short of its end or beyond
\* (is_waiting_response; mqtt_client_task, lines 817-846 and 872).
THEOREM NoWaitWithoutRequest ==
    ASSUME ClientAssumption, SocketAssumption, MaxOwed > 0
    PROVE  Spec => []NoPhantomWait
<1>1. Init => WaitFounded
  BY DEF Init, WaitFounded
<1>2. IInv /\ WaitFounded /\ [Next]_vars => WaitFounded'
  <2> SUFFICES ASSUME IInv, WaitFounded, [Next]_vars PROVE WaitFounded'
    OBVIOUS
  <2>1. CASE Next
    BY <2>1, WaitStep
  <2>2. CASE UNCHANGED vars
    BY <2>2 DEF vars, linkVars, threadVars, WaitFounded, Pending
  <2> QED
    BY <2>1, <2>2
<1>3. IInv /\ WaitFounded => NoPhantomWait
  <2>1. LockDiscipline /\ owner = NoThread => pc[Task] \notin Clearing
    BY ClientAssumption DEF LockDiscipline, Holding, CallbackPcs, Clearing, Threads
  <2> QED
    BY <2>1 DEF IInv, WaitFounded, NoPhantomWait, Requested
<1> QED
  BY <1>1, <1>2, <1>3, Safety, PTL DEF Spec
===============================================================================
