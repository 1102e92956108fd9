--------------------------- MODULE ClientNotifyProofs ---------------------------
(***************************************************************************)
(* The client implements ClientNotify: its connect and disconnect          *)
(* callbacks tell the application what the header promises, for any        *)
(* threads, either kind of mutex and any calls made from callbacks, as     *)
(* long as nothing happens that is known to break the promise.             *)
(***************************************************************************)
EXTENDS MqttClientProofs

\* What is known to break the promise is left out, and nothing else.
\*   - A reset lets a packet fail to be sent while another thread waits for
\*     data; both then tell the loss.  It also ends a packet halfway, which a
\*     connection attempt takes for a refusal.
\*   - A refused connection is told twice.
\*   - The PUBACK of a publication with QoS 1 or 2 leaves the client in no
\*     state, and a connection is then said not to have been established.
\*   - A disconnect callback that sends tells the loss again.
\*   - A publication that is not read to its end leaves bytes that are taken for
\*     packets, of which any may be the one that no label is for.  One that is
\*     found too short for its own topic is refused before that.
Understood(p) == Whole(p) \/ LeftAfterTopic(p) < 0

Promising ==
    /\ \A p \in Publications : Understood(p)
    /\ "reset" \in Faults => AppThreads = {} /\ "partial" \notin Faults
    /\ ConnackCodes \subseteq {0}
    /\ PubQos \subseteq {0}
    /\ CallbackOps["disconnect"] \cap {"subscribe", "unsubscribe", "publish"} = {}

-------------------------------------------------------------------------------
(***************************************************************************)
(* The invariant, to be added to IInv.                                     *)
(***************************************************************************)

\* Without resets no packet fails to be sent.
NothingLost ==
    "reset" \notin Faults => nest = 0 /\ \A t \in Threads : pc[t] # "cb_lost"

\* The task tells of no refusal, says that an attempt has failed in no later
\* state, and finds the connection it waits for data from not ended by others.
TaskOnCourse ==
    /\ pc[Task] # "cb_refused"
    /\ pc[Task] = "cb_final_connect"
         => state \notin {"MQTT_CONNECTED", "MQTT_DISCONNECTING"}
    /\ InBranch => state # "DISCONNECTED"

\* A packet whose first bytes have come can be read to its end.
WireWhole ==
    /\ "reset" \notin Faults => QuietWire
    /\ "partial" \notin Faults => ~partial

\* The reader begins each packet at its first byte.
InStep ==
    /\ framed
    /\ \A i \in 1..Len(rx) : rx[i].type = "PUBLISH" => Understood(rx[i])

Expected(p) == p.type \notin {"CONNACK", "PUBACK"}

\* Nothing was sent to the broker, and it has sent nothing.
Untouched == rx = <<>> /\ ~served /\ owed["CONNACK"] = 0

\* A CONNACK comes first, once, and accepts the client; no PUBACK ever comes.
Greets ==
    /\ owed["PUBACK"] = 0
    /\ sock = "fresh" \/ state = "TCP_CONNECTING" => Untouched
    /\ state = "MQTT_CONNECTING" /\ rx = <<>> => ~served /\ owed["CONNACK"] <= 1
    /\ state = "MQTT_CONNECTING" /\ rx # <<>> =>
          /\ Head(rx) = Answer("CONNACK", 0)
          /\ owed["CONNACK"] = 0
          /\ \A i \in 2..Len(rx) : Expected(rx[i])
    /\ state \in {"MQTT_CONNECTED", "MQTT_DISCONNECTING"} =>
          /\ owed["CONNACK"] = 0
          /\ \A i \in 1..Len(rx) : Expected(rx[i])

NotifyInv == NothingLost /\ TaskOnCourse /\ WireWhole /\ InStep /\ Greets

-------------------------------------------------------------------------------
(***************************************************************************)
(* What the invariant says of single actions.                              *)
(***************************************************************************)

\* A packet is only found not to be sent by the one thread there is, and not
\* while it tells an end.
LEMMA LossIsSeenOnce ==
    ASSUME ClientAssumption, Promising, IInv, NotifyInv,
           NEW t \in Threads, NEW op \in {"subscribe", "unsubscribe", "publish"},
           Enters(t, op), state = "MQTT_CONNECTED", ~Connected
    PROVE  ~Ending /\ "reset" \in Faults /\ AppThreads = {} /\ t = Task
<1>t. ClientTypeOK /\ LockDiscipline /\ nest \in Nat
  BY DEF IInv, TypeOK, ClientTypeOK, ClientAssumption
<1>1. ~Ending
  <2>1. CASE owner = NoThread
    BY <2>1, <1>t, OwnerEnds
  <2>2. CASE owner # NoThread
    <3>1. owner = t /\ op \in CallbackOps[Callback(t)]
      BY <2>2 DEF Enters, InCallback
    <3>2. SUFFICES ASSUME nest > 0 \/ pc[t] \in Final PROVE FALSE
      BY <3>1, <1>t, OwnerEnds
    <3>3. pc[t] # "cb_final_connect"
      BY <1>t, <3>1 DEF NotifyInv, TaskOnCourse, LockDiscipline, Threads
    <3>4. Callback(t) = "disconnect"
      BY <1>t, <3>2, <3>3 DEF Callback, Final
    <3> QED
      BY <3>1, <3>4 DEF Promising
  <2> QED
    BY <2>1, <2>2
<1>2. sock = "reset"
  BY <1>1 DEF IInv, StateMatchesSocket, Active, Connected
<1>3. "reset" \in Faults
  BY <1>2 DEF NotifyInv, WireWhole, QuietWire
<1> QED
  BY <1>1, <1>3 DEF Promising, Threads

LEMMA LengthsAreNumbers ==
    ASSUME NEW p \in Packets
    PROVE  AfterTopic(p) \in Nat /\ LeftAfterTopic(p) \in Int
<1>1. AfterTopic(p) \in Nat /\ p.arg \in Nat
  BY DEF AfterTopic, Packets
<1>2. RemainingLength(p) \in Nat
  BY <1>1 DEF RemainingLength
<1>3. \A n \in Nat : DecodedLength(n) \in Int
  BY DEF DecodedLength
<1>4. DecodedLength(RemainingLength(p)) \in Int
  BY <1>2, <1>3
<1> QED
  BY <1>1, <1>4 DEF LeftAfterTopic

\* A publication that is understood takes no bytes of the packets after it.
LEMMA UnderstoodStops ==
    ASSUME SocketAssumption, NEW p \in Packets, Understood(p)
    PROVE  ~(TakenAfterTopic(p) > AfterTopic(p))
<1>1. AfterTopic(p) \in Nat
  BY LengthsAreNumbers
<1>2. CASE Whole(p)
  BY <1>1, <1>2 DEF Whole
<1>3. CASE LeftAfterTopic(p) < 0
  <2>1. LeftAfterTopic(p) \in Int
    BY LengthsAreNumbers
  <2>2. ~(LeftAfterTopic(p) > PointerSize)
    BY <1>3, <2>1 DEF SocketAssumption
  <2> QED
    BY <1>1, <1>3, <2>1, <2>2 DEF TakenAfterTopic
<1> QED
  BY <1>2, <1>3 DEF Understood

\* So the task misreads nothing.
LEMMA ReadsInStep ==
    ASSUME SocketAssumption, LinkTypeOK, InStep
    PROVE  /\ ~TaskMisreads
           /\ rx # <<>> => ~Overlong(Head(rx))
           /\ TaskReadsPublish => Whole(Head(rx)) /\ Consume
<1>1. ASSUME rx # <<>>
      PROVE  Head(rx) \in Packets /\ (Head(rx).type = "PUBLISH" => Understood(Head(rx)))
  <2>1. rx \in Seq(Packets) /\ Head(rx) = rx[1] /\ 1 \in 1..Len(rx) /\ Head(rx) \in Packets
    BY <1>1, HeadTailProperties DEF LinkTypeOK
  <2> QED
    BY <2>1 DEF InStep
<1>2. rx # <<>> => ~Overlong(Head(rx))
  BY <1>1, UnderstoodStops DEF Overlong
<1>3. ~TaskMisreads
  BY <1>2
     DEF InStep, TaskMisreads, TaskReadsBeyond, PublishArrived, Arrived,
         TaskStraysIntoPublish, TaskStraysIntoSuback, TaskStraysIntoAnswer,
         TaskStraysIntoEnd, Strays
<1>4. ASSUME TaskReadsPublish PROVE Whole(Head(rx)) /\ Consume
  <2>1. rx # <<>> /\ Head(rx).type = "PUBLISH"
    BY <1>4 DEF TaskReadsPublish, ReadsPacket, CanRead, Arrived
  <2>2. LeftAfterTopic(Head(rx)) >= 0
    BY <1>4 DEF TaskReadsPublish
  <2>3. LeftAfterTopic(Head(rx)) \in Int
    BY <1>1, <2>1, LengthsAreNumbers
  <2>4. Whole(Head(rx))
    BY <1>1, <2>1, <2>2, <2>3 DEF Understood
  <2> QED
    BY <1>4, <2>4 DEF TaskReadsPublish
<1> QED
  BY <1>2, <1>3, <1>4

\* A packet that has begun to arrive is read.
LEMMA PacketIsRead ==
    ASSUME SocketAssumption, LinkTypeOK, Promising, WireWhole, InStep, rx # <<>>
    PROVE  ~ReadFails
<1>1. ~Overlong(Head(rx)) /\ framed
  BY ReadsInStep DEF InStep
<1> QED
  BY <1>1 DEF Promising, WireWhole, QuietWire, ReadFails, CanRead, Arrived, Connected

\* The work of a label is done in the state it is for, or in a disconnection.
LEMMA BranchState ==
    ASSUME IInv, NotifyInv, InBranch
    PROVE  /\ branch = "MQTT_CONNECTING" => state = "MQTT_CONNECTING"
           /\ branch # "MQTT_CONNECTING" =>
                 state \in {"MQTT_CONNECTED", "MQTT_DISCONNECTING"}
  BY DEF IInv, BranchStaysValid, NotifyInv, TaskOnCourse

\* The first packet is the CONNACK, and later ones are of no other kind than the
\* task has a label for.
LEMMA FirstPacket ==
    ASSUME IInv, NotifyInv, pc[Task] = "reading", rx # <<>>
    PROVE  /\ branch = "MQTT_CONNECTING" => Head(rx).arg = 0
           /\ branch # "MQTT_CONNECTING" => Expected(Head(rx))
<1>1. rx \in Seq(Packets) /\ InBranch
  BY DEF IInv, TypeOK, LinkTypeOK, InBranch
<1>2. Head(rx) = rx[1] /\ 1 \in 1..Len(rx)
  BY <1>1, HeadTailProperties
<1>3. CASE branch = "MQTT_CONNECTING"
  BY <1>1, <1>3, BranchState DEF NotifyInv, Greets, Answer
<1>4. CASE branch # "MQTT_CONNECTING"
  BY <1>1, <1>2, <1>4, BranchState DEF NotifyInv, Greets
<1> QED
  BY <1>3, <1>4

-------------------------------------------------------------------------------
(***************************************************************************)
(* The wire.                                                               *)
(***************************************************************************)

\* A socket that is opened or closed has nothing in it.
LEMMA GreetsEmptied == ASSUME Emptied PROVE Greets'
  BY DEF Emptied, Greets, Untouched, NoneOwed, Answers

\* A step that leaves the wire alone, and does not go on to a state in which
\* more is expected.
LEMMA GreetsLeft ==
    ASSUME Greets, UNCHANGED <<rx, served, owed>>,
           sock' = "fresh" => sock = "fresh",
           \/ UNCHANGED state
           \/ state' \in {"DISCONNECTED", InvalidState}
           \/ state = "MQTT_CONNECTED" /\ state' = "MQTT_DISCONNECTING"
           \/ sock = "fresh" /\ state' = "TCP_CONNECTING"
    PROVE  Greets'
  BY DEF Greets, Untouched, InvalidState

\* The socket is closed, in the same state or after a disconnection.
LEMMA GreetsClosed ==
    ASSUME Greets, CloseSocket,
           \/ UNCHANGED state
           \/ state = "MQTT_CONNECTED" /\ state' = "MQTT_DISCONNECTING"
    PROVE  Greets'
<1>1. CASE Connected
  BY <1>1, GreetsEmptied DEF CloseSocket
<1>2. CASE ~Connected
  BY <1>2, GreetsLeft DEF CloseSocket, linkVars
<1> QED
  BY <1>1, <1>2

\* A request is sent that is not the CONNECT, with a QoS level of 0.
LEMMA GreetsSent ==
    ASSUME LinkTypeOK, Greets, NEW a \in Answers \ {"CONNACK", "PUBACK"}, Transmit(a),
           UNCHANGED state
    PROVE  Greets'
<1>1. owed'["CONNACK"] = owed["CONNACK"] /\ owed'["PUBACK"] = owed["PUBACK"]
  BY DEF Transmit, LinkTypeOK, Answers
<1> QED
  BY <1>1 DEF Transmit, Greets, Untouched

\* The first packet is read, and the others are of kinds that are expected.
LEMMA GreetsRead ==
    ASSUME LinkTypeOK, Greets, Consume,
           \/ UNCHANGED state /\ state \in {"MQTT_CONNECTED", "MQTT_DISCONNECTING"}
           \/ state = "MQTT_CONNECTING" /\ state' = "MQTT_CONNECTED"
    PROVE  Greets'
<1>1. /\ rx \in Seq(Packets) /\ rx # <<>> /\ rx' = Tail(rx)
      /\ UNCHANGED <<sock, served, owed>>
  BY DEF LinkTypeOK, Consume, CanRead, Arrived
<1>2. Len(rx') = Len(rx) - 1 /\ \A i \in 1..Len(rx') : rx'[i] = rx[i + 1] /\ i + 1 \in 2..Len(rx)
  BY <1>1, HeadTailProperties
<1>3. owed["CONNACK"] = 0 /\ \A i \in 2..Len(rx) : Expected(rx[i])
  BY <1>1 DEF Greets
<1>4. \A i \in 1..Len(rx') : Expected(rx'[i])
  BY <1>2, <1>3
<1>5. sock' # "fresh"
  BY <1>1 DEF Greets, Untouched
<1> QED
  BY <1>1, <1>3, <1>4, <1>5 DEF Greets, Untouched

\* The broker, and the network.
LEMMA GreetsWorld ==
    ASSUME Promising, SocketAssumption, LinkTypeOK, Greets, Environment, UNCHANGED state
    PROVE  Greets'
<1>c. 0..MaxOwed \subseteq Nat /\ {"CONNACK", "PUBACK"} \subseteq Answers
  BY DEF SocketAssumption, Answers
<1>1. ASSUME NEW p \in Packets, Arrives(p), Expected(p), ~Untouched, served,
             served' = served, owed'["CONNACK"] = owed["CONNACK"],
             owed'["PUBACK"] = owed["PUBACK"]
      PROVE  Greets'
  <2>1. /\ rx' = Append(rx, p) /\ rx \in Seq(Packets) /\ UNCHANGED sock
        /\ sock' # "fresh"
    BY <1>1 DEF Arrives, LinkTypeOK
  <2>2. /\ Len(rx') = Len(rx) + 1 /\ Len(rx) \in Nat
        /\ \A i \in 1..Len(rx) : rx'[i] = rx[i]
        /\ rx'[Len(rx) + 1] = p
    BY <2>1, AppendProperties
  <2>3. ASSUME NEW j \in {1, 2}, \A i \in j..Len(rx) : Expected(rx[i])
        PROVE  \A i \in j..Len(rx') : Expected(rx'[i])
    <3>1. ASSUME NEW i \in j..Len(rx') PROVE Expected(rx'[i])
      <4>1. i \in 1..Len(rx) \/ i = Len(rx) + 1
        BY <2>2
      <4> QED
        BY <1>1, <2>2, <2>3, <4>1
    <3> QED
      BY <3>1
  <2>4. state = "MQTT_CONNECTING" => rx # <<>> /\ Head(rx') = Head(rx)
    <3>1. SUFFICES ASSUME state = "MQTT_CONNECTING" PROVE rx # <<>> /\ Head(rx') = Head(rx)
      OBVIOUS
    <3>2. rx # <<>>
      BY <1>1, <3>1 DEF Greets
    <3>3. 1 \in 1..Len(rx) /\ Head(rx') = rx'[1] /\ Head(rx) = rx[1]
      BY <2>1, <2>2, <3>2, HeadTailProperties
    <3> QED
      BY <2>2, <3>2, <3>3
  <2>5. rx' # <<>>
    BY <2>1
  <2> QED
    BY <1>1, <2>1, <2>3, <2>4, <2>5 DEF Greets
<1>2. CASE BrokerAnswers
  <2>1. PICK a \in Answers : \E c \in Arguments(a) :
          /\ owed[a] > 0
          /\ a # "CONNACK" => served
          /\ Arrives(Answer(a, c))
          /\ owed' = [owed EXCEPT ![a] = @ - 1]
          /\ served' = (served \/ (a = "CONNACK" /\ c = 0))
    BY <1>2 DEF BrokerAnswers
  <2>2. PICK c \in Arguments(a) :
          /\ Arrives(Answer(a, c))
          /\ owed' = [owed EXCEPT ![a] = @ - 1]
          /\ served' = (served \/ (a = "CONNACK" /\ c = 0))
    BY <2>1
  <2>3. a # "PUBACK"
    BY <2>1 DEF Greets
  <2>4. CASE a = "CONNACK"
    <3>1. c = 0
      BY <2>2, <2>4 DEF Arguments, Promising
    <3>2. state # "TCP_CONNECTING" /\ sock # "fresh" /\ owed["CONNACK"] # 0
      BY <2>1, <2>4 DEF Greets, Untouched
    <3>3. state = "MQTT_CONNECTING" => rx = <<>> /\ owed["CONNACK"] = 1
      BY <2>1, <2>4, <1>c DEF Greets, LinkTypeOK
    <3>4. owed'["CONNACK"] = owed["CONNACK"] - 1 /\ owed'["PUBACK"] = owed["PUBACK"]
      BY <2>2, <2>4, <1>c DEF LinkTypeOK
    <3>5. rx' = Append(rx, Answer("CONNACK", 0)) /\ UNCHANGED sock
      BY <2>2, <2>4, <3>1 DEF Arrives
    <3>6. state \notin {"MQTT_CONNECTED", "MQTT_DISCONNECTING"}
      BY <3>2 DEF Greets
    <3>7. state = "MQTT_CONNECTING" =>
            /\ rx' # <<>> /\ Len(rx') = 1
            /\ Head(rx') = Answer("CONNACK", 0)
      BY <3>3, <3>5
    <3> QED
      BY <3>2, <3>3, <3>4, <3>5, <3>6, <3>7 DEF Greets
  <2>5. CASE a # "CONNACK"
    <3>1. Answer(a, c) \in Packets /\ Expected(Answer(a, c))
      BY <2>3, <2>5 DEF SocketAssumption, Arguments, Answer, Packets, Expected
    <3>2. served /\ served' = served /\ ~Untouched
      BY <2>1, <2>2, <2>5 DEF Untouched
    <3>3. owed'["CONNACK"] = owed["CONNACK"] /\ owed'["PUBACK"] = owed["PUBACK"]
      BY <2>2, <2>3, <2>5, <1>c DEF LinkTypeOK
    <3> QED
      BY <1>1, <2>2, <3>1, <3>2, <3>3
  <2> QED
    BY <2>4, <2>5
<1>3. CASE BrokerPublishes
  <2>1. PICK p \in Publications : served /\ Arrives(p) /\ UNCHANGED <<owed, served>>
    BY <1>3 DEF BrokerPublishes
  <2>2. p \in Packets /\ Expected(p)
    BY DEF SocketAssumption, Expected
  <2> QED
    BY <1>1, <2>1, <2>2 DEF Untouched
<1>4. CASE BrokerCompletes
  BY <1>4, GreetsLeft DEF BrokerCompletes
<1>5. CASE BrokerCloses \/ NetworkResets
  <2>1. /\ sock # "fresh" /\ sock' # "fresh" /\ ~served' /\ owed' = NoneOwed
        /\ rx' = rx \/ rx' = <<>>
    BY <1>5 DEF BrokerCloses, NetworkResets, Connected
  <2>2. owed'["CONNACK"] = 0 /\ owed'["PUBACK"] = 0
    BY <2>1 DEF NoneOwed, Answers
  <2> QED
    BY <2>1, <2>2 DEF Greets, Untouched
<1> QED
  BY <1>2, <1>3, <1>4, <1>5 DEF Environment

\* What is on the wire stays readable.
LEMMA WholeStep == ASSUME LinkTypeOK, WireWhole, Calls PROVE WireWhole'
<1>1. ASSUME "partial" \notin Faults, ~partial PROVE ~partial'
  <2>1. CASE Environment
    BY <1>1, <2>1
       DEF Environment, BrokerAnswers, BrokerPublishes, Arrives, BrokerCompletes,
           BrokerCloses, NetworkResets
  <2> QED
    BY <1>1, <2>1
       DEF Calls, OpenSocket, Emptied, ConnectSocket, CloseSocket, Transmit, Consume,
           linkVars
<1> QED
  BY <1>1, QuietStep DEF WireWhole

\* The reader stays in step.
LEMMA InStepStep ==
    ASSUME Promising, SocketAssumption, LinkTypeOK, InStep, Next
    PROVE  InStep'
<1>1. Calls
  BY NextCalls, ReadsInStep DEF StepsOut
<1>2. ASSUME NEW p \in Packets, p.type = "PUBLISH" => Understood(p), Arrives(p)
      PROVE  InStep'
  <2>1. framed' /\ rx' = Append(rx, p) /\ rx \in Seq(Packets)
    BY <1>2 DEF Arrives, InStep, LinkTypeOK
  <2>2. \A i \in 1..Len(rx') : rx'[i] = p \/ (i \in 1..Len(rx) /\ rx'[i] = rx[i])
    BY <2>1, AppendProperties
  <2> QED
    BY <1>2, <2>1, <2>2 DEF InStep
<1>3. CASE BrokerAnswers
  <2>1. PICK a \in Answers : \E c \in Arguments(a) : Arrives(Answer(a, c))
    BY <1>3 DEF BrokerAnswers
  <2>2. PICK c \in Arguments(a) : Arrives(Answer(a, c))
    BY <2>1
  <2>3. Answer(a, c) \in Packets /\ Answer(a, c).type # "PUBLISH"
    BY DEF SocketAssumption, Arguments, Answer, Answers, Packets
  <2> QED
    BY <1>2, <2>2, <2>3
<1>4. CASE BrokerPublishes
  <2>1. PICK p \in Publications : Arrives(p)
    BY <1>4 DEF BrokerPublishes
  <2>2. p \in Packets
    BY DEF SocketAssumption
  <2>3. Understood(p)
    BY DEF Promising
  <2> QED
    BY <1>2, <2>1, <2>2, <2>3
<1>5. CASE BrokerCompletes \/ BrokerCloses \/ NetworkResets
  <2>1. UNCHANGED framed /\ (rx' = rx \/ rx' = <<>>)
    BY <1>5 DEF BrokerCompletes, BrokerCloses, NetworkResets
  <2> QED
    BY <2>1 DEF InStep
<1>6. CASE Consume
  <2>1. rx \in Seq(Packets) /\ rx # <<>> /\ rx' = Tail(rx) /\ framed'
    BY <1>6 DEF Consume, CanRead, Arrived, LinkTypeOK, InStep
  <2>2. \A i \in 1..Len(rx') : i + 1 \in 1..Len(rx) /\ rx'[i] = rx[i + 1]
    BY <2>1, HeadTailProperties
  <2> QED
    BY <2>1, <2>2 DEF InStep
<1>7. ASSUME Emptied PROVE InStep'
  BY <1>7 DEF Emptied, InStep
<1>8. CASE \/ ConnectSocket \/ UNCHANGED linkVars
           \/ \E a \in Answers : Transmit(a)
  BY <1>8 DEF ConnectSocket, Transmit, linkVars, InStep
<1>9. CASE CloseSocket \/ \E opened \in BOOLEAN : OpenSocket(opened)
  BY <1>7, <1>8, <1>9 DEF CloseSocket, OpenSocket
<1> QED
  BY <1>1, <1>3, <1>4, <1>5, <1>6, <1>8, <1>9 DEF Calls, Environment

\* Every step of the client leaves the wire as Greets wants it.
LEMMA GreetsStep ==
    ASSUME ClientAssumption, SocketAssumption, Promising, IInv, NotifyInv, Next
    PROVE  Greets'
<1> USE DEF linkVars
<1>t. LinkTypeOK /\ Greets
  BY DEF IInv, TypeOK, NotifyInv
<1>a. {"SUBACK", "UNSUBACK", "PINGRESP"} \subseteq Answers \ {"CONNACK", "PUBACK"}
  BY DEF Answers
<1>f. Finish => Greets'
  BY <1>t, GreetsClosed DEF Finish, NotifyEnd
<1>k. ASSUME UNCHANGED <<linkVars, state>> PROVE Greets'
  BY <1>k, <1>t, GreetsLeft
<1>l. ASSUME NEW t \in Threads, LosesConnection(t) PROVE Greets'
  BY <1>l, <1>t, GreetsClosed DEF LosesConnection
<1>1. CASE MqttClientInit
  BY <1>1, GreetsEmptied DEF MqttClientInit, OpenSocket
<1>2. ASSUME NEW t \in Threads, Api(t) PROVE Greets'
  <2>1. CASE SetIdentity(t) \/ SetKeepalive(t)
    BY <2>1, <1>k DEF SetIdentity, SetKeepalive
  <2>2. CASE Connect(t)
    BY <2>2, <1>t, GreetsLeft DEF Connect, ConnectSocket
  <2>3. CASE Disconnect(t)
    BY <2>3, <1>t, GreetsClosed DEF Disconnect
  <2>4. ASSUME NEW op, NEW a \in {"SUBACK", "UNSUBACK"}, Request(t, op, a) PROVE Greets'
    BY <2>4, <1>a, <1>l, <1>t, GreetsSent DEF Request
  <2>5. CASE Publish(t)
    <3>1. CASE LosesConnection(t)
      BY <3>1, <1>l
    <3>2. CASE ~LosesConnection(t)
      <4>1. UNCHANGED <<linkVars, state>>
        BY <2>5, <3>2 DEF Publish, Promising, TransmitOnly
      <4> QED
        BY <4>1, <1>k
    <3> QED
      BY <3>1, <3>2
  <2> QED
    BY <1>2, <2>1, <2>2, <2>3, <2>4, <2>5 DEF Api, Subscribe, Unsubscribe
<1>3. ASSUME NEW t \in Threads, BlocksOnItself(t) \/ ReturnFromCallback(t) PROVE Greets'
  <2>1. CASE BlocksOnItself(t) \/ ReturnsToBranch(t)
    BY <2>1, <1>k DEF BlocksOnItself, ReturnsToBranch
  <2>2. CASE ReturnsNested(t) \/ ReturnsFinal(t)
    BY <2>2, <1>t, GreetsLeft DEF ReturnsNested, ReturnsFinal, AfterLost
  <2>3. CASE ReturnsRefused(t)
    BY <2>3, <1>f DEF ReturnsRefused
  <2> QED
    BY <1>3, <2>1, <2>2, <2>3 DEF ReturnFromCallback
<1>4. CASE TaskBegins
  <2>1. CASE TaskSettles
    BY <2>1, <1>t, GreetsLeft DEF TaskSettles
  <2>2. CASE TaskSendsConnect
    <3>1. Untouched /\ owed["PUBACK"] = 0
      BY <2>2, <1>t DEF TaskSendsConnect, Greets
    <3>2. owed'["CONNACK"] \in {0, 1} /\ owed'["PUBACK"] = 0
      BY <2>2, <3>1, <1>t DEF TaskSendsConnect, Transmit, LinkTypeOK, Answers, Untouched
    <3>3. rx' = <<>> /\ ~served' /\ sock' # "fresh" /\ state' = "MQTT_CONNECTING"
      BY <2>2, <3>1 DEF TaskSendsConnect, Transmit, Connected, Untouched
    <3> QED
      BY <3>2, <3>3 DEF Greets
  <2>3. CASE TaskFailsToConnect
    BY <2>3, <1>f DEF TaskFailsToConnect
  <2>4. CASE TaskPolls
    BY <2>4, <1>a, <1>k, <1>t, GreetsSent DEF TaskPolls
  <2> QED
    BY <1>4, <2>1, <2>2, <2>3, <2>4 DEF TaskBegins
<1>5. CASE TaskSelects \/ TaskResumes
  BY <1>5, <1>f, <1>k
     DEF TaskSelects, TaskResumes, TaskStartsReading, TaskGivesUp, TaskFindsNothing
<1>6. CASE TaskReads
  <2>1. ASSUME Consume, pc[Task] = "reading", branch # "MQTT_CONNECTING", UNCHANGED state
        PROVE  Greets'
    <3>1. state \in {"MQTT_CONNECTED", "MQTT_DISCONNECTING"}
      BY <2>1, BranchState DEF InBranch
    <3> QED
      BY <2>1, <3>1, <1>t, GreetsRead
  <2>2. CASE TaskFailsToRead
    BY <2>2, <1>f DEF TaskFailsToRead
  <2>3. CASE TaskFailsInPayload
    BY <2>3, <1>t, PacketIsRead DEF TaskFailsInPayload, NotifyInv
  <2>4. CASE TaskReadsConnack
    <3>1. pc[Task] = "reading" /\ branch = "MQTT_CONNECTING" /\ Consume /\ rx # <<>>
      BY <2>4 DEF TaskReadsConnack, Reads, Consume, CanRead, Arrived
    <3>2. state = "MQTT_CONNECTING" /\ Head(rx).arg = 0
      BY <3>1, BranchState, FirstPacket DEF InBranch
    <3> QED
      BY <2>4, <3>1, <3>2, <1>t, GreetsRead DEF TaskReadsConnack
  <2>5. CASE TaskReadsPublish
    BY <2>1, <2>5, <1>t, ReadsInStep
       DEF TaskReadsPublish, GivesMessage, ReadsPacket, Reads, NotifyInv
  <2>9. CASE TaskRefusesPublish
    BY <2>9, <1>f DEF TaskRefusesPublish
  <2>6. CASE TaskReadsSuback
    BY <2>1, <2>6, <1>f DEF TaskReadsSuback, ReadsPacket, Reads
  <2>7. CASE TaskReadsAnswer
    BY <2>1, <2>7 DEF TaskReadsAnswer, ReadsPacket, Reads
  <2>8. CASE TaskReadsOther
    BY <2>8, FirstPacket DEF TaskReadsOther, ReadsPacket, Reads, CanRead, Arrived, Expected
  <2> QED
    BY <1>6, <2>2, <2>3, <2>4, <2>5, <2>6, <2>7, <2>8, <2>9 DEF TaskReads
<1>9. CASE TaskMisreads
  BY <1>9, <1>t, ReadsInStep DEF NotifyInv
<1>7. CASE KeepaliveElapses \/ ResponseElapses
  BY <1>7, <1>k DEF KeepaliveElapses, ResponseElapses, clientVars
<1>8. CASE World
  BY <1>8, <1>t, GreetsWorld DEF World, clientVars
<1> QED
  BY <1>1, <1>2, <1>3, <1>4, <1>5, <1>6, <1>7, <1>8, <1>9 DEF Next, MqttClientTask

-------------------------------------------------------------------------------
(***************************************************************************)
(* The threads.                                                            *)
(***************************************************************************)

\* Without resets no call tells of a loss.
LEMMA NothingLostStep ==
    ASSUME ClientAssumption, SocketAssumption, Promising, IInv, NotifyInv, Next
    PROVE  NothingLost'
<1> USE DEF threadVars, clientVars
<1> SUFFICES ASSUME "reset" \notin Faults
             PROVE  nest' = 0 /\ \A t \in Threads : pc'[t] # "cb_lost"
  BY DEF NothingLost
<1>t. /\ pc \in [Threads -> Pcs] /\ Task \in Threads
      /\ nest = 0 /\ \A t \in Threads : pc[t] # "cb_lost"
  BY DEF IInv, TypeOK, ClientTypeOK, Threads, NotifyInv, NothingLost
<1>u. ASSUME UNCHANGED <<pc, nest>>
      PROVE  nest' = 0 /\ \A t \in Threads : pc'[t] # "cb_lost"
  BY <1>u, <1>t
<1>r. ASSUME NEW t \in Threads, NEW p, pc' = [pc EXCEPT ![t] = p], p # "cb_lost",
             UNCHANGED nest
      PROVE  nest' = 0 /\ \A u \in Threads : pc'[u] # "cb_lost"
  BY <1>r, <1>t
<1>n. ASSUME NEW s, NotifyEnd(s), UNCHANGED nest
      PROVE  nest' = 0 /\ \A t \in Threads : pc'[t] # "cb_lost"
  BY <1>n, <1>r, <1>t DEF NotifyEnd, Runs
<1>1. CASE MqttClientInit
  BY <1>1, <1>u DEF MqttClientInit
<1>2. ASSUME NEW t \in Threads, Api(t)
      PROVE  nest' = 0 /\ \A u \in Threads : pc'[u] # "cb_lost"
  <2>1. CASE SetIdentity(t) \/ SetKeepalive(t) \/ Connect(t) \/ Disconnect(t)
    BY <2>1, <1>u DEF SetIdentity, SetKeepalive, Connect, Disconnect
  <2>2. ASSUME NEW op \in {"subscribe", "unsubscribe"}, NEW a, Request(t, op, a)
        PROVE  UNCHANGED <<pc, nest>>
    BY <2>2, LossIsSeenOnce DEF Request, LosesConnection
  <2>3. CASE Publish(t)
    BY <2>3, <1>u, LossIsSeenOnce DEF Publish, LosesConnection
  <2> QED
    BY <1>2, <1>u, <2>1, <2>2, <2>3 DEF Api, Subscribe, Unsubscribe
<1>3. ASSUME NEW t \in Threads, BlocksOnItself(t) \/ ReturnFromCallback(t)
      PROVE  nest' = 0 /\ \A u \in Threads : pc'[u] # "cb_lost"
  BY <1>3, <1>t, <1>u, <1>n, <1>r
     DEF BlocksOnItself, ReturnFromCallback, ReturnsNested, ReturnsToBranch,
         ReturnsRefused, ReturnsFinal, Release, Finish
<1>4. CASE TaskBegins \/ TaskSelects \/ TaskResumes
  BY <1>4, <1>t, <1>u, <1>n, <1>r
     DEF TaskBegins, TaskSettles, TaskSendsConnect, TaskFailsToConnect, TaskPolls,
         TaskSelects, TaskResumes, TaskStartsReading, TaskGivesUp, TaskFindsNothing,
         Finish, Release, Runs
<1>5. CASE TaskReads
  <2>1. CASE TaskFailsToRead \/ TaskFailsInPayload \/ TaskReadsConnack
    BY <2>1, <1>t, <1>n, <1>r
       DEF TaskFailsToRead, TaskFailsInPayload, TaskReadsConnack, Finish, Runs
  <2>2. CASE TaskReadsPublish \/ TaskReadsSuback \/ TaskReadsAnswer \/ TaskReadsOther
    BY <2>2, <1>t, <1>n, <1>r
       DEF TaskReadsPublish, GivesMessage, TaskReadsSuback, TaskReadsAnswer,
           TaskReadsOther, Finish, Runs, Release
  <2>3. CASE TaskRefusesPublish
    BY <2>3, <1>n DEF TaskRefusesPublish, Finish
  <2> QED
    BY <1>5, <2>1, <2>2, <2>3 DEF TaskReads
<1>7. CASE TaskMisreads
  BY <1>7, ReadsInStep DEF IInv, TypeOK, NotifyInv
<1>6. CASE KeepaliveElapses \/ ResponseElapses \/ World
  BY <1>6, <1>u DEF KeepaliveElapses, ResponseElapses, World
<1> QED
  BY <1>1, <1>2, <1>3, <1>4, <1>5, <1>6, <1>7 DEF Next, MqttClientTask

\* The task ends a connection, or goes on in or after another callback.
LEMMA CourseRuns ==
    ASSUME ClientAssumption, ClientTypeOK, NEW p \in Pcs, pc' = [pc EXCEPT ![Task] = p],
           p # "cb_refused",
           p = "cb_final_connect" => state' \notin {"MQTT_CONNECTED", "MQTT_DISCONNECTING"},
           p \in Waiting \cup {"reading"} => state' # "DISCONNECTED"
    PROVE  TaskOnCourse'
<1>1. pc'[Task] = p
  BY DEF ClientTypeOK, Threads
<1> QED
  BY <1>1 DEF TaskOnCourse, InBranch

LEMMA CourseEnds ==
    ASSUME ClientAssumption, ClientTypeOK, NEW s, NotifyEnd(s)
    PROVE  TaskOnCourse'
<1>1. {"cb_final_connect", "cb_final_disconnect"} \subseteq Pcs
  BY DEF Pcs, CallbackPcs
<1> QED
  BY <1>1, CourseRuns DEF NotifyEnd, Runs, Waiting

\* Every step keeps the task on its course.
LEMMA CourseStep ==
    ASSUME ClientAssumption, SocketAssumption, Promising, IInv, NotifyInv, Next
    PROVE  TaskOnCourse'
<1> USE DEF threadVars, clientVars
<1>t. ClientTypeOK /\ LinkTypeOK /\ LockDiscipline /\ TaskOnCourse /\ Task \in Threads
  BY DEF IInv, TypeOK, NotifyInv, Threads
<1>p. {"idle", "reading", "select", "relock", "cb_connected", "cb_publish", "cb_suback",
       "cb_lost"} \subseteq Pcs
  BY DEF Pcs, CallbackPcs, Waiting
<1>u. UNCHANGED <<pc, state>> => TaskOnCourse'
  BY <1>t DEF TaskOnCourse, InBranch
<1>f. Finish => TaskOnCourse'
  BY <1>t, CourseEnds DEF Finish
<1>s. ASSUME NEW t \in Threads, pc[t] \in CallbackPcs PROVE t = Task
  BY <1>s, <1>t DEF LockDiscipline, Threads, CallbackPcs, NotifyInv, NothingLost, Promising
<1>1. CASE MqttClientInit
  BY <1>1, <1>t DEF MqttClientInit, TaskOnCourse, InBranch, Waiting
<1>2. ASSUME NEW t \in Threads, Api(t) PROVE TaskOnCourse'
  <2>1. CASE SetIdentity(t) \/ SetKeepalive(t)
    BY <2>1, <1>u DEF SetIdentity, SetKeepalive
  <2>2. CASE Connect(t) \/ Disconnect(t)
    BY <2>2, <1>t DEF Connect, Disconnect, TaskOnCourse, InBranch
  <2>3. ASSUME NEW op \in {"subscribe", "unsubscribe", "publish"}, Enters(t, op),
               state = "MQTT_CONNECTED", LosesConnection(t)
        PROVE  TaskOnCourse'
    <3>1. t = Task
      BY <2>3, LossIsSeenOnce DEF LosesConnection
    <3> QED
      BY <2>3, <3>1, <1>p, <1>t, <1>u, CourseRuns DEF LosesConnection, Waiting
  <2>4. ASSUME NEW op \in {"subscribe", "unsubscribe"}, NEW a, Request(t, op, a)
        PROVE  TaskOnCourse'
    BY <2>3, <2>4, <1>u DEF Request
  <2>5. CASE Publish(t)
    BY <2>3, <2>5, <1>u DEF Publish
  <2> QED
    BY <1>2, <2>1, <2>2, <2>4, <2>5 DEF Api, Subscribe, Unsubscribe
<1>3. ASSUME NEW t \in Threads, BlocksOnItself(t) PROVE TaskOnCourse'
  BY <1>3, <1>u DEF BlocksOnItself
<1>4. ASSUME NEW t \in Threads, ReturnFromCallback(t) PROVE TaskOnCourse'
  <2>1. t = Task /\ pc[Task] \in CallbackPcs
    BY <1>4, <1>s
       DEF ReturnFromCallback, ReturnsNested, ReturnsToBranch, ReturnsRefused,
           ReturnsFinal, InCallback
  <2>2. ~InBranch
    BY <2>1 DEF InBranch, CallbackPcs, Waiting
  <2>3. CASE ReturnsNested(t)
    BY <2>2, <2>3, <1>t DEF ReturnsNested, AfterLost, TaskOnCourse, InBranch
  <2>4. CASE ReturnsToBranch(t) \/ ReturnsFinal(t)
    BY <2>1, <2>4, <1>p, <1>t, CourseRuns
       DEF ReturnsToBranch, ReturnsFinal, Release, Waiting
  <2>5. CASE ReturnsRefused(t)
    BY <2>5, <1>f DEF ReturnsRefused
  <2> QED
    BY <1>4, <2>3, <2>4, <2>5 DEF ReturnFromCallback
<1>5. CASE TaskBegins
  <2>1. CASE TaskSettles \/ TaskSendsConnect
    BY <2>1, <1>t
       DEF TaskSettles, TaskSendsConnect, TaskEnters, TaskOnCourse, InBranch, Waiting
  <2>2. CASE TaskFailsToConnect
    BY <2>2, <1>f DEF TaskFailsToConnect
  <2>3. CASE TaskPolls
    BY <2>3, <1>p, <1>t, CourseRuns DEF TaskPolls
  <2> QED
    BY <1>5, <2>1, <2>2, <2>3 DEF TaskBegins
<1>6. CASE TaskSelects \/ TaskStartsReading
  <2>1. state # "DISCONNECTED"
    BY <1>6, <1>t
       DEF TaskSelects, TaskStartsReading, TaskRelocks, TaskOnCourse, InBranch, Waiting
  <2> QED
    BY <1>6, <2>1, <1>p, <1>t, CourseRuns DEF TaskSelects, TaskStartsReading, Runs
<1>7. CASE TaskGivesUp \/ TaskFindsNothing
  BY <1>7, <1>f, <1>p, <1>t, CourseRuns DEF TaskGivesUp, TaskFindsNothing, Release, Waiting
<1>8. CASE TaskReads
  <2>1. CASE TaskFailsToRead
    BY <2>1, <1>f DEF TaskFailsToRead
  <2>2. CASE TaskFailsInPayload
    BY <2>2, <1>t, PacketIsRead DEF TaskFailsInPayload, NotifyInv
  <2>3. CASE TaskReadsConnack
    <3>1. Head(rx).arg = 0
      BY <2>3, FirstPacket DEF TaskReadsConnack, Reads, Consume, CanRead, Arrived
    <3> QED
      BY <2>3, <3>1, <1>p, <1>t, CourseRuns DEF TaskReadsConnack, Runs, Waiting
  <2>4. CASE TaskReadsPublish \/ TaskReadsSuback
    BY <2>4, <1>f, <1>p, <1>t, CourseRuns
       DEF TaskReadsPublish, GivesMessage, TaskReadsSuback, Runs, Waiting
  <2>6. CASE TaskRefusesPublish
    BY <2>6, <1>f DEF TaskRefusesPublish
  <2>5. CASE TaskReadsAnswer \/ TaskReadsOther
    BY <2>5, <1>p, <1>t, CourseRuns, CourseEnds
       DEF TaskReadsAnswer, TaskReadsOther, Release, Waiting
  <2> QED
    BY <1>8, <2>1, <2>2, <2>3, <2>4, <2>5, <2>6 DEF TaskReads
<1>10. CASE TaskMisreads
  BY <1>10, <1>t, ReadsInStep DEF NotifyInv
<1>9. CASE KeepaliveElapses \/ ResponseElapses \/ World
  BY <1>9, <1>u DEF KeepaliveElapses, ResponseElapses, World
<1> QED
  BY <1>1, <1>2, <1>3, <1>4, <1>5, <1>6, <1>7, <1>8, <1>9, <1>10
     DEF Next, MqttClientTask, TaskResumes

-------------------------------------------------------------------------------
(***************************************************************************)
(* The refinement.                                                         *)
(***************************************************************************)

\* Where the application stands in state s.
Stands(ending, s) ==
    IF ending THEN "idle"
    ELSE IF s \in {"TCP_CONNECTING", "MQTT_CONNECTING"} THEN "connecting"
    ELSE IF s = "MQTT_CONNECTED" THEN "connected"
    ELSE IF s = "MQTT_DISCONNECTING" THEN "closing" ELSE "idle"

\* Without the case the invariant excludes, the mapping depends on no more.
LEMMA ToldStands ==
    ASSUME TaskOnCourse, TaskOnCourse'
    PROVE  Told = Stands(Ending, state) /\ Told' = Stands(Ending', state')
<1>1. CASE Ending
  BY <1>1 DEF TaskOnCourse, Told, Stands
<1>2. CASE ~Ending
  BY <1>2 DEF TaskOnCourse, Told, Stands
<1>3. CASE Ending'
  BY <1>3 DEF TaskOnCourse, Told, Stands
<1>4. CASE ~Ending'
  BY <1>4 DEF TaskOnCourse, Told, Stands
<1> QED
  BY <1>1, <1>2, <1>3, <1>4

\* A thread that has the mutex, or finds it free, goes on without an end to tell.
LEMMA NoEnd ==
    ASSUME ClientAssumption, ClientTypeOK, LockDiscipline, NEW t \in Threads,
           owner = NoThread \/ owner = t, NEW p, p \notin Final,
           pc' = [pc EXCEPT ![t] = p], nest = 0, UNCHANGED nest
    PROVE  ~Ending'
<1>1. \A u \in Threads : u # t => pc[u] \notin Final
  BY DEF LockDiscipline, ClientAssumption, Holding, CallbackPcs, Final
<1>2. \A u \in Threads : pc'[u] \notin Final
  BY <1>1 DEF ClientTypeOK
<1> QED
  BY <1>2 DEF Ending, Final

LEMMA EndBegins ==
    ASSUME ClientTypeOK, NEW s, NotifyEnd(s)
    PROVE  Ending'
<1>1. pc'[Task] \in {"cb_final_connect", "cb_final_disconnect"} /\ Task \in Threads
  BY DEF NotifyEnd, Runs, ClientTypeOK, Threads
<1> QED
  BY <1>1 DEF Ending

\* Every step of the client is one of ClientNotify, or changes nothing there.
LEMMA PromiseStep ==
    ASSUME ClientAssumption, SocketAssumption, Promising, IInv, NotifyInv, NotifyInv', Next
    PROVE  [Notifications!Next]_(Notifications!notifyVars)
<1> USE DEF threadVars, clientVars
<1>t. /\ ClientTypeOK /\ LinkTypeOK /\ LockDiscipline /\ Task \in Threads /\ nest \in Nat
      /\ TaskOnCourse
  BY DEF IInv, TypeOK, ClientTypeOK, ClientAssumption, Threads, NotifyInv
<1>s. Told = Stands(Ending, state) /\ Told' = Stands(Ending', state')
  BY ToldStands DEF NotifyInv
<1>k. ASSUME Ending' <=> Ending, UNCHANGED <<state, note>>
      PROVE  UNCHANGED Notifications!notifyVars
  BY <1>k, <1>s DEF Notifications!notifyVars
<1>u. UNCHANGED <<pc, nest>> => (Ending' <=> Ending)
  BY DEF Ending
<1>e. ASSUME ~Ending, NotifyEnd(state),
             state \in {"TCP_CONNECTING", "MQTT_CONNECTING", "MQTT_CONNECTED",
                        "MQTT_DISCONNECTING"}
      PROVE  Notifications!Fail \/ Notifications!Lose \/ Notifications!Confirm
  <2>1. Told' = "idle"
    BY <1>e, <1>s, <1>t, EndBegins DEF Stands
  <2> QED
    BY <1>e, <1>s, <2>1
       DEF Stands, NotifyEnd, EndKind, Notify, Notifications!Fail, Notifications!Lose,
           Notifications!Confirm, Notifications!Call
<1>1. CASE MqttClientInit
  BY <1>1, <1>s, <1>u DEF MqttClientInit, Stands, Notifications!notifyVars
<1>2. ASSUME NEW t \in Threads, Api(t)
      PROVE  [Notifications!Next]_(Notifications!notifyVars)
  <2>1. CASE SetIdentity(t) \/ SetKeepalive(t)
    BY <2>1, <1>k, <1>u DEF SetIdentity, SetKeepalive
  <2>2. CASE Connect(t)
    <3>1. ~Ending
      BY <2>2, <1>t, OwnerEnds DEF Connect, ConnectSocket, IInv, FreshIsQuiet
    <3>2. Notifications!Request
      BY <2>2, <3>1, <1>s, <1>u DEF Connect, Stands, Notifications!Request
    <3> QED
      BY <3>2 DEF Notifications!Next
  <2>3. CASE Disconnect(t)
    <3>1. CASE Ending
      BY <2>3, <3>1, <1>s, <1>u DEF Disconnect, Stands, Notifications!notifyVars
    <3>2. CASE ~Ending
      BY <2>3, <3>2, <1>s, <1>u
         DEF Disconnect, Stands, Notifications!Close, Notifications!Next
    <3> QED
      BY <3>1, <3>2
  <2>4. ASSUME NEW op \in {"subscribe", "unsubscribe", "publish"}, Enters(t, op),
               state = "MQTT_CONNECTED", LosesConnection(t)
        PROVE  Notifications!Lose
    <3>1. ~Ending
      BY <2>4, LossIsSeenOnce DEF LosesConnection
    <3>2. Ending'
      <4>1. CASE owner = t
        BY <2>4, <4>1, <1>t DEF LosesConnection, Ending
      <4>2. CASE owner # t
        <5>1. pc'[t] = "cb_lost"
          BY <2>4, <4>2, <1>t DEF LosesConnection, ClientTypeOK
        <5> QED
          BY <5>1 DEF Ending
      <4> QED
        BY <4>1, <4>2
    <3> QED
      BY <2>4, <3>1, <3>2, <1>s
         DEF LosesConnection, Stands, Notify, Notifications!Lose, Notifications!Call
  <2>5. ASSUME NEW op \in {"subscribe", "unsubscribe"}, NEW a, Request(t, op, a)
        PROVE  [Notifications!Next]_(Notifications!notifyVars)
    BY <2>4, <2>5, <1>k, <1>u DEF Request, Notifications!Next
  <2>6. CASE Publish(t)
    BY <2>4, <2>6, <1>k, <1>u DEF Publish, Notifications!Next
  <2> QED
    BY <1>2, <2>1, <2>2, <2>3, <2>5, <2>6 DEF Api, Subscribe, Unsubscribe
<1>3. ASSUME NEW t \in Threads, BlocksOnItself(t)
      PROVE  UNCHANGED Notifications!notifyVars
  BY <1>3, <1>k, <1>u DEF BlocksOnItself
<1>4. ASSUME NEW t \in Threads, ReturnFromCallback(t)
      PROVE  UNCHANGED Notifications!notifyVars
  <2>1. owner = t /\ (Ending <=> nest > 0 \/ pc[t] \in Final)
    BY <1>4, <1>t, OwnerEnds
       DEF ReturnFromCallback, ReturnsNested, ReturnsToBranch, ReturnsRefused,
           ReturnsFinal, InCallback
  <2>2. CASE ReturnsNested(t) \/ ReturnsFinal(t)
    <3>1. Ending /\ state' = "DISCONNECTED" /\ UNCHANGED note
      BY <2>1, <2>2 DEF ReturnsNested, ReturnsFinal, AfterLost, Final
    <3> QED
      BY <3>1, <1>s DEF Stands, Notifications!notifyVars
  <2>3. CASE ReturnsToBranch(t)
    <3>1. ~Ending
      BY <2>1, <2>3 DEF ReturnsToBranch, Final
    <3>2. ~Ending'
      BY <2>1, <2>3, <1>t, NoEnd DEF ReturnsToBranch, Release, Final
    <3> QED
      BY <2>3, <3>1, <3>2, <1>k DEF ReturnsToBranch
  <2>4. ~ReturnsRefused(t)
    BY <2>1, <1>t DEF ReturnsRefused, LockDiscipline, TaskOnCourse, Threads
  <2> QED
    BY <1>4, <2>2, <2>3, <2>4 DEF ReturnFromCallback
<1>5. CASE TaskBegins
  <2>1. owner = NoThread /\ ~Ending /\ nest = 0
    BY <1>5, <1>t, OwnerEnds, NobodyUnder
       DEF TaskBegins, TaskSettles, TaskSendsConnect, TaskFailsToConnect, TaskPolls,
           TaskEnters
  <2>2. CASE TaskSettles
    BY <2>1, <2>2, <1>s, <1>u
       DEF TaskSettles, Stands, Notifications!Settle, Notifications!Next
  <2>3. CASE TaskSendsConnect
    BY <2>1, <2>3, <1>s, <1>u DEF TaskSendsConnect, Stands, Notifications!notifyVars
  <2>4. CASE TaskFailsToConnect
    BY <2>1, <2>4, <1>e DEF TaskFailsToConnect, Finish, Notifications!Next
  <2>5. CASE TaskPolls
    <3>1. ~Ending'
      BY <2>1, <2>5, <1>t, NoEnd DEF TaskPolls, Final
    <3> QED
      BY <2>1, <2>5, <3>1, <1>k DEF TaskPolls
  <2> QED
    BY <1>5, <2>2, <2>3, <2>4, <2>5 DEF TaskBegins
<1>6. CASE TaskSelects
  <2>1. \A t \in Threads : pc'[t] \in Final <=> pc[t] \in Final
    BY <1>6, <1>t DEF TaskSelects, ClientTypeOK, Final
  <2>2. Ending' <=> Ending
    BY <1>6, <2>1 DEF TaskSelects, Ending, Final
  <2> QED
    BY <1>6, <2>2, <1>s DEF TaskSelects, Stands, Notifications!notifyVars
<1>7. CASE TaskResumes
  <2>1. owner = NoThread /\ ~Ending /\ nest = 0 /\ InBranch
    BY <1>7, <1>t, OwnerEnds, NobodyUnder
       DEF TaskResumes, TaskStartsReading, TaskGivesUp, TaskFindsNothing, TaskRelocks,
           InBranch, Waiting
  <2>2. CASE TaskStartsReading \/ TaskFindsNothing
    <3>1. ~Ending'
      BY <2>1, <2>2, <1>t, NoEnd DEF TaskStartsReading, TaskFindsNothing, Runs, Release, Final
    <3> QED
      BY <2>1, <2>2, <3>1, <1>k DEF TaskStartsReading, TaskFindsNothing
  <2>3. CASE TaskGivesUp
    BY <2>1, <2>3, <1>e, BranchState
       DEF TaskGivesUp, Finish, Notifications!Next, IInv, BranchStaysValid
  <2> QED
    BY <1>7, <2>2, <2>3 DEF TaskResumes
<1>8. CASE TaskReads
  <2>1. pc[Task] = "reading"
    BY <1>8, ReadsInReader
  <2>2. owner = Task /\ ~Ending /\ nest = 0 /\ InBranch
    BY <2>1, <1>t, OwnerEnds, NobodyUnder DEF LockDiscipline, Holding, InBranch
  <2>3. NotifyEnd(state) => Notifications!Next
    BY <2>2, <1>e, BranchState DEF Notifications!Next, IInv, BranchStaysValid
  <2>4. ASSUME NEW p, p \notin Final, pc' = [pc EXCEPT ![Task] = p],
               UNCHANGED <<state, nest, note>>
        PROVE  UNCHANGED Notifications!notifyVars
    BY <2>2, <2>4, <1>k, <1>t, NoEnd
  <2>5. CASE TaskFailsToRead
    BY <2>3, <2>5 DEF TaskFailsToRead, Finish
  <2>6. CASE TaskFailsInPayload
    BY <2>6, <1>t, PacketIsRead DEF TaskFailsInPayload, NotifyInv
  <2>7. CASE TaskReadsConnack
    <3>1. Head(rx).arg = 0 /\ state = "MQTT_CONNECTING"
      BY <2>2, <2>7, BranchState, FirstPacket
         DEF TaskReadsConnack, Reads, Consume, CanRead, Arrived
    <3>2. ~Ending'
      BY <2>2, <2>7, <3>1, <1>t, NoEnd DEF TaskReadsConnack, Runs, Final
    <3> QED
      BY <2>2, <2>7, <3>1, <3>2, <1>s
         DEF TaskReadsConnack, Stands, Notify, Notifications!Establish,
             Notifications!Call, Notifications!Next
  <2>8. CASE TaskReadsPublish \/ TaskReadsSuback
    BY <2>3, <2>4, <2>8
       DEF TaskReadsPublish, GivesMessage, TaskReadsSuback, Finish, Runs, Final
  <2>11. CASE TaskRefusesPublish
    BY <2>3, <2>11 DEF TaskRefusesPublish, Finish
  <2>9. CASE TaskReadsAnswer
    BY <2>4, <2>9 DEF TaskReadsAnswer, Release, Final
  <2>10. CASE TaskReadsOther
    BY <2>10, FirstPacket DEF TaskReadsOther, ReadsPacket, Reads, CanRead, Arrived, Expected
  <2> QED
    BY <1>8, <2>5, <2>6, <2>7, <2>8, <2>9, <2>10, <2>11 DEF TaskReads
<1>10. CASE TaskMisreads
  BY <1>10, <1>t, ReadsInStep DEF NotifyInv
<1>9. CASE KeepaliveElapses \/ ResponseElapses \/ World
  BY <1>9, <1>k, <1>u DEF KeepaliveElapses, ResponseElapses, World
<1> QED
  BY <1>1, <1>2, <1>3, <1>4, <1>5, <1>6, <1>7, <1>8, <1>9, <1>10 DEF Next, MqttClientTask

LEMMA NotifyInit == ASSUME Init PROVE NotifyInv /\ Notifications!Init
<1>1. NotifyInv
  BY DEF Init, LinkInit, NotifyInv, NothingLost, TaskOnCourse, WireWhole, QuietWire,
         InStep, Greets, Untouched, InBranch, Waiting, Threads, NoneOwed, Answers
<1>2. ~Ending
  BY DEF Init, Ending
<1>3. Told = "idle"
  BY <1>1, <1>2 DEF NotifyInv, TaskOnCourse, Told, Init
<1> QED
  BY <1>1, <1>3 DEF Init, Notifications!Init

\* The connect and disconnect callbacks tell the application what mqtt_client.h
\* (lines 40-57) promises: the client implements ClientNotify.
THEOREM ClientKeepsPromise ==
    ASSUME ClientAssumption, SocketAssumption, Promising
    PROVE  Spec => NotifiesAsPromised
<1>1. Init => NotifyInv /\ Notifications!Init
  BY NotifyInit
<1>2. IInv /\ NotifyInv /\ [Next]_vars => NotifyInv'
  <2> SUFFICES ASSUME IInv, NotifyInv, [Next]_vars PROVE NotifyInv'
    OBVIOUS
  <2>1. CASE Next
    <3>1. LinkTypeOK /\ InStep
      BY DEF IInv, TypeOK, NotifyInv
    <3>2. Calls
      BY <2>1, <3>1, NextCalls, ReadsInStep DEF StepsOut
    <3> QED
      BY <2>1, <3>1, <3>2, NothingLostStep, CourseStep, WholeStep, InStepStep, GreetsStep
         DEF NotifyInv
  <2>2. CASE UNCHANGED vars
    BY <2>2 DEF vars, linkVars, threadVars, pollVars, NotifyInv, NothingLost,
                TaskOnCourse, InBranch, WireWhole, QuietWire, Connected, InStep, Greets,
                Untouched
  <2> QED
    BY <2>1, <2>2
<1>3. IInv /\ NotifyInv /\ NotifyInv' /\ [Next]_vars
        => [Notifications!Next]_(Notifications!notifyVars)
  <2> SUFFICES ASSUME IInv, NotifyInv, NotifyInv', [Next]_vars
               PROVE  [Notifications!Next]_(Notifications!notifyVars)
    OBVIOUS
  <2>1. CASE Next
    BY <2>1, PromiseStep
  <2>2. CASE UNCHANGED vars
    BY <2>2 DEF vars, threadVars, Told, Ending, Notifications!notifyVars
  <2> QED
    BY <2>1, <2>2
<1> QED
  BY <1>1, <1>2, <1>3, Safety, PTL DEF Spec, NotifiesAsPromised, Notifications!Spec
===============================================================================
