------------------------- MODULE LwMqttProgramsProofs -------------------------
(***************************************************************************)
(* What the runs check of lw-mqtt-sub and lw-mqtt-pub, for any number of   *)
(* topics, any broker and any fault.                                       *)
(***************************************************************************)
EXTENDS LwMqttPrograms, MqttClientProofs, FiniteSetTheorems

-------------------------------------------------------------------------------
(***************************************************************************)
(* The programs run the client.                                            *)
(***************************************************************************)

\* Whatever a program does is a step of the client, or none.
LEMMA ClientRuns == ASSUME [ProgramsNext]_allVars PROVE [Next]_vars
<1>t. Task \in Threads
  BY DEF Threads
<1>1. CASE UNCHANGED allVars
  BY <1>1 DEF allVars
<1>2. CASE Main \/ MainLeavesLoop
  BY <1>2, <1>t
     DEF Main, MainInitialises, MainSetsUp, MainConnects, MainFailsToConnect,
         MainLeavesLoop, Api, Next
<1>3. CASE MainCallsTask \/ TaskGoesOn \/ TaskGoesAstray
  BY <1>3 DEF MainCallsTask, TaskGoesOn, TaskGoesAstray, MqttClientTask, Next
<1>4. CASE CallbackRuns
  BY <1>4, <1>t
     DEF CallbackRuns, SubscriberAsks, SubscriberReturns, PublisherPublishes,
         PublisherExits, PublisherReturns, Api, Next
<1>5. CASE ResponseIsLate \/ Outside
  BY <1>5 DEF ResponseIsLate, Outside, Next
<1> QED
  BY <1>1, <1>2, <1>3, <1>4, <1>5 DEF ProgramsNext

\* The programs use the client as its other applications do: what is proved of
\* the client holds for them (lw-mqtt-sub.cpp, lw-mqtt-pub.cpp).
THEOREM ProgramsRunClient == ProgramsSpec => Spec
<1>1. ProgramsInit => Init
  BY DEF ProgramsInit
<1>2. [ProgramsNext]_allVars => [Next]_vars
  BY ClientRuns
<1> QED
  BY <1>1, <1>2, PTL DEF ProgramsSpec, Spec

\* There is one thread, so an end is being told when it tells one.
LEMMA OneThread ==
    ASSUME ProgramsAssumption, IInv
    PROVE  /\ Threads = {Task}
           /\ pc[Task] \notin CallbackPcs => nest = 0 /\ ~Ending
           /\ Ending <=> nest > 0 \/ pc[Task] \in Final
<1>1. Threads = {Task}
  BY DEF ProgramsAssumption, Threads
<1>2. Ending <=> nest > 0 \/ pc[Task] \in Final
  BY <1>1 DEF Ending, Final
<1>3. pc[Task] \notin CallbackPcs => nest = 0
  BY <1>1 DEF IInv, LockDiscipline, TypeOK, ClientTypeOK
<1> QED
  BY <1>1, <1>2, <1>3 DEF Final, CallbackPcs

\* The variables of the programs keep their types.
THEOREM ProgramsTypeCorrect == ProgramsSpec => []ProgramsTypesOK
<1>1. ProgramsInit => ProgramsTypeOK
  <2> SUFFICES ASSUME ProgramsInit PROVE ProgramsTypeOK
    OBVIOUS
  <2>1. called \in BOOLEAN /\ is_disconnected \in BOOLEAN
    BY Zenon DEF ProgramsInit
  <2> QED
    BY <2>1 DEF ProgramsInit, ProgramsTypeOK, Steps
<1>2. ProgramsTypeOK /\ [ProgramsNext]_allVars => ProgramsTypeOK'
  <2> SUFFICES ASSUME ProgramsTypeOK, [ProgramsNext]_allVars PROVE ProgramsTypeOK'
    OBVIOUS
  <2> USE DEF ProgramsTypeOK, Steps, paramVars, Goes
  <2>1. CASE UNCHANGED allVars
    BY <2>1 DEF allVars
  <2>2. CASE Main
    <3>1. /\ UNCHANGED <<program, qos_accepted, called, current_topic, is_disconnected>>
          /\ step' \in {"client_id", "keepalive", "connect", "loop", "exited"}
          /\ exit_code' \in {exit_code, 1}
      BY <2>2 DEF Main, MainInitialises, MainSetsUp, MainConnects, MainFailsToConnect
    <3> QED
      BY <3>1
  <2>3. CASE MainCallsTask \/ TaskGoesOn \/ TaskGoesAstray \/ MainLeavesLoop
    BY <2>3 DEF MainCallsTask, TaskGoesOn, TaskGoesAstray, MainLeavesLoop
  <2>4. CASE SubscriberAsks
    BY <2>4 DEF SubscriberAsks
  <2>5. CASE SubscriberReturns
    <3>1. /\ is_disconnected' \in BOOLEAN /\ called' \in BOOLEAN
          /\ UNCHANGED <<program, qos_accepted, step, current_topic, exit_code>>
      BY <2>5 DEF SubscriberReturns
    <3> QED
      BY <3>1
  <2>6. CASE PublisherPublishes
    <3>1. exit_code' \in {0, 1}
      BY <2>6 DEF PublisherPublishes, Published
    <3> QED
      BY <2>6, <3>1 DEF PublisherPublishes
  <2>7. CASE PublisherExits \/ PublisherReturns
    BY <2>7 DEF PublisherExits, PublisherReturns
  <2>8. CASE ResponseIsLate \/ Outside
    BY <2>8 DEF ResponseIsLate, Outside
  <2> QED
    BY <2>1, <2>2, <2>3, <2>4, <2>5, <2>6, <2>7, <2>8 DEF ProgramsNext, CallbackRuns
<1> QED
  BY <1>1, <1>2, ProgramsRunClient, TypeCorrect, PTL DEF ProgramsSpec, ProgramsTypesOK

-------------------------------------------------------------------------------
(***************************************************************************)
(* What a call of the task and the return of a callback do, as far as the  *)
(* programs can tell.                                                      *)
(***************************************************************************)

\* The task goes on without a callback, runs the callback of a CONNACK, of
\* data or of an answer, or ends the connection.
GoesOn ==
    /\ pc'[Task] \notin CallbackPcs
    /\ UNCHANGED note
    /\ \/ UNCHANGED state
       \/ state = "TCP_CONNECTING" /\ state' = "MQTT_CONNECTING"
       \/ state = "MQTT_DISCONNECTING" /\ state' = "DISCONNECTED"
    /\ InBranch' => branch' = state \/ (InBranch /\ UNCHANGED branch)

TellsConnack ==
    /\ state = "MQTT_CONNECTING"
    /\ \/ /\ pc'[Task] = "cb_connected"
          /\ state' = "MQTT_CONNECTED"
          /\ note'.kind = "connect_ok"
       \/ /\ pc'[Task] = "cb_refused"
          /\ UNCHANGED state
          /\ note'.kind = "connect_fail"

TellsData == pc'[Task] = "cb_publish" /\ UNCHANGED <<state, note>>

TellsAnswer ==
    /\ InBranch /\ branch = "MQTT_CONNECTED"
    /\ pc'[Task] = "cb_suback"
    /\ state \notin {"TCP_CONNECTING", "MQTT_CONNECTING"}
    /\ framed' => Consume /\ Head(rx).type = "SUBACK"
    /\ UNCHANGED <<state, note>>

EndsConnection ==
    /\ state' \in {state, InvalidState}
    /\ \/ pc'[Task] = "cb_final_disconnect"
       \/ /\ pc'[Task] = "cb_final_connect"
          /\ note'.kind = "connect_fail"
          /\ state' # "MQTT_CONNECTED"

LEMMA EndMoves ==
    ASSUME ClientTypeOK, NEW s \in {state, InvalidState}, NotifyEnd(s)
    PROVE  EndsConnection
<1>1. pc \in [Threads -> Pcs] /\ Task \in Threads
  BY DEF ClientTypeOK, Threads
<1> QED
  BY <1>1 DEF NotifyEnd, Notify, Runs, EndsConnection

LEMMA TaskMoves ==
    ASSUME ClientAssumption, IInv, MqttClientTask
    PROVE  /\ pc[Task] \notin CallbackPcs
           /\ UNCHANGED nest
           /\ GoesOn \/ TellsConnack \/ TellsData \/ TellsAnswer \/ EndsConnection
<1> USE DEF threadVars
<1>t. ClientTypeOK /\ pc \in [Threads -> Pcs] /\ Task \in Threads
  BY DEF IInv, TypeOK, ClientTypeOK, Threads
<1>p. {"idle", "select", "relock", "reading"} \cap CallbackPcs = {}
  BY DEF CallbackPcs
<1>r. \A p : pc' = [pc EXCEPT ![Task] = p] => pc'[Task] = p
  BY <1>t
<1>e. ASSUME NEW s \in {state, InvalidState}, NotifyEnd(s) PROVE EndsConnection
  BY <1>e, <1>t, EndMoves
<1>1. pc[Task] \in {"idle", "select", "relock", "reading"}
  BY ReadsInReader
     DEF MqttClientTask, TaskBegins, TaskSettles, TaskSendsConnect, TaskFailsToConnect,
         TaskPolls, TaskEnters, TaskSelects, TaskResumes, TaskStartsReading, TaskGivesUp,
         TaskFindsNothing, TaskRelocks
<1>2. pc[Task] = "reading" =>
        \/ branch = "MQTT_CONNECTING" /\ state = "MQTT_CONNECTING"
        \/ /\ branch = "MQTT_CONNECTED"
           /\ state \notin {"TCP_CONNECTING", "MQTT_CONNECTING"}
  BY DEF IInv, BranchStaysValid, InBranch
<1>3. CASE TaskBegins
  <2>1. CASE TaskSettles \/ TaskSendsConnect
    BY <2>1, <1>1, <1>p
       DEF TaskSettles, TaskSendsConnect, TaskEnters, GoesOn, InBranch, Waiting
  <2>2. CASE TaskFailsToConnect
    BY <2>2, <1>1, <1>p, <1>e DEF TaskFailsToConnect, Finish
  <2>3. CASE TaskPolls
    BY <2>3, <1>1, <1>p, <1>r DEF TaskPolls, GoesOn, pollVars
  <2> QED
    BY <1>3, <2>1, <2>2, <2>3 DEF TaskBegins
<1>4. CASE TaskSelects \/ TaskStartsReading \/ TaskFindsNothing
  BY <1>4, <1>1, <1>p, <1>r
     DEF TaskSelects, TaskStartsReading, TaskFindsNothing, TaskRelocks, Runs, Release,
         GoesOn, InBranch, Waiting, pollVars
<1>5. CASE TaskGivesUp
  BY <1>5, <1>1, <1>p, <1>e DEF TaskGivesUp, Finish
<1>6. CASE TaskReads
  <2>1. CASE TaskFailsToRead
    BY <2>1, <1>1, <1>p, <1>e DEF TaskFailsToRead, Finish
  <2>2. CASE TaskFailsInPayload
    <3>1. CASE branch = "MQTT_CONNECTING"
      <4>1. /\ pc[Task] = "reading"
            /\ Notify("connect_fail")
            /\ Runs(Task, "cb_refused")
            /\ UNCHANGED <<state, nest>>
        BY <2>2, <3>1 DEF TaskFailsInPayload
      <4>2. pc'[Task] = "cb_refused" /\ note'.kind = "connect_fail"
        BY <4>1, <1>r DEF Notify, Runs
      <4> QED
        BY <3>1, <4>1, <4>2, <1>2, <1>p DEF TellsConnack
    <3>2. CASE branch = "MQTT_CONNECTED"
      BY <2>2, <3>2, <1>1, <1>p, <1>e DEF TaskFailsInPayload, Finish
    <3> QED
      BY <2>2, <3>1, <3>2 DEF TaskFailsInPayload
  <2>3. CASE TaskReadsConnack
    BY <2>3, <1>1, <1>2, <1>p, <1>r
       DEF TaskReadsConnack, Reads, Notify, Runs, TellsConnack, IInv, BranchStaysValid,
           InBranch
  <2>4. CASE TaskReadsPublish
    BY <2>4, <1>1, <1>p, <1>r DEF TaskReadsPublish, GivesMessage, Runs, TellsData
  <2>8. CASE TaskRefusesPublish
    BY <2>8, <1>1, <1>p, <1>e DEF TaskRefusesPublish, Finish
  <2>5. CASE TaskReadsSuback
    BY <2>5, <1>1, <1>2, <1>p, <1>e, <1>r
       DEF TaskReadsSuback, ReadsPacket, Reads, Finish, Runs, TellsAnswer, InBranch
  <2>6. CASE TaskReadsAnswer
    BY <2>6, <1>1, <1>p, <1>r
       DEF TaskReadsAnswer, Release, GoesOn, InBranch, Waiting
  <2>7. CASE TaskReadsOther
    BY <2>7, <1>1, <1>p, <1>e DEF TaskReadsOther
  <2> QED
    BY <1>6, <2>1, <2>2, <2>3, <2>4, <2>5, <2>6, <2>7, <2>8 DEF TaskReads
<1>7. CASE TaskMisreads
  <2>1. CASE TaskReadsBeyond \/ TaskStraysIntoPublish
    BY <2>1, <1>1, <1>p, <1>r
       DEF TaskReadsBeyond, TaskStraysIntoPublish, GivesMessage, Runs, TellsData
  <2>2. CASE TaskStraysIntoSuback
    <3>1. framed' = FALSE
      BY <2>2 DEF TaskStraysIntoSuback, TakesSome, TakeUpTo
    <3> QED
      BY <2>2, <3>1, <1>1, <1>2, <1>p, <1>r
         DEF TaskStraysIntoSuback, Strays, Reads, Runs, TellsAnswer, InBranch
  <2>3. CASE TaskStraysIntoAnswer
    BY <2>3, <1>1, <1>p, <1>r
       DEF TaskStraysIntoAnswer, Release, GoesOn, InBranch, Waiting
  <2>4. CASE TaskStraysIntoEnd
    BY <2>4, <1>1, <1>p, <1>e DEF TaskStraysIntoEnd
  <2> QED
    BY <1>7, <2>1, <2>2, <2>3, <2>4 DEF TaskMisreads
<1> QED
  BY <1>3, <1>4, <1>5, <1>6, <1>7 DEF MqttClientTask, TaskResumes

\* A callback that another call ran returns to it, one the task ran returns to
\* the task, a refusal is told again, and an end has then been told.
ReturnsInside == nest > 0 /\ nest' = nest - 1 /\ UNCHANGED <<pc, note>>
                 /\ state' = "DISCONNECTED"

ReturnsToTask ==
    /\ pc[Task] \in {"cb_connected", "cb_suback", "cb_publish"}
    /\ pc'[Task] = "idle"
    /\ UNCHANGED <<state, note>>

TellsRefusalAgain == pc[Task] = "cb_refused" /\ EndsConnection /\ UNCHANGED state

HasTold == pc[Task] \in Final /\ pc'[Task] = "idle" /\ state' = "DISCONNECTED"

LEMMA ReturnMoves ==
    ASSUME ClientAssumption, IInv, ReturnFromCallback(Task)
    PROVE  \/ ReturnsInside
           \/ /\ nest = 0
              /\ UNCHANGED nest
              /\ ReturnsToTask \/ TellsRefusalAgain \/ HasTold
<1>t. ClientTypeOK /\ pc \in [Threads -> Pcs] /\ Task \in Threads
  BY DEF IInv, TypeOK, ClientTypeOK, Threads
<1>r. \A p : pc' = [pc EXCEPT ![Task] = p] => pc'[Task] = p
  BY <1>t
<1>1. CASE ReturnsNested(Task)
  BY <1>1 DEF ReturnsNested, AfterLost, ReturnsInside
<1>2. CASE ReturnsToBranch(Task)
  BY <1>2, <1>r DEF ReturnsToBranch, Release, ReturnsToTask
<1>3. CASE ReturnsRefused(Task)
  <2>1. NotifyEnd(state) /\ UNCHANGED <<nest, state>> /\ pc[Task] = "cb_refused" /\ nest = 0
    BY <1>3 DEF ReturnsRefused, Finish, NotifyEnd
  <2> QED
    BY <2>1, <1>t, EndMoves DEF TellsRefusalAgain
<1>4. CASE ReturnsFinal(Task)
  BY <1>4, <1>r DEF ReturnsFinal, AfterLost, Release, HasTold, Final
<1> QED
  BY <1>1, <1>2, <1>3, <1>4 DEF ReturnFromCallback

-------------------------------------------------------------------------------
(***************************************************************************)
(* The request of the subscriber and its answer.                           *)
(***************************************************************************)

Subacks == {i \in 1..Len(rx) : rx[i].type = "SUBACK"}

\* As long as the publications can be read to their end, no answer is under way.
NoAnswer == framed => owed["SUBACK"] = 0 /\ Subacks = {}

\* Or it is in one place: the broker owes it, or it has arrived.
OneUnderWay == framed =>
    /\ owed["SUBACK"] <= 1
    /\ owed["SUBACK"] # 0 => Subacks = {}
    /\ \A i, j \in Subacks : i = j

\* What a step that asks for nothing does to the socket.
AsksNothing ==
    \/ \E opened \in BOOLEAN : OpenSocket(opened)
    \/ ConnectSocket
    \/ CloseSocket
    \/ \E a \in Answers \ {"SUBACK"} : Transmit(a)
    \/ Consume
    \/ ConsumePart
    \/ Takes
    \/ Environment
    \/ UNCHANGED linkVars

LEMMA SilentSteps ==
    /\ MqttClientTask => AsksNothing
    /\ ReturnFromCallback(Task) => AsksNothing
    /\ Main => AsksNothing
    /\ MainLeavesLoop \/ ResponseIsLate \/ Outside => AsksNothing
<1>a. {"CONNACK", "PINGRESP"} \subseteq Answers \ {"SUBACK"}
  BY DEF Answers
<1>f. Finish => AsksNothing
  BY DEF Finish, AsksNothing
<1>1. ASSUME MqttClientTask PROVE AsksNothing
  <2>1. CASE TaskBegins
    BY <2>1, <1>a, <1>f DEF TaskBegins, TaskSettles, TaskSendsConnect,
                            TaskFailsToConnect, TaskPolls, AsksNothing
  <2>2. CASE TaskSelects \/ TaskResumes
    BY <2>2, <1>f DEF TaskSelects, TaskResumes, TaskStartsReading, TaskGivesUp,
                      TaskFindsNothing, AsksNothing
  <2>3. CASE TaskReads
    BY <2>3, <1>f
       DEF TaskReads, TaskFailsToRead, TaskFailsInPayload, TaskReadsConnack,
           TaskRefusesPublish, TaskReadsPublish, TaskReadsSuback, TaskReadsAnswer,
           TaskReadsOther, AsksNothing
  <2>4. CASE TaskMisreads
    BY <2>4, MisreadTakes DEF AsksNothing
  <2> QED
    BY <1>1, <2>1, <2>2, <2>3, <2>4 DEF MqttClientTask
<1>2. ReturnFromCallback(Task) => AsksNothing
  BY <1>f DEF ReturnFromCallback, ReturnsNested, ReturnsToBranch, ReturnsRefused,
              ReturnsFinal, AsksNothing
<1>3. Main => AsksNothing
  BY DEF Main, MainInitialises, MqttClientInit, MainSetsUp, SetIdentity, SetKeepalive,
         MainConnects, Connect, MainFailsToConnect, AsksNothing, vars
<1>4. MainLeavesLoop \/ ResponseIsLate \/ Outside => AsksNothing
  BY DEF MainLeavesLoop, ResponseIsLate, ResponseElapses, Outside, KeepaliveElapses,
         World, AsksNothing, vars
<1> QED
  BY <1>1, <1>2, <1>3, <1>4

LEMMA NoneIsOne == ASSUME LinkTypeOK, NoAnswer PROVE OneUnderWay
  BY DEF LinkTypeOK, NoAnswer, OneUnderWay

\* Such a step starts no answer, and moves the one under way.
LEMMA AnswerMoves ==
    ASSUME LinkTypeOK, AsksNothing
    PROVE  /\ NoAnswer => NoAnswer'
           /\ OneUnderWay => OneUnderWay'
<1>t. "SUBACK" \in Answers /\ owed["SUBACK"] \in Nat /\ rx \in Seq(Packets)
  BY DEF LinkTypeOK, Answers
<1>e. ASSUME owed' = NoneOwed, UNCHANGED <<rx, framed>> \/ rx' = <<>>
      PROVE  /\ NoAnswer => NoAnswer'
             /\ OneUnderWay => OneUnderWay'
  <2>1. owed'["SUBACK"] = 0
    BY <1>e, <1>t DEF NoneOwed
  <2>2. CASE UNCHANGED <<rx, framed>>
    BY <2>1, <2>2 DEF NoAnswer, OneUnderWay, Subacks
  <2>3. CASE rx' = <<>>
    <3>1. Subacks' = {}
      BY <2>3 DEF Subacks
    <3> QED
      BY <2>1, <3>1 DEF NoAnswer, OneUnderWay
  <2> QED
    BY <1>e, <2>2, <2>3
<1>u. ASSUME owed'["SUBACK"] = owed["SUBACK"], UNCHANGED <<rx, framed>>
      PROVE  /\ NoAnswer => NoAnswer'
             /\ OneUnderWay => OneUnderWay'
  BY <1>u DEF NoAnswer, OneUnderWay, Subacks
<1>o. ASSUME framed' = FALSE PROVE NoAnswer' /\ OneUnderWay'
  BY <1>o DEF NoAnswer, OneUnderWay
<1>6. CASE ConsumePart \/ Takes
  BY <1>6, <1>o, TakesFrom DEF ConsumePart
<1>1. CASE (\E opened \in BOOLEAN : OpenSocket(opened)) \/ CloseSocket
  BY <1>1, <1>e, <1>u DEF OpenSocket, CloseSocket, Emptied, linkVars
<1>2. CASE ConnectSocket \/ UNCHANGED linkVars
  BY <1>2, <1>u DEF ConnectSocket, linkVars
<1>3. ASSUME NEW a \in Answers \ {"SUBACK"}, Transmit(a)
      PROVE  /\ NoAnswer => NoAnswer'
             /\ OneUnderWay => OneUnderWay'
  <2>1. owed'["SUBACK"] = owed["SUBACK"] /\ UNCHANGED <<rx, framed>>
    BY <1>3, <1>t DEF Transmit, LinkTypeOK
  <2> QED
    BY <2>1, <1>u
<1>4. CASE Consume
  <2>1. framed /\ rx # <<>> /\ rx' = Tail(rx) /\ UNCHANGED owed
    BY <1>4 DEF Consume, CanRead, Arrived
  <2>2. Len(rx') = Len(rx) - 1 /\ \A i \in 1..Len(rx') : rx'[i] = rx[i + 1]
    BY <2>1, <1>t
  <2>3. \A i \in Subacks' : i \in Nat /\ i + 1 \in Subacks
    BY <2>2, <1>t DEF Subacks
  <2>4. Subacks = {} => Subacks' = {}
    BY <2>3
  <2>5. ASSUME OneUnderWay, NEW i \in Subacks', NEW j \in Subacks' PROVE i = j
    <3>1. i + 1 = j + 1
      BY <2>1, <2>3, <2>5 DEF OneUnderWay
    <3> QED
      BY <3>1, <2>3
  <2> QED
    BY <2>1, <2>4, <2>5 DEF NoAnswer, OneUnderWay
<1>5. CASE Environment
  <2>1. CASE BrokerAnswers
    <3>1. PICK a \in Answers : \E c \in Arguments(a) :
            /\ owed[a] > 0
            /\ Arrives(Answer(a, c))
            /\ owed' = [owed EXCEPT ![a] = @ - 1]
      BY <2>1 DEF BrokerAnswers
    <3>2. PICK c \in Arguments(a) : Arrives(Answer(a, c))
      BY <3>1
    <3>3. owed[a] > 0 /\ owed' = [owed EXCEPT ![a] = @ - 1]
      BY <3>1
    <3>4. rx' = Append(rx, Answer(a, c)) /\ UNCHANGED framed
      BY <3>2 DEF Arrives
    <3>5. /\ Len(rx') = Len(rx) + 1
          /\ \A i \in 1..Len(rx) : rx'[i] = rx[i]
          /\ rx'[Len(rx) + 1].type = a
      BY <3>4, <1>t DEF Answer
    <3>8. CASE ~framed
      BY <3>4, <3>8, <1>o DEF NoAnswer, OneUnderWay
    <3>6. CASE framed /\ a = "SUBACK"
      <4>1. ~NoAnswer
        BY <3>3, <3>6, <1>t DEF NoAnswer
      <4>2. ASSUME OneUnderWay PROVE OneUnderWay'
        <5>1. owed["SUBACK"] = 1 /\ Subacks = {}
          BY <4>2, <3>3, <3>6, <1>t DEF OneUnderWay
        <5>2. owed'["SUBACK"] = 0
          BY <5>1, <3>3, <3>6, <1>t DEF LinkTypeOK
        <5>3. \A i \in Subacks' : i = Len(rx) + 1
          BY <5>1, <3>5, <1>t DEF Subacks
        <5> QED
          BY <5>2, <5>3 DEF OneUnderWay
      <4> QED
        BY <4>1, <4>2
    <3>7. CASE framed /\ a # "SUBACK"
      <4>1. owed'["SUBACK"] = owed["SUBACK"]
        BY <3>3, <3>7, <1>t DEF LinkTypeOK
      <4>2. Subacks' = Subacks
        BY <3>5, <3>7, <1>t DEF Subacks
      <4> QED
        BY <3>7, <4>1, <4>2 DEF NoAnswer, OneUnderWay
    <3> QED
      BY <3>6, <3>7, <3>8
  <2>2. CASE BrokerPublishes
    <3>1. PICK p \in Publications : Arrives(p) /\ UNCHANGED <<owed, served>>
      BY <2>2 DEF BrokerPublishes
    <3>2. rx' = Append(rx, p) /\ UNCHANGED <<owed, framed>> /\ p.type = "PUBLISH"
      BY <3>1, SocketAssumption DEF Arrives, SocketAssumption
    <3>3. /\ Len(rx') = Len(rx) + 1
          /\ \A i \in 1..Len(rx) : rx'[i] = rx[i]
          /\ rx'[Len(rx) + 1].type = "PUBLISH"
      BY <3>2, <1>t
    <3>4. Subacks' = Subacks
      BY <3>3, <1>t DEF Subacks
    <3> QED
      BY <3>2, <3>4 DEF NoAnswer, OneUnderWay
  <2>3. CASE BrokerCompletes
    BY <2>3, <1>u DEF BrokerCompletes
  <2>4. CASE BrokerCloses \/ NetworkResets
    BY <2>4, <1>e DEF BrokerCloses, NetworkResets
  <2> QED
    BY <1>5, <2>1, <2>2, <2>3, <2>4 DEF Environment
<1> QED
  BY <1>1, <1>2, <1>3, <1>4, <1>5, <1>6 DEF AsksNothing

\* A request sent when no answer is under way puts one there.
LEMMA AnswerStarts ==
    ASSUME LinkTypeOK, NoAnswer, Transmit("SUBACK")
    PROVE  OneUnderWay'
<1>1. ASSUME framed' PROVE framed /\ owed'["SUBACK"] <= 1 /\ Subacks' = {}
  <2>1. framed /\ UNCHANGED rx
    BY <1>1 DEF Transmit
  <2>2. owed'["SUBACK"] <= 1
    BY <2>1 DEF Transmit, LinkTypeOK, NoAnswer, Answers
  <2>3. Subacks' = {}
    BY <2>1 DEF NoAnswer, Subacks
  <2> QED
    BY <2>1, <2>2, <2>3
<1> QED
  BY <1>1 DEF OneUnderWay

\* The answer that is read was the one under way.
LEMMA AnswerEnds ==
    ASSUME LinkTypeOK, OneUnderWay, Consume, Head(rx).type = "SUBACK"
    PROVE  /\ NoAnswer'
           /\ ~NoAnswer
<1>1. framed /\ rx \in Seq(Packets) /\ rx # <<>> /\ rx' = Tail(rx) /\ UNCHANGED owed
  BY DEF LinkTypeOK, Consume, CanRead, Arrived
<1>2. 1 \in Subacks
  BY <1>1 DEF Subacks
<1>3. owed["SUBACK"] = 0
  BY <1>1, <1>2 DEF OneUnderWay
<1>4. Len(rx') = Len(rx) - 1 /\ \A i \in 1..Len(rx') : rx'[i] = rx[i + 1]
  BY <1>1
<1>5. ASSUME NEW i \in Subacks' PROVE FALSE
  <2>1. i \in Nat \ {0} /\ i + 1 \in Subacks
    BY <1>1, <1>4, <1>5 DEF Subacks
  <2> QED
    BY <2>1, <1>1, <1>2 DEF OneUnderWay
<1> QED
  BY <1>1, <1>2, <1>3, <1>5 DEF NoAnswer

-------------------------------------------------------------------------------
(***************************************************************************)
(* The inductive invariant.                                                *)
(***************************************************************************)

Setup == {"init", "client_id", "keepalive", "connect"}

\* No callback runs before the loop.
SetupIsQuiet ==
    step \in Setup =>
        /\ pc[Task] = "idle"
        /\ note.kind = "none"
        /\ ~called
        /\ nest = 0
        /\ current_topic = 0

\* A callback inside another one is run by a request, or by the publish.
NestedCalled == nest > 0 => called

\* The client has not been accepted by the broker yet.
Early == step \in Setup \/ state \in {"TCP_CONNECTING", "MQTT_CONNECTING"}

\* The callback of an answer has not asked for the next topic.
Handling == pc[Task] = "cb_suback" /\ ~called /\ nest = 0

\* The index is that of the topics asked for, and there is one answer under way
\* at most: none before the first request, none in the callback of an answer.
SubscriberInv ==
    program = "sub" =>
        /\ Early => /\ current_topic = 0
                    /\ ~called
                    /\ pc[Task] \notin {"cb_connected", "cb_suback"}
        /\ pc[Task] = "cb_connected" /\ ~called => current_topic = 0
        /\ pc[Task] = "cb_suback" => current_topic # 0
        /\ current_topic <= NTopics
        /\ current_topic = 0 \/ Handling => NoAnswer
        /\ OneUnderWay

\* The subscriber never disconnects: its connection ends with a callback.  It has
\* asked for its first topic by the time the task reads an answer, or bytes that
\* look like one.
LoopInv ==
    program = "sub" /\ step = "loop" =>
        /\ state # "MQTT_DISCONNECTING"
        /\ state \in Active \/ is_disconnected \/ Ending
        /\ state = "MQTT_CONNECTED" /\ current_topic = 0
              => pc[Task] = "cb_connected" /\ ~called
        /\ InBranch /\ branch = "MQTT_CONNECTED" => current_topic # 0

\* The connect callback knows whether there is a connection, and what it has
\* told exit to say is true of it.
PublisherInv ==
    program = "pub" /\ step = "loop" =>
        IF called
        THEN /\ pc[Task] \in {"cb_connected", "cb_refused", "cb_final_connect"}
             /\ exit_code = 0 <=> note.kind = "connect_ok" /\ qos_accepted
        ELSE /\ pc[Task] = "cb_connected" =>
                    note.kind = "connect_ok" /\ state = "MQTT_CONNECTED"
             /\ pc[Task] \in {"cb_refused", "cb_final_connect"} =>
                    note.kind = "connect_fail" /\ state # "MQTT_CONNECTED"

ProgramsInv ==
    /\ SetupIsQuiet
    /\ NestedCalled
    /\ SubscriberInv
    /\ LoopInv
    /\ PublisherInv
    /\ ExitTellsPublished

LEMMA ProgramsStart == ASSUME ProgramsAssumption, ProgramsInit PROVE ProgramsInv
<1>1. pc[Task] = "idle" /\ nest = 0 /\ note.kind = "none" /\ state = "NOT_INITIALIZED"
  BY DEF ProgramsInit, Init, Threads
<1>2. /\ step = "init"
      /\ current_topic = 0
      /\ ~called
  BY DEF ProgramsInit
<1>3. NoAnswer /\ OneUnderWay
  BY DEF ProgramsInit, Init, LinkInit, NoneOwed, NoAnswer, OneUnderWay, Subacks, Answers
<1> QED
  BY <1>1, <1>2, <1>3
     DEF ProgramsAssumption, ProgramsInv, SetupIsQuiet, NestedCalled, SubscriberInv,
         LoopInv, PublisherInv, ExitTellsPublished, Early, Handling, Setup

\* The clock and the world change nothing the programs look at.
LEMMA ProgramsKept ==
    ASSUME IInv, ProgramsInv, AsksNothing,
           UNCHANGED <<program, qos_accepted, step, paramVars>>,
           UNCHANGED <<state, threadVars, pollVars, note>>
    PROVE  ProgramsInv'
<1>1. LinkTypeOK
  BY DEF IInv, TypeOK
<1>2. (NoAnswer => NoAnswer') /\ (OneUnderWay => OneUnderWay')
  BY <1>1, AnswerMoves
<1> USE DEF ProgramsInv, threadVars, pollVars, paramVars
<1>3. SubscriberInv'
  BY <1>2 DEF SubscriberInv, Early, Handling
<1>4. (SetupIsQuiet /\ NestedCalled /\ LoopInv /\ PublisherInv /\ ExitTellsPublished)'
  BY DEF SetupIsQuiet, NestedCalled, LoopInv, Ending, InBranch, PublisherInv,
         ExitTellsPublished
<1> QED
  BY <1>3, <1>4

\* main, up to the loop.
LEMMA MainStep ==
    ASSUME ProgramsAssumption, IInv, ProgramsInv, Main
    PROVE  ProgramsInv'
<1>1. LinkTypeOK
  BY DEF IInv, TypeOK
<1>2. AsksNothing
  BY SilentSteps
<1>3. (NoAnswer => NoAnswer') /\ (OneUnderWay => OneUnderWay')
  BY <1>1, <1>2, AnswerMoves
<1>4. /\ step \in Setup
      /\ UNCHANGED <<program, qos_accepted, called, current_topic>>
      /\ UNCHANGED <<threadVars, note>>
      /\ \/ step' \in Setup
         \/ step' = "loop" /\ state' = "TCP_CONNECTING"
         \/ step' = "exited" /\ exit_code' = 1
  BY DEF Main, MainInitialises, MqttClientInit, MainSetsUp, SetIdentity, SetKeepalive,
         MainConnects, Connect, MainFailsToConnect, Goes, Setup, vars
<1> USE DEF ProgramsInv, threadVars
<1>5. /\ pc'[Task] = "idle"
      /\ note'.kind = "none"
      /\ nest' = 0
      /\ ~called'
      /\ current_topic' = 0
  BY <1>4 DEF SetupIsQuiet
<1>6. SubscriberInv'
  BY <1>3, <1>4, <1>5 DEF SubscriberInv, Early, Handling
<1>7. LoopInv' /\ PublisherInv' /\ ExitTellsPublished'
  BY <1>4, <1>5
     DEF LoopInv, PublisherInv, ExitTellsPublished, Setup, Active, InBranch, Waiting
<1>8. SetupIsQuiet' /\ NestedCalled'
  BY <1>5 DEF SetupIsQuiet, NestedCalled
<1> QED
  BY <1>6, <1>7, <1>8

LEMMA LeaveStep ==
    ASSUME IInv, ProgramsInv, MainLeavesLoop
    PROVE  ProgramsInv'
<1>1. /\ step = "loop" /\ step' = "exited" /\ program = "sub"
      /\ UNCHANGED <<program, called, current_topic>>
      /\ UNCHANGED <<linkVars, state, threadVars>>
  BY DEF MainLeavesLoop, Goes, vars
<1> USE DEF ProgramsInv, threadVars, linkVars
<1>2. SubscriberInv'
  BY <1>1 DEF SubscriberInv, Early, Handling, Setup, NoAnswer, OneUnderWay, Subacks
<1> QED
  BY <1>1, <1>2
     DEF SetupIsQuiet, NestedCalled, LoopInv, PublisherInv, ExitTellsPublished, Setup
\* A call of mqtt_client_task, or the rest of one.
LEMMA TaskStep ==
    ASSUME ClientAssumption, ProgramsAssumption, IInv, ProgramsInv,
           MqttClientTask, step = "loop",
           UNCHANGED <<program, qos_accepted, step, paramVars>>
    PROVE  ProgramsInv'
<1> USE DEF paramVars
<1>1. LinkTypeOK
  BY DEF IInv, TypeOK
<1>2. (NoAnswer => NoAnswer') /\ (OneUnderWay => OneUnderWay')
  BY <1>1, SilentSteps, AnswerMoves
<1>3. /\ pc[Task] \notin CallbackPcs
      /\ UNCHANGED nest
      /\ GoesOn \/ TellsConnack \/ TellsData \/ TellsAnswer \/ EndsConnection
  BY TaskMoves
<1>4. nest = 0 /\ ~Ending
  BY <1>3, OneThread
<1>5. Ending' <=> nest' > 0 \/ pc'[Task] \in Final
  BY OneThread DEF Ending, Final
<1>6. step' \notin Setup /\ step' # "exited"
  BY DEF Setup
<1>c. CallbackPcs = {"cb_connected", "cb_refused", "cb_publish", "cb_suback", "cb_lost",
                     "cb_final_connect", "cb_final_disconnect"}
  BY DEF CallbackPcs
<1>7. SetupIsQuiet' /\ NestedCalled' /\ ExitTellsPublished'
  BY <1>3, <1>4, <1>6 DEF SetupIsQuiet, NestedCalled, ExitTellsPublished
<1>8. ASSUME program = "sub" PROVE SubscriberInv' /\ LoopInv'
  <2>1. /\ SubscriberInv /\ LoopInv
        /\ OneUnderWay /\ OneUnderWay'
        /\ current_topic <= NTopics
        /\ current_topic = 0 => NoAnswer
    BY <1>2, <1>8 DEF ProgramsInv, SubscriberInv
  <2>2. state # "MQTT_DISCONNECTING" /\ (state \in Active \/ is_disconnected)
    BY <1>4, <1>8 DEF ProgramsInv, LoopInv
  <2>3. state \in {"TCP_CONNECTING", "MQTT_CONNECTING"} => current_topic = 0 /\ ~called
    BY <1>8 DEF ProgramsInv, SubscriberInv, Early
  <2>8. /\ state = "MQTT_CONNECTED" => current_topic # 0
        /\ InBranch /\ branch = "MQTT_CONNECTED" => current_topic # 0
    BY <1>3, <1>8, <1>c DEF ProgramsInv, LoopInv
  <2>9. pc'[Task] \in CallbackPcs => ~InBranch'
    BY <1>c DEF InBranch, Waiting
  <2>4. CASE GoesOn \/ TellsData
    <3>1. /\ pc'[Task] \notin {"cb_connected", "cb_suback"} \cup Final
          /\ \/ UNCHANGED state
             \/ state = "TCP_CONNECTING" /\ state' = "MQTT_CONNECTING"
      BY <2>2, <2>4, <1>c DEF GoesOn, TellsData, Final
    <3>2. SubscriberInv'
      BY <3>1, <2>1, <2>3, <1>2, <1>6 DEF SubscriberInv, Early, Handling
    <3>3. InBranch' /\ branch' = "MQTT_CONNECTED" => current_topic # 0
      BY <2>4, <2>8, <2>9, <1>c DEF GoesOn, TellsData
    <3> QED
      BY <3>1, <3>2, <3>3, <2>2, <2>8 DEF LoopInv, Active
  <2>5. CASE TellsConnack
    <3>1. ~InBranch'
      BY <2>5, <2>9, <1>c DEF TellsConnack
    <3> QED
      BY <2>5, <3>1, <2>1, <2>3, <1>2, <1>6
         DEF TellsConnack, SubscriberInv, LoopInv, Early, Handling, Active
  <2>6. CASE TellsAnswer
    <3>1. NoAnswer'
      BY <2>6, <2>1, <1>1, AnswerEnds DEF TellsAnswer, NoAnswer
    <3>2. current_topic # 0 /\ ~InBranch'
      BY <2>6, <2>8, <2>9, <1>c DEF TellsAnswer
    <3> QED
      BY <2>6, <3>1, <3>2, <2>1, <2>2, <1>6
         DEF TellsAnswer, SubscriberInv, LoopInv, Early, Handling
  <2>7. CASE EndsConnection
    <3>1. /\ pc'[Task] \in {"cb_final_connect", "cb_final_disconnect"}
          /\ state' \in {state, InvalidState}
      BY <2>7 DEF EndsConnection
    <3>2. SubscriberInv'
      BY <3>1, <2>1, <2>3, <1>2, <1>6 DEF SubscriberInv, Early, Handling, InvalidState
    <3>3. ~InBranch'
      BY <3>1, <2>9, <1>c
    <3> QED
      BY <3>1, <3>2, <3>3, <2>2, <2>8, <1>5 DEF LoopInv, Final, InvalidState
  <2> QED
    BY <1>3, <2>4, <2>5, <2>6, <2>7
<1>9. ASSUME program = "pub" PROVE PublisherInv'
  <2>1. ~called
    BY <1>3, <1>9, <1>c DEF ProgramsInv, PublisherInv
  <2>2. /\ pc'[Task] = "cb_connected" =>
              note'.kind = "connect_ok" /\ state' = "MQTT_CONNECTED"
        /\ pc'[Task] \in {"cb_refused", "cb_final_connect"} =>
              note'.kind = "connect_fail" /\ state' # "MQTT_CONNECTED"
    BY <1>3, <1>c DEF GoesOn, TellsConnack, TellsData, TellsAnswer, EndsConnection
  <2> QED
    BY <2>1, <2>2 DEF PublisherInv
<1>10. (program # "sub" => SubscriberInv' /\ LoopInv') /\ (program # "pub" => PublisherInv')
  BY DEF SubscriberInv, LoopInv, PublisherInv
<1> QED
  BY <1>7, <1>8, <1>9, <1>10 DEF ProgramsInv

\* A callback of the subscriber asks for a topic.
LEMMA AskStep ==
    ASSUME ProgramsAssumption, IInv, ProgramsTypeOK, ProgramsInv, SubscriberAsks
    PROVE  ProgramsInv'
<1>1. LinkTypeOK
  BY DEF IInv, TypeOK
<1>2. /\ program = "sub" /\ step = "loop" /\ owner = Task
      /\ nest = 0 /\ ~called
      /\ \/ pc[Task] = "cb_connected"
         \/ pc[Task] = "cb_suback" /\ current_topic # NTopics
      /\ called'
      /\ current_topic' = current_topic + 1
      /\ UNCHANGED <<program, qos_accepted, step, is_disconnected, exit_code>>
  BY DEF SubscriberAsks, In, InCallback, AsksTopic
<1>3. Subscribe(Task) \/ UNCHANGED vars
  BY DEF SubscriberAsks
<1>4. NoAnswer /\ current_topic' \in 1..NTopics
  BY <1>2 DEF ProgramsInv, SubscriberInv, Handling, ProgramsTypeOK, ProgramsAssumption
<1>5. state \notin {"TCP_CONNECTING", "MQTT_CONNECTING"} /\ step \notin Setup
  BY <1>2 DEF ProgramsInv, SubscriberInv, Early
<1>6. /\ UNCHANGED <<state, pc>>
      /\ Transmit("SUBACK") \/ CloseSocket \/ UNCHANGED linkVars
  <2>1. CASE Subscribe(Task)
    BY <2>1, <1>2 DEF Subscribe, Request, LosesConnection
  <2>2. CASE UNCHANGED vars
    BY <2>2, <1>2 DEF vars, threadVars
  <2> QED
    BY <1>3, <2>1, <2>2
<1>7. OneUnderWay'
  <2>1. CASE Transmit("SUBACK")
    BY <2>1, <1>1, <1>4, AnswerStarts
  <2>2. CASE CloseSocket \/ UNCHANGED linkVars
    BY <2>2, <1>1, <1>4, AnswerMoves, NoneIsOne DEF AsksNothing
  <2> QED
    BY <1>6, <2>1, <2>2
<1>8. SubscriberInv'
  BY <1>2, <1>4, <1>5, <1>6, <1>7 DEF SubscriberInv, Early, Handling
<1>9. LoopInv'
  <2>1. ~Ending
    BY <1>2, OneThread DEF Final, ProgramsAssumption
  <2> QED
    BY <2>1, <1>2, <1>4, <1>6 DEF ProgramsInv, LoopInv
<1>10. (SetupIsQuiet /\ NestedCalled /\ PublisherInv /\ ExitTellsPublished)'
  BY <1>2, <1>5 DEF SetupIsQuiet, NestedCalled, PublisherInv, ExitTellsPublished
<1> QED
  BY <1>8, <1>9, <1>10 DEF ProgramsInv

\* A callback of the subscriber returns.
LEMMA SubscriberReturnStep ==
    ASSUME ClientAssumption, ProgramsAssumption, IInv, ProgramsInv, SubscriberReturns
    PROVE  ProgramsInv'
<1>1. LinkTypeOK /\ nest \in Nat
  BY DEF IInv, TypeOK, ClientTypeOK, ClientAssumption
<1>2. /\ program = "sub" /\ step = "loop"
      /\ is_disconnected' <=> is_disconnected \/ TellsEnd
      /\ called' <=> called /\ nest > 0
      /\ ReturnFromCallback(Task)
      /\ UNCHANGED <<program, qos_accepted, step, current_topic, exit_code>>
  BY DEF SubscriberReturns, In
<1>3. (NoAnswer => NoAnswer') /\ (OneUnderWay => OneUnderWay')
  BY <1>1, <1>2, SilentSteps, AnswerMoves
<1>4. \/ ReturnsInside
      \/ /\ nest = 0
         /\ UNCHANGED nest
         /\ ReturnsToTask \/ TellsRefusalAgain \/ HasTold
  BY <1>2, ReturnMoves
<1>5. step' \notin Setup /\ step' # "exited"
  BY <1>2 DEF Setup
<1> USE DEF ProgramsInv
<1>6. OneUnderWay' /\ current_topic <= NTopics /\ (current_topic = 0 => NoAnswer')
  BY <1>2, <1>3 DEF SubscriberInv
<1>7. state \in {"TCP_CONNECTING", "MQTT_CONNECTING"} => current_topic = 0 /\ ~called
  BY <1>2 DEF SubscriberInv, Early
<1>8. state # "MQTT_DISCONNECTING" /\ (state \in Active \/ is_disconnected \/ Ending)
  BY <1>2 DEF LoopInv
<1>11. /\ pc[Task] \in CallbackPcs
       /\ nest = 0 /\ state = "MQTT_CONNECTED" => current_topic # 0
  BY <1>2 DEF SubscriberReturns, In, InCallback, AsksTopic, LoopInv
<1>9. CASE ReturnsInside
  <2>1. /\ called' /\ is_disconnected' /\ state' = "DISCONNECTED"
        /\ UNCHANGED pc
    BY <1>1, <1>2, <1>9 DEF ReturnsInside, NestedCalled, TellsEnd
  <2>2. SubscriberInv'
    BY <2>1, <1>2, <1>5, <1>6 DEF SubscriberInv, Early, Handling
  <2>3. ~InBranch'
    BY <2>1, <1>11 DEF InBranch, Waiting, CallbackPcs
  <2> QED
    BY <2>1, <2>2, <2>3, <1>2, <1>5
       DEF LoopInv, SetupIsQuiet, NestedCalled, PublisherInv, ExitTellsPublished
<1>10. CASE nest = 0 /\ UNCHANGED nest /\ (ReturnsToTask \/ TellsRefusalAgain \/ HasTold)
  <2>1. ~called' /\ nest' = 0
    BY <1>2, <1>10
  <2>2. /\ pc'[Task] \notin {"cb_connected", "cb_suback"}
        /\ state' \in {state, "DISCONNECTED"}
    BY <1>10 DEF ReturnsToTask, TellsRefusalAgain, EndsConnection, HasTold
  <2>3. SubscriberInv'
    BY <2>1, <2>2, <1>2, <1>5, <1>6, <1>7 DEF SubscriberInv, Early, Handling
  <2>4. state' \in Active \/ is_disconnected'
    <3>1. CASE ReturnsToTask
      <4>1. ~Ending
        BY <3>1, <1>10, OneThread DEF ReturnsToTask, Final
      <4> QED
        BY <4>1, <3>1, <1>2, <1>8 DEF ReturnsToTask
    <3>2. CASE TellsRefusalAgain \/ HasTold
      BY <3>2, <1>2 DEF TellsRefusalAgain, HasTold, TellsEnd, Final
    <3> QED
      BY <1>10, <3>1, <3>2
  <2>5. state' # "MQTT_DISCONNECTING"
    BY <2>2, <1>8
  <2>6. ~InBranch'
    BY <1>10
       DEF ReturnsToTask, TellsRefusalAgain, EndsConnection, HasTold, InBranch, Waiting
  <2> QED
    BY <2>1, <2>2, <2>3, <2>4, <2>5, <2>6, <1>2, <1>5, <1>10, <1>11
       DEF LoopInv, SetupIsQuiet, NestedCalled, PublisherInv, ExitTellsPublished
<1> QED
  BY <1>4, <1>9, <1>10
\* The connect callback publishes: the connection it was told of may be lost.
LEMMA PublishStep ==
    ASSUME ProgramsAssumption, IInv, ProgramsInv, PublisherPublishes
    PROVE  ProgramsInv'
<1>1. /\ program = "pub" /\ step = "loop" /\ owner = Task
      /\ nest = 0 /\ ~called
      /\ pc[Task] \in {"cb_connected", "cb_refused", "cb_final_connect"}
      /\ called'
      /\ exit_code' = Published
      /\ UNCHANGED <<program, qos_accepted, step, current_topic, is_disconnected>>
  BY DEF PublisherPublishes, In, InCallback, InConnect
<1>2. /\ pc[Task] = "cb_connected" =>
            note.kind = "connect_ok" /\ state = "MQTT_CONNECTED"
      /\ pc[Task] \in {"cb_refused", "cb_final_connect"} =>
            note.kind = "connect_fail" /\ state # "MQTT_CONNECTED"
  BY <1>1 DEF ProgramsInv, PublisherInv
<1>3. /\ UNCHANGED pc
      /\ exit_code' = 0 <=> note'.kind = "connect_ok" /\ qos_accepted
  <2>1. CASE state = "MQTT_CONNECTED" /\ qos_accepted
    <3>1. note.kind = "connect_ok" /\ Publish(Task)
      BY <2>1, <1>1, <1>2 DEF PublisherPublishes
    <3>2. CASE UNCHANGED <<pc, nest, note>>
      BY <2>1, <3>1, <3>2, <1>1 DEF Published
    <3>3. CASE LosesConnection(Task)
      BY <3>3, <1>1 DEF LosesConnection, Notify, Published
    <3> QED
      BY <3>1, <3>2, <3>3 DEF Publish
  <2>2. CASE ~(state = "MQTT_CONNECTED" /\ qos_accepted)
    <3>1. UNCHANGED vars
      BY <2>2 DEF PublisherPublishes
    <3> QED
      BY <2>2, <3>1, <1>1, <1>2 DEF vars, threadVars, Published
  <2> QED
    BY <2>1, <2>2
<1>4. PublisherInv'
  BY <1>1, <1>3 DEF PublisherInv
<1> QED
  BY <1>1, <1>4
     DEF ProgramsInv, SetupIsQuiet, NestedCalled, SubscriberInv, LoopInv,
         ExitTellsPublished, Setup

\* It exits, with what it has made out.
LEMMA ExitStep ==
    ASSUME ProgramsInv, PublisherExits
    PROVE  ProgramsInv'
<1>1. /\ program = "pub" /\ step = "loop" /\ step' = "exited" /\ called
      /\ UNCHANGED <<program, qos_accepted, called, exit_code>>
  BY DEF PublisherExits, In, paramVars
<1>2. UNCHANGED note
  BY DEF PublisherExits, Disconnect, vars
<1>3. exit_code = 0 <=> note.kind = "connect_ok" /\ qos_accepted
  BY <1>1 DEF ProgramsInv, PublisherInv
<1> QED
  BY <1>1, <1>2, <1>3
     DEF ProgramsInv, SetupIsQuiet, NestedCalled, SubscriberInv, LoopInv, PublisherInv,
         ExitTellsPublished, Setup

\* A callback that publishes nothing returns, among them the one inside the publish.
LEMMA PublisherReturnStep ==
    ASSUME ClientAssumption, IInv, ProgramsInv, PublisherReturns
    PROVE  ProgramsInv'
<1>1. /\ program = "pub" /\ step = "loop"
      /\ ~InConnect
      /\ ReturnFromCallback(Task)
      /\ UNCHANGED <<program, qos_accepted, step, called, exit_code>>
  BY DEF PublisherReturns, In, paramVars
<1>2. \/ ReturnsInside
      \/ /\ nest = 0
         /\ UNCHANGED nest
         /\ ReturnsToTask \/ TellsRefusalAgain \/ HasTold
  BY <1>1, ReturnMoves
<1>3. nest \in Nat
  BY DEF IInv, TypeOK, ClientTypeOK, ClientAssumption
<1> USE DEF ProgramsInv
<1>4. PublisherInv' /\ NestedCalled'
  <2>1. CASE ReturnsInside
    BY <2>1, <1>1, <1>3 DEF ReturnsInside, PublisherInv, NestedCalled
  <2>2. CASE nest = 0 /\ UNCHANGED nest /\ (ReturnsToTask \/ TellsRefusalAgain \/ HasTold)
    <3>1. pc[Task] \notin {"cb_connected", "cb_refused", "cb_final_connect"}
      BY <2>2, <1>1 DEF InConnect
    <3>2. ~called
      BY <3>1, <1>1 DEF PublisherInv
    <3>3. pc'[Task] = "idle"
      BY <2>2, <3>1 DEF ReturnsToTask, TellsRefusalAgain, HasTold
    <3> QED
      BY <2>2, <3>2, <3>3, <1>1 DEF PublisherInv, NestedCalled
  <2> QED
    BY <1>2, <2>1, <2>2
<1> QED
  BY <1>1, <1>4 DEF SetupIsQuiet, SubscriberInv, LoopInv, ExitTellsPublished, Setup

LEMMA ProgramsStep ==
    ASSUME ClientAssumption, ProgramsAssumption, IInv, ProgramsTypeOK, ProgramsInv,
           [ProgramsNext]_allVars
    PROVE  ProgramsInv'
<1>1. CASE UNCHANGED allVars
  <2>1. AsksNothing
    BY <1>1 DEF allVars, vars, AsksNothing
  <2> QED
    BY <1>1, <2>1, ProgramsKept DEF allVars, vars, threadVars
<1>2. CASE Main
  BY <1>2, MainStep
<1>3. CASE MainCallsTask \/ TaskGoesOn \/ TaskGoesAstray
  BY <1>3, TaskStep
     DEF MainCallsTask, Loops, TaskGoesOn, TaskGoesAstray, MqttClientTask
<1>4. CASE MainLeavesLoop
  BY <1>4, LeaveStep
<1>5. CASE CallbackRuns
  BY <1>5, AskStep, SubscriberReturnStep, PublishStep, ExitStep, PublisherReturnStep
     DEF CallbackRuns
<1>6. CASE ResponseIsLate \/ Outside
  <2>1. AsksNothing
    BY <1>6, SilentSteps
  <2>2. /\ UNCHANGED <<program, qos_accepted, step, paramVars>>
        /\ UNCHANGED <<state, threadVars, pollVars, note>>
    BY <1>6 DEF ResponseIsLate, ResponseElapses, Outside, KeepaliveElapses, World,
                clientVars
  <2> QED
    BY <2>1, <2>2, ProgramsKept
<1> QED
  BY <1>1, <1>2, <1>3, <1>4, <1>5, <1>6 DEF ProgramsNext

\* The programs keep the invariant, whatever the broker and the network do.
THEOREM ProgramsSafety == ProgramsSpec => []ProgramsInv
<1>1. ProgramsInit => ProgramsInv
  BY ProgramsStart, ProgramsAssumption
<1>2. /\ IInv /\ ProgramsTypeOK /\ ProgramsInv
      /\ [ProgramsNext]_allVars
      => ProgramsInv'
  BY ProgramsStep, ClientAssumption, ProgramsAssumption
<1>3. ProgramsTypesOK => ProgramsTypeOK
  BY DEF ProgramsTypesOK
<1> QED
  BY <1>1, <1>2, <1>3, ProgramsRunClient, Safety, ProgramsTypeCorrect, PTL
     DEF ProgramsSpec

-------------------------------------------------------------------------------
(***************************************************************************)
(* What it gives.                                                          *)
(***************************************************************************)

\* lw-mqtt-sub reads its vector of topics inside of its bounds, whatever answers,
\* or bytes that look like them, arrive and when (lw-mqtt-sub.cpp, lines 385-418).
THEOREM TopicsStayInRange == ProgramsSpec => []TopicInRange
<1>1. ProgramsTypeOK /\ ProgramsInv => TopicInRange
  <2> SUFFICES ASSUME ProgramsTypeOK, ProgramsInv PROVE TopicInRange
    OBVIOUS
  <2> USE ProgramsAssumption DEF ProgramsAssumption, ProgramsTypeOK, ProgramsInv, In
  <2>1. ASSUME In("sub"), AsksTopic PROVE current_topic < NTopics
    BY <2>1 DEF AsksTopic, SubscriberInv
  <2>2. ASSUME In("sub"), pc[Task] = "cb_suback" PROVE current_topic \in 1..NTopics
    BY <2>2 DEF SubscriberInv
  <2> QED
    BY <2>1, <2>2 DEF TopicInRange
<1>2. ProgramsTypesOK => ProgramsTypeOK
  BY DEF ProgramsTypesOK
<1> QED
  BY <1>1, <1>2, ProgramsTypeCorrect, ProgramsSafety, PTL

\* lw-mqtt-sub has one request under way, so that the answer it gets is that of
\* the topic before its index (lw-mqtt-sub.cpp, lines 408 and 412), as long as
\* every publication could be read to its end.
THEOREM SubscriberAsksOneAtATime == ProgramsSpec => []OneRequestAtATime
<1>1. IInv /\ ProgramsInv => OneRequestAtATime
  <2> SUFFICES ASSUME IInv, ProgramsInv, program = "sub", framed PROVE Unanswered <= 1
    BY DEF OneRequestAtATime
  <2>1. /\ OneUnderWay
        /\ Handling => NoAnswer
        /\ owed["SUBACK"] \in Nat
    BY DEF ProgramsInv, SubscriberInv, IInv, TypeOK, LinkTypeOK, Answers
  <2>2. Queued = Cardinality(Subacks)
    BY DEF Queued, Subacks
  <2>3. Queued \in {0, 1} /\ (Subacks = {} => Queued = 0)
    <3>1. CASE Subacks = {}
      BY <3>1, <2>2, FS_EmptySet
    <3>2. ASSUME NEW i \in Subacks PROVE Queued = 1
      <4>1. Subacks = {i}
        BY <3>2, <2>1 DEF OneUnderWay
      <4> QED
        BY <4>1, <2>2, FS_Singleton
    <3> QED
      BY <3>1, <3>2
  <2>4. CASE Handling
    BY <2>1, <2>3, <2>4 DEF NoAnswer, Unanswered, Handling
  <2>5. CASE ~Handling
    BY <2>1, <2>3, <2>5 DEF OneUnderWay, Unanswered, Handling
  <2> QED
    BY <2>4, <2>5
<1> QED
  BY <1>1, ProgramsRunClient, Safety, ProgramsSafety, PTL

\* lw-mqtt-sub never loops over a client without a connection: a callback has
\* told it of the end (lw-mqtt-sub.cpp, lines 169 and 394-461).
THEOREM SubscriberSeesTheEnd == ProgramsSpec => []LoopEndsWithConnection
<1>1. IInv /\ ProgramsInv => LoopEndsWithConnection
  <2> SUFFICES ASSUME IInv, ProgramsInv, program = "sub", step = "loop",
                      pc[Task] = "idle", state \notin Active
               PROVE  is_disconnected
    BY DEF LoopEndsWithConnection
  <2>1. pc[Task] \notin CallbackPcs
    BY DEF CallbackPcs
  <2>2. ~Ending
    BY <2>1, OneThread, ProgramsAssumption
  <2> QED
    BY <2>2 DEF ProgramsInv, LoopInv
<1> QED
  BY <1>1, ProgramsRunClient, Safety, ProgramsSafety, PTL

\* The exit code of lw-mqtt-pub tells whether its message was sent on a
\* connection that the broker had accepted (lw-mqtt-pub.cpp, lines 393-408).
THEOREM ExitCodeIsTrue == ProgramsSpec => []ExitTellsPublished
<1>1. ProgramsInv => ExitTellsPublished
  BY DEF ProgramsInv
<1> QED
  BY <1>1, ProgramsSafety, PTL
===============================================================================
