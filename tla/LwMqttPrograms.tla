---------------------------- MODULE LwMqttPrograms ----------------------------
(***************************************************************************)
(* The programs lw-mqtt-sub and lw-mqtt-pub (examples/), composed with the *)
(* client: a main loop, callbacks that call the client back, and an exit   *)
(* code.  Each is one thread; its callbacks need a recursive mutex.        *)
(*                                                                         *)
(* The subscriber asks for one topic at a time: the connect callback asks  *)
(* for the first and the callback of each answer for the next.  The        *)
(* publisher sends its message in the connect callback, and exits there.   *)
(***************************************************************************)
EXTENDS MqttClient, FiniteSets

CONSTANT NTopics  \* topics on the command line of the subscriber

\* The parser of the subscriber asks for at least one topic.
ASSUME ProgramsAssumption ==
    /\ NTopics \in Nat \ {0}
    /\ RecursiveMutex
    /\ AppThreads = {}

VARIABLES
    program,          \* "sub" or "pub"
    qos_accepted,     \* the client accepts the QoS of the command line
    step,             \* where main is
    called,           \* the callback has subscribed, or published
    current_topic,    \* lw_mqtt_sub_params_t.current_topic
    is_disconnected,  \* lw_mqtt_sub_params_t.is_disconnected
    exit_code         \* of lw-mqtt-pub: what its callback is about to give exit

paramVars == <<called, current_topic, is_disconnected, exit_code>>
allVars == <<vars, program, qos_accepted, step, paramVars>>

Steps == {"init", "client_id", "keepalive", "connect", "loop", "exited"}

ProgramsTypeOK ==
    /\ program \in {"sub", "pub"}
    /\ qos_accepted \in BOOLEAN
    /\ step \in Steps
    /\ called \in BOOLEAN
    /\ current_topic \in Nat
    /\ is_disconnected \in BOOLEAN
    /\ exit_code \in {0, 1}

ProgramsInit ==
    /\ Init
    /\ program \in {"sub", "pub"}
    /\ qos_accepted \in BOOLEAN
    /\ step = "init"
    /\ called = FALSE
    /\ current_topic = 0
    /\ is_disconnected = FALSE
    /\ exit_code = 1

(***************************************************************************)
(* main                                                                    *)
(***************************************************************************)

Goes(from, to) ==
    /\ step = from
    /\ step' = to
    /\ UNCHANGED <<program, qos_accepted, called, current_topic, is_disconnected>>

\* Whether the client could be initialised makes no difference.
MainInitialises ==
    /\ Goes("init", "client_id")
    /\ MqttClientInit
    /\ UNCHANGED exit_code

MainSetsUp ==
    /\ \/ Goes("client_id", "keepalive") /\ SetIdentity(Task)
       \/ Goes("keepalive", "connect") /\ SetKeepalive(Task)
    /\ UNCHANGED exit_code

MainConnects ==
    /\ Goes("connect", "loop")
    /\ Connect(Task)
    /\ UNCHANGED exit_code

\* The client is not initialised, or nobody listens at the address.
MainFailsToConnect ==
    /\ Goes("connect", "exited")
    /\ exit_code' = 1
    /\ UNCHANGED vars

\* Faulty: the loop of the subscriber has the condition of the publisher.
LoopsForEver == step = "loop"

\* The condition of the loop is looked at between two calls of the task.
Loops == step = "loop" /\ (program = "sub" => ~is_disconnected)

MainCallsTask ==
    /\ Loops
    /\ TaskBegins
    /\ UNCHANGED <<program, qos_accepted, step, paramVars>>

TaskGoesOn ==
    /\ step = "loop"
    /\ TaskSelects \/ TaskResumes \/ TaskReads
    /\ UNCHANGED <<program, qos_accepted, step, paramVars>>

\* The bytes that a misread packet waits for may never come.
TaskGoesAstray ==
    /\ step = "loop"
    /\ TaskMisreads
    /\ UNCHANGED <<program, qos_accepted, step, paramVars>>

MainLeavesLoop ==
    /\ program = "sub"
    /\ pc[Task] = "idle"
    /\ ~Loops
    /\ Goes("loop", "exited")
    /\ exit_code' = 0
    /\ UNCHANGED vars

(***************************************************************************)
(* The callbacks of lw-mqtt-sub.                                           *)
(***************************************************************************)

In(p) == program = p /\ step = "loop" /\ InCallback(Task)

\* Faulty: the connect callback asks for every topic.
AsksAllTopics ==
    /\ nest = 0
    /\ pc[Task] \in {"cb_connected", "cb_suback"}
    /\ current_topic # NTopics

\* Faulty: the callback of an answer does not look whether there is a topic left.
AsksPastTheEnd == nest = 0 /\ ~called /\ pc[Task] \in {"cb_connected", "cb_suback"}

AsksTopic ==
    /\ nest = 0
    /\ ~called
    /\ \/ pc[Task] = "cb_connected"
       \/ pc[Task] = "cb_suback" /\ current_topic # NTopics

\* The index goes on whether the request could be sent or not; nothing reads
\* it before the call returns.
SubscriberAsks ==
    /\ In("sub")
    /\ AsksTopic
    /\ IF qos_accepted THEN Subscribe(Task) ELSE UNCHANGED vars
    /\ called' = TRUE
    /\ current_topic' = current_topic + 1
    /\ UNCHANGED <<program, qos_accepted, step, is_disconnected, exit_code>>

\* Faulty: only the callback of a failed attempt ends the loop.
TellsRefusal == pc[Task] \in {"cb_refused", "cb_final_connect"}

\* connect(false) and disconnect
TellsEnd ==
    \/ nest > 0
    \/ pc[Task] \in {"cb_refused", "cb_lost", "cb_final_connect",
                     "cb_final_disconnect"}

SubscriberReturns ==
    /\ In("sub")
    /\ ~AsksTopic
    /\ is_disconnected' = (is_disconnected \/ TellsEnd)
    /\ called' = (called /\ nest > 0)
    /\ ReturnFromCallback(Task)
    /\ UNCHANGED <<program, qos_accepted, step, current_topic, exit_code>>

(***************************************************************************)
(* The callbacks of lw-mqtt-pub.                                           *)
(***************************************************************************)

InConnect == nest = 0 /\ pc[Task] \in {"cb_connected", "cb_refused", "cb_final_connect"}

\* Faulty: the exit code says that the callback was called.
PublishedAnyway == 0

Published == IF state = "MQTT_CONNECTED" /\ qos_accepted /\ nest' = 0 THEN 0 ELSE 1

\* connect(false) publishes too, which the state of the client refuses.
PublisherPublishes ==
    /\ In("pub")
    /\ InConnect
    /\ ~called
    /\ IF state = "MQTT_CONNECTED" /\ qos_accepted
       THEN Publish(Task)
       ELSE UNCHANGED vars
    /\ exit_code' = Published
    /\ called' = TRUE
    /\ UNCHANGED <<program, qos_accepted, step, current_topic, is_disconnected>>

\* The callback never returns: main, and the task it was called from, are gone.
PublisherExits ==
    /\ In("pub")
    /\ InConnect
    /\ called
    /\ IF state = "MQTT_CONNECTED" THEN Disconnect(Task) ELSE UNCHANGED vars
    /\ step' = "exited"
    /\ UNCHANGED <<program, qos_accepted, paramVars>>

\* The disconnect callback, inside the publish that found the connection lost.
PublisherReturns ==
    /\ In("pub")
    /\ ~InConnect
    /\ ReturnFromCallback(Task)
    /\ UNCHANGED <<program, qos_accepted, step, paramVars>>

(***************************************************************************)
(* The specification.                                                      *)
(***************************************************************************)

Main == MainInitialises \/ MainSetsUp \/ MainConnects \/ MainFailsToConnect

CallbackRuns == SubscriberAsks \/ SubscriberReturns
                \/ PublisherPublishes \/ PublisherExits \/ PublisherReturns

ResponseIsLate ==
    /\ step # "exited"
    /\ ResponseElapses
    /\ UNCHANGED <<program, qos_accepted, step, paramVars>>

Outside ==
    /\ step # "exited"
    /\ KeepaliveElapses \/ World
    /\ UNCHANGED <<program, qos_accepted, step, paramVars>>

ProgramsNext ==
    \/ Main
    \/ MainCallsTask
    \/ TaskGoesOn
    \/ TaskGoesAstray
    \/ MainLeavesLoop
    \/ CallbackRuns
    \/ ResponseIsLate
    \/ Outside

\* The program runs, and the clock goes on.
ProgramsFairness ==
    /\ WF_allVars(Main)
    /\ WF_allVars(MainCallsTask)
    /\ WF_allVars(TaskGoesOn)
    /\ WF_allVars(MainLeavesLoop)
    /\ WF_allVars(CallbackRuns)
    /\ WF_allVars(ResponseIsLate)

ProgramsSpec == ProgramsInit /\ [][ProgramsNext]_allVars /\ ProgramsFairness

(***************************************************************************)
(* Properties.                                                             *)
(***************************************************************************)

\* Every variable has its type.
ProgramsTypesOK == TypeOK /\ ProgramsTypeOK

Queued == Cardinality({i \in 1..Len(rx) : rx[i].type = "SUBACK"})

\* The requests whose answer no callback has dealt with.
Unanswered ==
    owed["SUBACK"] + Queued
      + (IF pc[Task] = "cb_suback" /\ ~called /\ nest = 0 THEN 1 ELSE 0)

\* The subscriber has one request under way, for the topic before
\* current_topic: the answer it gets is the one its message names
\* (lw-mqtt-sub.cpp, lines 408 and 412), although no answer carries a topic, as
\* long as every publication could be read to its end: the bytes of one that
\* could not may look like an answer.
OneRequestAtATime == program = "sub" /\ framed => Unanswered <= 1

\* The topics are read inside of their vector, by the request and by the message
\* of the answer, however the answers arrive (lw-mqtt-sub.cpp, lines 385-418).
TopicInRange ==
    /\ In("sub") /\ AsksTopic => current_topic < NTopics
    /\ In("sub") /\ pc[Task] = "cb_suback" => current_topic \in 1..NTopics

\* The subscriber never loops over a client that has no connection: whatever
\* ended it, one of the callbacks has said so by the time the task returns
\* (lw-mqtt-sub.cpp, lines 169 and 394-461).
LoopEndsWithConnection ==
    /\ program = "sub"
    /\ step = "loop"
    /\ pc[Task] = "idle"
    /\ state \notin Active
    => is_disconnected

\* lw-mqtt-pub exits with 0 when the broker has accepted it and the message
\* has been sent on that connection, and with 1 when there was no connection, it
\* was refused, or it was lost in the publish (lw-mqtt-pub.cpp, lines 393-408).
ExitTellsPublished ==
    program = "pub" /\ step = "exited" =>
        (exit_code = 0 <=> note.kind = "connect_ok" /\ qos_accepted)

\* lw-mqtt-pub comes to an end, whatever the broker does, unless the reader waits
\* for ever, in a packet that stops half way or at an end of file: the loop has no
\* condition, only the connect callback ends it.
PublisherEnds == <>[]ReaderWaits \/ (program = "pub" ~> step = "exited")

\* lw-mqtt-sub comes to an end when its connection is reset, whatever it was
\* doing or waiting for, in a packet that stopped half way or was misread too.
SubscriberEnds == program = "sub" /\ sock = "reset" ~> step = "exited"
===============================================================================
