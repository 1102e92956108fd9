------------------------------ MODULE MqttClient ------------------------------
(***************************************************************************)
(* The MQTT client (client/mqtt_client.c, POSIX and Windows ports).        *)
(*                                                                         *)
(* Every operation takes the mutex of the client, works and releases it:   *)
(* one action, unless it runs a callback of the application, which it      *)
(* does with the mutex held.  The client task also waits for data, with    *)
(* the mutex released, in the middle of its work.                          *)
(*                                                                         *)
(* An operation that finds the client in another state than it needs       *)
(* changes nothing and has no action here.  A callback that is not         *)
(* registered behaves as one that returns at once.                         *)
(***************************************************************************)
EXTENDS MqttSocket

CONSTANTS
    Task,            \* the thread that runs mqtt_client_task
    AppThreads,      \* the other threads of the application
    NoThread,
    RecursiveMutex,  \* Windows critical section; a POSIX mutex is not
    MaxNest,         \* bound: disconnect callbacks one inside the other
    MaxTopic,        \* MQTT_CLIENT_MAX_TOPIC_LENGTH
    MaxQos,          \* MQTT_CFG_MAX_QOS_LEVEL
    FailureQos,      \* MQTT_FAILURE_QOS
    PacketIdMod,     \* values of a packet id, 2^16 in the code
    PubQos,          \* QoS levels the application publishes with
    Keepalives,      \* keepalive periods it sets, 0 for none
    Identities,      \* client ids, credentials and wills it sets
    AppOps,          \* operations its threads call; "touch" is any that only
                     \* takes and releases the mutex, as get_user_data
    CallbackOps      \* operations its callbacks call, by callback

Threads == AppThreads \cup {Task}
Operations == {"init", "connect", "disconnect", "subscribe", "unsubscribe",
               "publish", "set_keepalive", "set_identity", "touch"}
Callbacks == {"connect", "publish_received", "subscribe", "disconnect"}

ASSUME ClientAssumption ==
    /\ NoThread \notin Threads
    /\ Task \notin AppThreads
    /\ RecursiveMutex \in BOOLEAN
    /\ MaxNest \in Nat
    /\ MaxTopic \in Nat
    /\ MaxQos \in Nat
    /\ FailureQos \in Nat
    /\ PacketIdMod \in Nat \ {0}
    /\ PubQos \subseteq 0..2
    /\ Keepalives \subseteq Nat
    /\ Identities \subseteq {"valid", "invalid"}
    /\ AppOps \subseteq Operations
    /\ CallbackOps \in [Callbacks -> SUBSET Operations]

VARIABLES
    state,                \* mqtt_client_t.state
    packet_id,            \* mqtt_client_t.packet_id
    is_waiting_response,  \* mqtt_client_t.is_waiting_response
    topic_size,           \* mqtt_client_t.topic.size
    identity,             \* what serialize_connect says of the id, the
                          \* credentials and the will
    keepalive,            \* mqtt_client_t.keepalive
    keepalive_expired,    \* the keepalive timer is past its expiration time
    response_expired,     \* and the broker response timer
    owner,                \* the thread that holds the mutex
    pc,                   \* where each thread is
    nest,                 \* disconnect callbacks run by calls of callbacks
    stuck,                \* the owner waits for the mutex it holds
    branch,               \* the case label the task is in
    polled,               \* what its last select reported
    note                  \* the last connect or disconnect callback

setVars == <<topic_size, identity, keepalive>>
timerVars == <<keepalive_expired, response_expired>>
threadVars == <<owner, pc, nest, stuck>>
pollVars == <<branch, polled>>
vars == <<linkVars, state, packet_id, is_waiting_response, setVars, timerVars,
          threadVars, pollVars, note>>

States == {"NOT_INITIALIZED", "DISCONNECTED", "TCP_CONNECTING",
           "MQTT_CONNECTING", "MQTT_CONNECTED", "MQTT_DISCONNECTING"}

\* The default case stores the error MQTT_ERR_INVALID_PACKET_TYPE as a state.
InvalidState == "INVALID_PACKET_TYPE"

CallbackPcs == {"cb_connected", "cb_refused", "cb_publish", "cb_suback",
                "cb_lost", "cb_final_connect", "cb_final_disconnect"}
Waiting == {"select", "relock"}

Pcs == {"idle", "reading"} \cup Waiting \cup CallbackPcs

Notes == [kind: {"none", "connect_ok", "connect_fail", "lost", "closed"},
          bit: {0, 1}]

ClientTypeOK ==
    /\ state \in States \cup {InvalidState}
    /\ packet_id \in 0..PacketIdMod - 1
    /\ is_waiting_response \in BOOLEAN
    /\ topic_size \in 0..MaxTopic
    /\ identity \in {"valid", "invalid"}
    /\ keepalive \in Nat
    /\ keepalive_expired \in BOOLEAN
    /\ response_expired \in BOOLEAN
    /\ owner \in Threads \cup {NoThread}
    /\ pc \in [Threads -> Pcs]
    /\ nest \in 0..MaxNest
    /\ stuck \in BOOLEAN
    /\ branch \in {"none", "MQTT_CONNECTING", "MQTT_CONNECTED"}
    /\ polled \in {"none", "ready", "timeout", "failed"}
    /\ note \in Notes

\* Every variable has its type.
TypeOK == LinkTypeOK /\ ClientTypeOK

\* Before mqtt_client_init a mqtt_client_t in static storage is all zeros.
Init ==
    /\ LinkInit
    /\ state = "NOT_INITIALIZED"
    /\ packet_id = 0
    /\ is_waiting_response = FALSE
    /\ topic_size = 0
    /\ identity = "invalid"
    /\ keepalive = 0
    /\ keepalive_expired = TRUE
    /\ response_expired = TRUE
    /\ owner = NoThread
    /\ pc = [t \in Threads |-> "idle"]
    /\ nest = 0
    /\ stuck = FALSE
    /\ branch = "none"
    /\ polled = "none"
    /\ note = [kind |-> "none", bit |-> 0]

(***************************************************************************)
(* Who may call what.                                                      *)
(***************************************************************************)

\* The callback thread t is in; the nested ones tell of a lost connection.
Callback(t) ==
    CASE nest > 0 \/ pc[t] \in {"cb_lost", "cb_final_disconnect"} -> "disconnect"
      [] nest = 0 /\ pc[t] = "cb_publish" -> "publish_received"
      [] nest = 0 /\ pc[t] = "cb_suback" -> "subscribe"
      [] OTHER -> "connect"

InCallback(t) == owner = t /\ pc[t] \in CallbackPcs /\ ~stuck

\* A thread calls op and gets the mutex: it was free, or the callback the
\* thread is in holds it and the mutex is recursive.
Enters(t, op) ==
    \/ pc[t] = "idle" /\ owner = NoThread /\ op \in AppOps
    \/ RecursiveMutex /\ InCallback(t) /\ op \in CallbackOps[Callback(t)]

\* A callback calls any operation and the mutex is not recursive.
BlocksOnItself(t) ==
    /\ ~RecursiveMutex
    /\ InCallback(t)
    /\ CallbackOps[Callback(t)] # {}
    /\ stuck' = TRUE
    /\ UNCHANGED <<linkVars, state, packet_id, is_waiting_response, setVars,
                   timerVars, owner, pc, nest, pollVars, note>>

Notify(k) == note' = [kind |-> k, bit |-> 1 - note.bit]

\* Faulty: a counter that never wraps.
NextPacketIdUnbounded == packet_id' = packet_id + 1

NextPacketId == packet_id' = (packet_id + 1) % PacketIdMod

(***************************************************************************)
(* The operations.                                                         *)
(***************************************************************************)

\* mqtt_client_init is called before the client is used, or again when no
\* thread is in it.  The socket, and nothing else, may fail to open.
MqttClientInit ==
    /\ "init" \in AppOps
    /\ \A u \in Threads : pc[u] = "idle"
    /\ state \in {"NOT_INITIALIZED", "DISCONNECTED"}
    /\ \E opened \in BOOLEAN :
        /\ OpenSocket(opened)
        /\ state' = IF opened THEN "DISCONNECTED" ELSE "NOT_INITIALIZED"
    /\ packet_id' = 0
    /\ is_waiting_response' = FALSE
    /\ topic_size' = MaxTopic
    /\ identity' = "invalid"
    /\ keepalive' = 0
    /\ keepalive_expired' = TRUE
    /\ response_expired' = TRUE
    /\ UNCHANGED <<threadVars, pollVars, note>>

\* The client id, the credentials and the will, as CONNECT will find them.
SetIdentity(t) ==
    /\ Enters(t, "set_identity")
    /\ identity' \in Identities
    /\ UNCHANGED <<linkVars, state, packet_id, is_waiting_response, topic_size,
                   keepalive, timerVars, threadVars, pollVars, note>>

\* The running keepalive timer keeps the period it was started with.
SetKeepalive(t) ==
    /\ Enters(t, "set_keepalive")
    /\ keepalive' \in Keepalives
    /\ UNCHANGED <<linkVars, state, packet_id, is_waiting_response, topic_size,
                   identity, timerVars, threadVars, pollVars, note>>

Connect(t) ==
    /\ Enters(t, "connect")
    /\ state = "DISCONNECTED"
    /\ ConnectSocket
    /\ state' = "TCP_CONNECTING"
    /\ UNCHANGED <<packet_id, is_waiting_response, setVars, timerVars,
                   threadVars, pollVars, note>>

\* Faulty: the state is not checked.
DisconnectUnchecked(t) ==
    /\ Enters(t, "disconnect")
    /\ state' = "MQTT_DISCONNECTING"
    /\ CloseSocket
    /\ UNCHANGED <<packet_id, is_waiting_response, setVars, timerVars,
                   threadVars, pollVars, note>>

\* Faulty: the socket stays open.
DisconnectUnclosed(t) ==
    /\ Enters(t, "disconnect")
    /\ state = "MQTT_CONNECTED"
    /\ state' = "MQTT_DISCONNECTING"
    /\ UNCHANGED <<linkVars, packet_id, is_waiting_response, setVars, timerVars,
                   threadVars, pollVars, note>>

\* Whether the DISCONNECT packet could be sent makes no difference.
Disconnect(t) ==
    /\ Enters(t, "disconnect")
    /\ state = "MQTT_CONNECTED"
    /\ state' = "MQTT_DISCONNECTING"
    /\ CloseSocket
    /\ UNCHANGED <<packet_id, is_waiting_response, setVars, timerVars,
                   threadVars, pollVars, note>>

\* The packet cannot be sent: the disconnect callback runs before the state
\* changes, in the call itself or inside the callback that made the call.
LosesConnection(t) ==
    /\ ~Connected
    /\ CloseSocket
    /\ Notify("lost")
    /\ IF owner = t
       THEN nest < MaxNest /\ nest' = nest + 1 /\ UNCHANGED <<owner, pc>>
       ELSE owner' = t /\ pc' = [pc EXCEPT ![t] = "cb_lost"] /\ UNCHANGED nest
    /\ UNCHANGED <<state, packet_id, is_waiting_response, timerVars>>

\* subscribe and unsubscribe, with the answer they wait for.
Request(t, op, answer) ==
    /\ Enters(t, op)
    /\ state = "MQTT_CONNECTED"
    /\ \/ /\ Transmit(answer)
          /\ keepalive_expired' = FALSE
          /\ response_expired' = FALSE
          /\ is_waiting_response' = TRUE
          /\ NextPacketId
          /\ UNCHANGED <<state, owner, pc, nest, note>>
       \/ LosesConnection(t)
    /\ UNCHANGED <<setVars, stuck, pollVars>>

Subscribe(t) == Request(t, "subscribe", "SUBACK")
Unsubscribe(t) == Request(t, "unsubscribe", "UNSUBACK")

Publish(t) ==
    /\ Enters(t, "publish")
    /\ state = "MQTT_CONNECTED"
    /\ \/ /\ \E qos \in PubQos : IF qos = 0 THEN TransmitOnly ELSE Transmit("PUBACK")
          /\ keepalive_expired' = FALSE
          /\ NextPacketId
          /\ UNCHANGED <<state, is_waiting_response, response_expired, owner,
                         pc, nest, note>>
       \/ LosesConnection(t)
    /\ UNCHANGED <<setVars, stuck, pollVars>>

(***************************************************************************)
(* The return of a callback, and the end of the call that ran it.          *)
(***************************************************************************)

\* Faulty: a return without the unlock.
KeepsMutex(t) == UNCHANGED owner /\ pc' = [pc EXCEPT ![t] = "idle"]

Release(t) == owner' = NoThread /\ pc' = [pc EXCEPT ![t] = "idle"]

Runs(t, callback) == owner' = t /\ pc' = [pc EXCEPT ![t] = callback]

\* Faulty: an expected end is told as a loss.
EndKindLost(s) == "lost"

EndKind(s) == IF s = "MQTT_DISCONNECTING" THEN "closed" ELSE "lost"

\* "Close socket and notify application": the state s decides which callback
\* runs, and the client is disconnected once that callback has returned.
NotifyEnd(s) ==
    /\ state' = s
    /\ \/ /\ s \in {"MQTT_CONNECTED", "MQTT_DISCONNECTING"}
          /\ Notify(EndKind(s))
          /\ Runs(Task, "cb_final_disconnect")
       \/ /\ s \notin {"MQTT_CONNECTED", "MQTT_DISCONNECTING"}
          /\ Notify("connect_fail")
          /\ Runs(Task, "cb_final_connect")

\* Faulty: the socket stays open.
FinishUnclosed == UNCHANGED linkVars /\ NotifyEnd(state)

Finish == CloseSocket /\ NotifyEnd(state)

\* Faulty: the state is not changed after the callback.
AfterLostStale == UNCHANGED state /\ NextPacketId

\* The rest of the subscribe, unsubscribe or publish that ran the callback.
AfterLost == state' = "DISCONNECTED" /\ NextPacketId

ReturnsNested(t) ==
    /\ InCallback(t)
    /\ nest > 0
    /\ nest' = nest - 1
    /\ AfterLost
    /\ UNCHANGED <<linkVars, is_waiting_response, setVars, timerVars, owner, pc,
                   stuck, pollVars, note>>

\* Faulty: the flag outlives the answer.
LeavesWait(t) == UNCHANGED is_waiting_response

EndsWait(t) ==
    is_waiting_response' = (is_waiting_response /\ pc[t] = "cb_publish")

\* The connect(true) and the subscribe callback: the task goes on to clear
\* the flag, whatever the callback did.
ReturnsToBranch(t) ==
    /\ InCallback(t)
    /\ nest = 0
    /\ pc[t] \in {"cb_connected", "cb_suback", "cb_publish"}
    /\ EndsWait(t)
    /\ Release(t)
    /\ UNCHANGED <<linkVars, state, packet_id, setVars, timerVars, nest, stuck,
                   pollVars, note>>

\* The connect(false) of a refused connection; another one follows it.
ReturnsRefused(t) ==
    /\ InCallback(t)
    /\ nest = 0
    /\ pc[t] = "cb_refused"
    /\ Finish
    /\ UNCHANGED <<packet_id, is_waiting_response, setVars, timerVars, nest,
                   stuck, pollVars>>

ReturnsFinal(t) ==
    /\ InCallback(t)
    /\ nest = 0
    /\ \/ pc[t] = "cb_lost" /\ AfterLost
       \/ /\ pc[t] \in {"cb_final_connect", "cb_final_disconnect"}
          /\ state' = "DISCONNECTED"
          /\ UNCHANGED packet_id
    /\ Release(t)
    /\ UNCHANGED <<linkVars, is_waiting_response, setVars, timerVars, nest,
                   stuck, pollVars, note>>

ReturnFromCallback(t) ==
    \/ ReturnsNested(t)
    \/ ReturnsToBranch(t)
    \/ ReturnsRefused(t)
    \/ ReturnsFinal(t)

(***************************************************************************)
(* mqtt_client_task, up to the point where it waits for data.              *)
(***************************************************************************)

TaskEnters == pc[Task] = "idle" /\ owner = NoThread

TaskSettles ==
    /\ TaskEnters
    /\ state = "MQTT_DISCONNECTING"
    /\ state' = "DISCONNECTED"
    /\ UNCHANGED <<linkVars, packet_id, is_waiting_response, setVars, timerVars,
                   threadVars, pollVars, note>>

TaskSendsConnect ==
    /\ TaskEnters
    /\ state = "TCP_CONNECTING"
    /\ identity = "valid"
    /\ Transmit("CONNACK")
    /\ state' = "MQTT_CONNECTING"
    /\ keepalive_expired' = FALSE
    /\ response_expired' = FALSE
    /\ UNCHANGED <<packet_id, is_waiting_response, setVars, threadVars, pollVars,
                   note>>

TaskFailsToConnect ==
    /\ TaskEnters
    /\ state = "TCP_CONNECTING"
    /\ identity = "invalid" \/ ~Connected \/ "eintr" \in Faults
    /\ Finish
    /\ UNCHANGED <<packet_id, is_waiting_response, setVars, timerVars, nest,
                   stuck, pollVars>>

\* The keepalive timer restarts by itself; whether the PINGREQ could be sent
\* makes no difference and nothing waits for its answer.
TaskPolls ==
    /\ TaskEnters
    /\ state \in {"MQTT_CONNECTING", "MQTT_CONNECTED"}
    /\ branch' = state
    /\ pc' = [pc EXCEPT ![Task] = "select"]
    /\ IF state = "MQTT_CONNECTED" /\ keepalive # 0 /\ keepalive_expired
       THEN /\ keepalive_expired' = FALSE
            /\ IF Connected THEN Transmit("PINGRESP") ELSE UNCHANGED linkVars
       ELSE UNCHANGED <<linkVars, keepalive_expired>>
    /\ UNCHANGED <<state, packet_id, is_waiting_response, setVars,
                   response_expired, owner, nest, stuck, polled, note>>

TaskSelects ==
    /\ pc[Task] = "select"
    /\ polled' \in SelectResults
    /\ pc' = [pc EXCEPT ![Task] = "relock"]
    /\ UNCHANGED <<linkVars, state, packet_id, is_waiting_response, setVars,
                   timerVars, owner, nest, stuck, branch, note>>

(***************************************************************************)
(* mqtt_client_task, from the point where it has the mutex back.  The case *)
(* label it is in was chosen before; the state is not looked at again.     *)
(***************************************************************************)

\* Faulty: the mutex is not waited for.
TaskRelocksUnlocked == pc[Task] = "relock"

TaskRelocks == pc[Task] = "relock" /\ owner = NoThread

TaskStartsReading ==
    /\ TaskRelocks
    /\ polled = "ready"
    /\ Runs(Task, "reading")
    /\ UNCHANGED <<linkVars, state, packet_id, is_waiting_response, setVars,
                   timerVars, nest, stuck, pollVars, note>>

\* Faulty: the answer to CONNECT is not awaited.
AwaitsRequest == is_waiting_response

\* Faulty: only the answer to CONNECT is awaited.
AwaitsConnack == branch = "MQTT_CONNECTING"

AwaitsAnswer == branch = "MQTT_CONNECTING" \/ is_waiting_response

TaskGivesUp ==
    /\ TaskRelocks
    /\ \/ polled = "failed"
       \/ polled = "timeout" /\ AwaitsAnswer /\ response_expired
    /\ Finish
    /\ UNCHANGED <<packet_id, is_waiting_response, setVars, timerVars, nest,
                   stuck, pollVars>>

TaskFindsNothing ==
    /\ TaskRelocks
    /\ polled = "timeout"
    /\ ~(AwaitsAnswer /\ response_expired)
    /\ Release(Task)
    /\ UNCHANGED <<linkVars, state, packet_id, is_waiting_response, setVars,
                   timerVars, nest, stuck, pollVars, note>>

(***************************************************************************)
(* mqtt_client_task reads a packet, with the mutex held.                   *)
(***************************************************************************)

Reads(label) == pc[Task] = "reading" /\ branch = label

TaskFailsToRead ==
    /\ pc[Task] = "reading"
    /\ ReadFails
    /\ Finish
    /\ UNCHANGED <<packet_id, is_waiting_response, setVars, timerVars, nest,
                   stuck, pollVars>>

\* The header has arrived and the rest of the packet does not.  The callback
\* of a refused connection runs, or the flag is cleared all the same, or the
\* topic has been read already.
TaskFailsInPayload ==
    /\ pc[Task] = "reading"
    /\ ReadFails
    /\ framed
    /\ rx # <<>>
    /\ \/ /\ branch = "MQTT_CONNECTING"
          /\ Notify("connect_fail")
          /\ Runs(Task, "cb_refused")
          /\ UNCHANGED <<linkVars, state, is_waiting_response, topic_size>>
       \/ /\ branch = "MQTT_CONNECTED"
          /\ Finish
          /\ is_waiting_response' =
                (is_waiting_response /\ Head(rx).type \notin {"SUBACK", "UNSUBACK"})
          /\ \/ UNCHANGED topic_size
             \/ /\ Head(rx).type = "PUBLISH"
                /\ Head(rx).arg <= topic_size
                /\ topic_size' = Head(rx).arg
    /\ UNCHANGED <<packet_id, identity, keepalive, timerVars, nest, stuck,
                   pollVars>>

\* Any packet is read as a CONNACK here; the broker sends no other first.
TaskReadsConnack ==
    /\ Reads("MQTT_CONNECTING")
    /\ Consume
    /\ IF Head(rx).arg = 0
       THEN /\ state' = "MQTT_CONNECTED"
            /\ Notify("connect_ok")
            /\ Runs(Task, "cb_connected")
       ELSE /\ UNCHANGED state
            /\ Notify("connect_fail")
            /\ Runs(Task, "cb_refused")
    /\ UNCHANGED <<packet_id, is_waiting_response, setVars, timerVars, nest,
                   stuck, pollVars>>

ReadsPacket(type) ==
    /\ Reads("MQTT_CONNECTED")
    /\ CanRead
    /\ Head(rx).type = type

\* The size of the buffer is the length of the last topic.
AcceptsTopic(n) == topic_size # 0 /\ n <= topic_size

AcceptsPublish(p) == p.qos <= MaxQos /\ AcceptsTopic(p.arg)

PublishArrived ==
    /\ Reads("MQTT_CONNECTED")
    /\ Arrived
    /\ Head(rx).type = "PUBLISH"

\* The topic is read before the length is found too small for it.
TaskRefusesPublish ==
    /\ PublishArrived
    /\ \/ /\ ~AcceptsPublish(Head(rx))
          /\ UNCHANGED topic_size
       \/ /\ AcceptsPublish(Head(rx))
          /\ LeftAfterTopic(Head(rx)) < 0
          /\ topic_size' = Head(rx).arg
    /\ Finish
    /\ UNCHANGED <<packet_id, is_waiting_response, identity, keepalive,
                   timerVars, nest, stuck, pollVars>>

GivesMessage(n) ==
    /\ topic_size' = n
    /\ Runs(Task, "cb_publish")
    /\ UNCHANGED <<state, packet_id, is_waiting_response, identity, keepalive,
                   timerVars, nest, stuck, pollVars, note>>

TaskReadsPublish ==
    /\ ReadsPacket("PUBLISH")
    /\ AcceptsPublish(Head(rx))
    /\ LeftAfterTopic(Head(rx)) >= 0
    /\ IF Whole(Head(rx)) THEN Consume ELSE ConsumePart
    /\ GivesMessage(Head(rx).arg)

\* The highest QoS level is rejected.
AcceptsCode(code) == code < MaxQos \/ code = FailureQos

\* The flag is cleared at once when the code is rejected, after the callback
\* when it is accepted.
TaskReadsSuback ==
    /\ ReadsPacket("SUBACK")
    /\ IF AcceptsCode(Head(rx).arg)
       THEN /\ Consume
            /\ Runs(Task, "cb_suback")
            /\ UNCHANGED <<state, is_waiting_response, note>>
       ELSE /\ Finish
            /\ is_waiting_response' = FALSE
    /\ UNCHANGED <<packet_id, setVars, timerVars, nest, stuck, pollVars>>

\* UNSUBACK and PINGRESP; no callback is told of the first.
TaskReadsAnswer ==
    /\ ReadsPacket("UNSUBACK") \/ ReadsPacket("PINGRESP")
    /\ Consume
    /\ is_waiting_response' = FALSE
    /\ Release(Task)
    /\ UNCHANGED <<state, packet_id, setVars, timerVars, nest, stuck, pollVars,
                   note>>

\* Every other packet, a PUBACK or a PUBREC among them.
TaskReadsOther ==
    /\ ReadsPacket("PUBACK") \/ ReadsPacket("CONNACK")
    /\ CloseSocket
    /\ NotifyEnd(InvalidState)
    /\ UNCHANGED <<packet_id, is_waiting_response, setVars, timerVars, nest,
                   stuck, pollVars>>

(***************************************************************************)
(* mqtt_client_task reads a packet and is out of step with the packets.    *)
(* The bytes it takes for one are bytes of a message, which may be any, or *)
(* of a packet that has been read in part.  It may also wait for more      *)
(* bytes than will ever come, with the mutex held.  What a payload that is *)
(* longer than its buffer would overwrite is left out.                     *)
(***************************************************************************)

\* A PUBLISH with the bytes of the packets after it for the end of its payload.
TaskReadsBeyond ==
    /\ PublishArrived
    /\ AcceptsPublish(Head(rx))
    /\ Overlong(Head(rx))
    /\ Len(rx) > 1
    /\ \E k \in 2..Len(rx) + 1 : TakeUpTo(k)
    /\ GivesMessage(Head(rx).arg)

Strays == Reads("MQTT_CONNECTED") /\ ~framed /\ rx # <<>>

\* Bound: when nothing more can come, each read takes the rest of a packet, so
\* that the bytes come to an end.
TakesSome ==
    \E k \in 1..Len(rx) + 1 :
        /\ sock # "up" => k > 1
        /\ TakeUpTo(k)

TaskStraysIntoPublish ==
    /\ Strays
    /\ TakesSome
    /\ \E n \in 0..topic_size : AcceptsTopic(n) /\ GivesMessage(n)

TaskStraysIntoSuback ==
    /\ Strays
    /\ TakesSome
    /\ Runs(Task, "cb_suback")
    /\ UNCHANGED <<state, packet_id, is_waiting_response, setVars, timerVars,
                   nest, stuck, pollVars, note>>

TaskStraysIntoAnswer ==
    /\ Strays
    /\ TakesSome
    /\ is_waiting_response' = FALSE
    /\ Release(Task)
    /\ UNCHANGED <<state, packet_id, setVars, timerVars, nest, stuck, pollVars,
                   note>>

\* A packet of another type; or a type that is none, a length or a code that is
\* refused, maybe after the topic was read or in an answer.
TaskStraysIntoEnd ==
    /\ Strays
    /\ CloseSocket
    /\ \/ NotifyEnd(InvalidState) /\ UNCHANGED <<topic_size, is_waiting_response>>
       \/ /\ NotifyEnd(state)
          /\ topic_size' \in 0..topic_size
          /\ UNCHANGED is_waiting_response
       \/ /\ NotifyEnd(state)
          /\ is_waiting_response' = FALSE
          /\ UNCHANGED topic_size
    /\ UNCHANGED <<packet_id, identity, keepalive, timerVars, nest, stuck,
                   pollVars>>

\* Faulty: the disconnecting state has no case label.
TaskBeginsUnsettled == TaskSendsConnect \/ TaskFailsToConnect \/ TaskPolls

TaskBegins ==
    \/ TaskSettles
    \/ TaskSendsConnect
    \/ TaskFailsToConnect
    \/ TaskPolls

TaskResumes == TaskStartsReading \/ TaskGivesUp \/ TaskFindsNothing

TaskReads ==
    \/ TaskFailsToRead
    \/ TaskFailsInPayload
    \/ TaskReadsConnack
    \/ TaskRefusesPublish
    \/ TaskReadsPublish
    \/ TaskReadsSuback
    \/ TaskReadsAnswer
    \/ TaskReadsOther

TaskMisreads ==
    \/ TaskReadsBeyond
    \/ TaskStraysIntoPublish
    \/ TaskStraysIntoSuback
    \/ TaskStraysIntoAnswer
    \/ TaskStraysIntoEnd

MqttClientTask ==
    TaskBegins \/ TaskSelects \/ TaskResumes \/ TaskReads \/ TaskMisreads

(***************************************************************************)
(* Time and the specification.                                             *)
(***************************************************************************)

clientVars == <<state, packet_id, is_waiting_response, setVars, threadVars,
                pollVars, note>>

KeepaliveElapses ==
    /\ ~keepalive_expired
    /\ keepalive_expired' = TRUE
    /\ UNCHANGED <<linkVars, clientVars, response_expired>>

ResponseElapses ==
    /\ ~response_expired
    /\ response_expired' = TRUE
    /\ UNCHANGED <<linkVars, clientVars, keepalive_expired>>

World == Environment /\ UNCHANGED <<clientVars, timerVars>>

Api(t) ==
    \/ SetIdentity(t)
    \/ SetKeepalive(t)
    \/ Connect(t)
    \/ Disconnect(t)
    \/ Subscribe(t)
    \/ Unsubscribe(t)
    \/ Publish(t)

Next ==
    \/ MqttClientInit
    \/ \E t \in Threads : Api(t) \/ BlocksOnItself(t) \/ ReturnFromCallback(t)
    \/ MqttClientTask
    \/ KeepaliveElapses
    \/ ResponseElapses
    \/ World

Spec == Init /\ [][Next]_vars

\* The application keeps calling mqtt_client_task, its callbacks return, a
\* mutex that stays free is granted in the end to the task that waits for it,
\* and the clock goes on.  The broker and the network owe nothing, least of all
\* the bytes that a misread packet waits for.
Fairness ==
    /\ WF_vars(TaskBegins)
    /\ WF_vars(TaskSelects)
    /\ WF_vars(TaskResumes)
    /\ WF_vars(TaskReads)
    /\ \A t \in Threads : WF_vars(ReturnFromCallback(t))
    /\ WF_vars(ResponseElapses)

FairSpec == Spec /\ Fairness

(***************************************************************************)
(* Properties.                                                             *)
(***************************************************************************)

Holding == {"reading"} \cup CallbackPcs

\* At most one thread is between a lock and its unlock, the task waits for
\* data without the mutex, and a callback runs with it, at any depth of calls
\* made from callbacks (mqtt_client.c, every operation).
LockDiscipline ==
    /\ \A t \in Threads : owner = t <=> pc[t] \in Holding
    /\ \A t \in AppThreads : pc[t] \in {"idle", "cb_lost"}
    /\ pc[Task] \in Waiting => branch # "none"
    /\ nest > 0 => RecursiveMutex /\ \E t \in Threads : pc[t] \in CallbackPcs
    /\ stuck => ~RecursiveMutex /\ \E t \in Threads : pc[t] \in CallbackPcs

Active == {"TCP_CONNECTING", "MQTT_CONNECTING", "MQTT_CONNECTED"}

\* The callback that tells the end of a connection runs: the socket has been
\* closed and the state does not say so yet.
Ending ==
    \/ nest > 0
    \/ \E t \in Threads :
          pc[t] \in {"cb_lost", "cb_final_connect", "cb_final_disconnect"}

\* The state and the socket agree whenever no connection is being ended: in
\* an active state there is a connection to read an end from, in any other
\* state none is left open, although the state and the socket change in
\* different statements, in calls that may be made from one another.
StateMatchesSocket ==
    /\ sock = "fresh" => state = "DISCONNECTED"
    /\ IF Ending
       THEN ~Connected
       ELSE /\ state # InvalidState
            /\ state \in Active => sock \in {"up", "eof", "reset"}
            /\ state \notin Active => ~Connected

InBranch == pc[Task] \in Waiting \cup {"reading"}

\* The task chooses its case label, releases the mutex and does not look at
\* the state again: the work of a label is still done in a state it can be
\* done in (mqtt_client_task, the two calls of mqtt_socket_select).
BranchStaysValid ==
    InBranch =>
        \/ branch = "MQTT_CONNECTING" /\ state = "MQTT_CONNECTING"
        \/ /\ branch = "MQTT_CONNECTED"
           /\ state \in {"MQTT_CONNECTED", "MQTT_DISCONNECTING", "DISCONNECTED"}

\* What the invariants above rest on: nothing has happened yet on a socket that
\* has not been connected, and a lost connection is only told in a state that
\* comes after the CONNACK.
FreshIsQuiet ==
    sock = "fresh" => owner = NoThread /\ ~InBranch

LossIsLate ==
    nest > 0 \/ (\E t \in Threads : pc[t] = "cb_lost")
      => state \in {"MQTT_CONNECTED", "MQTT_DISCONNECTING", "DISCONNECTED"}

\* The inductive invariant.
IInv ==
    /\ TypeOK
    /\ LockDiscipline
    /\ StateMatchesSocket
    /\ FreshIsQuiet
    /\ LossIsLate
    /\ BranchStaysValid

Pending(a) == owed[a] > 0 \/ \E i \in 1..Len(rx) : rx[i].type = a

\* The client counts the broker response timeout against a healthy connection
\* only while an answer to a subscribe or an unsubscribe is on its way, as long as
\* it could read every publication to its end: the flag never survives the
\* last answer (is_waiting_response).
NoPhantomWait ==
    /\ framed
    /\ state = "MQTT_CONNECTED"
    /\ owner = NoThread
    /\ sock = "up"
    /\ is_waiting_response
    => Pending("SUBACK") \/ Pending("UNSUBACK")

\* Where the application stands, as the callbacks it has had tell it.
Told ==
    CASE Ending \/ pc[Task] = "cb_refused" -> "idle"
      [] ~Ending /\ pc[Task] # "cb_refused"
           /\ state \in {"TCP_CONNECTING", "MQTT_CONNECTING"} -> "connecting"
      [] ~Ending /\ state = "MQTT_CONNECTED" -> "connected"
      [] ~Ending /\ state = "MQTT_DISCONNECTING" -> "closing"
      [] OTHER -> "idle"

Notifications == INSTANCE ClientNotify WITH told <- Told, note <- note

\* The connect and disconnect callbacks keep the promise of ClientNotify.
NotifiesAsPromised == Notifications!Spec

\* The application is given no data once it has disconnected, although the task
\* may have been told of data before (mqtt_client_task, lines 790-831).
DataWhileConnected ==
    [][pc[Task] = "reading" /\ pc'[Task] \in {"cb_publish", "cb_suback"}
         => state = "MQTT_CONNECTED"]_vars

\* The reader waits for bytes that have not come: of a packet, of a misread
\* length, or at an end of file, where none come any more.
ReaderWaits == pc[Task] = "reading" /\ Connected /\ ~CanRead

\* A broker that stays silent after the CONNECT does not hold the client in
\* that state: the response timer ends it, unless the broker has begun a packet
\* or closed the connection and so holds the reader (mqtt_client_task, line 745).
ConnectResolves ==
    \/ <>[]ReaderWaits
    \/ state = "MQTT_CONNECTING" ~> state # "MQTT_CONNECTING"

\* The wait for an answer ends, with the answer or by the broker response timeout
\* (mqtt_client.h, line 145), unless the task reads for ever, packet after packet or
\* in one that stays incomplete, for the timer is only looked at when there is
\* none, or requests that restart the timer never cease (mqtt_client_task,
\* line 872; mqtt_client_subscribe, line 452).
WaitEnds ==
    \/ []<>(pc[Task] = "reading")
    \/ []<>~response_expired
    \/ state = "MQTT_CONNECTED" /\ is_waiting_response
          ~> state # "MQTT_CONNECTED" \/ ~is_waiting_response

\* A connection that was reset is given up, and the application told.
ResetIsNoticed == sock = "reset" /\ state \in Active ~> state = "DISCONNECTED"

\* A disconnection the application asked for completes, whether the task was
\* idle, waiting for data or past its wait when it was asked for.
DisconnectCompletes == state = "MQTT_DISCONNECTING" ~> state = "DISCONNECTED"

\* No operation keeps the mutex, through callbacks, misread packets and resets,
\* but the reader that waits for bytes for ever (socket_stream.c, line 143).
MutexIsReleased ==
    \/ <>[]ReaderWaits
    \/ owner # NoThread ~> owner = NoThread

\* A callback that calls the client, as those of the examples do
\* (lw-mqtt-sub.cpp, line 385), gets an answer.
CallbackMayCall == ~stuck

\* A connection the broker has closed is noticed (mqtt_client.c, line 864).
EndIsNoticed == sock = "eof" /\ state \in Active ~> state = "DISCONNECTED"
===============================================================================
