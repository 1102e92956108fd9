--------------------------- MODULE ClientTimersProofs ---------------------------
(***************************************************************************)
(* The client uses its two timers as MqttTimer allows, so what is proved   *)
(* of a timer holds for both; and the client pings, and gives up, on time. *)
(***************************************************************************)
EXTENDS ClientTimers, MqttTimerProofs

ResponseProofs == INSTANCE MqttTimerProofs WITH
    start_time <- response_start,
    expiration_time <- response_expiration,
    auto_restart <- response_restarts,
    has_expired <- response_has_expired,
    timeout <- response_timeout,
    elapsed <- response_elapsed

\* Every step of the client is a step of its keepalive timer, or none.
LEMMA KeepaliveTimerStep == [TimersNext]_timersVars => [Next]_vars
<1> SUFFICES ASSUME [TimersNext]_timersVars PROVE [Next]_vars
  OBVIOUS
<1> USE DEF vars, keepaliveTimer
<1>1. CASE MqttClientInit
  BY <1>1 DEF MqttClientInit, Next
<1>2. CASE SetTimeouts
  BY <1>2 DEF SetTimeouts
<1>3. CASE SendConnect
  BY <1>3 DEF SendConnect, Next
<1>4. CASE ReceiveAnswer
  BY <1>4 DEF ReceiveAnswer
<1>5. CASE Request
  BY <1>5 DEF Request, Next
<1>6. CASE Publish
  BY <1>6 DEF Publish, Next
<1>7. CASE TaskChecksKeepalive
  BY <1>7 DEF TaskChecksKeepalive, Next
<1>8. CASE TaskChecksResponse
  BY <1>8 DEF TaskChecksResponse, Response!MqttTimerHasExpired
<1>9. CASE LoseConnection
  BY <1>9 DEF LoseConnection
<1>10. CASE TimePasses
  BY <1>10 DEF TimePasses, Next
<1>11. CASE UNCHANGED timersVars
  BY <1>11 DEF timersVars
<1> QED
  BY <1>1, <1>2, <1>3, <1>4, <1>5, <1>6, <1>7, <1>8, <1>9, <1>10, <1>11
     DEF TimersNext

\* Every step of the client is a step of its response timer, or none.
LEMMA ResponseTimerStep == [TimersNext]_timersVars => [Response!Next]_(Response!vars)
<1> SUFFICES ASSUME [TimersNext]_timersVars PROVE [Response!Next]_(Response!vars)
  OBVIOUS
<1> USE DEF Response!vars, responseTimer
<1>1. CASE MqttClientInit
  BY <1>1 DEF MqttClientInit, Response!Next
<1>2. CASE SetTimeouts
  BY <1>2 DEF SetTimeouts
<1>3. CASE SendConnect
  BY <1>3 DEF SendConnect, Response!Next
<1>4. CASE ReceiveAnswer
  BY <1>4 DEF ReceiveAnswer
<1>5. CASE Request
  BY <1>5 DEF Request, Response!Next
<1>6. CASE Publish
  BY <1>6 DEF Publish, MqttTimerReset
<1>7. CASE TaskChecksKeepalive
  BY <1>7 DEF TaskChecksKeepalive, MqttTimerHasExpired
<1>8. CASE TaskChecksResponse
  BY <1>8 DEF TaskChecksResponse, Response!Next
<1>9. CASE LoseConnection
  BY <1>9 DEF LoseConnection
<1>10. CASE TimePasses
  BY <1>10 DEF TimePasses, Response!Next
<1>11. CASE UNCHANGED timersVars
  BY <1>11 DEF timersVars
<1> QED
  BY <1>1, <1>2, <1>3, <1>4, <1>5, <1>6, <1>7, <1>8, <1>9, <1>10, <1>11
     DEF TimersNext

\* The client implements the specification of a timer twice, with its keepalive
\* timer and with its broker response timer (mqtt_client.c, every call of
\* mqtt_timer_start, mqtt_timer_reset and mqtt_timer_has_expired).
THEOREM ClientUsesTimers == TimersSpec => Spec /\ Response!Spec
<1>1. TimersInit => Init /\ Response!Init
  BY DEF TimersInit
<1> QED
  BY <1>1, KeepaliveTimerStep, ResponseTimerStep, PTL
     DEF TimersSpec, Spec, Response!Spec

(***************************************************************************)
(* The invariants that join the timers to the connection.                  *)
(***************************************************************************)

\* The keepalive timer counts the silence of the client, lasts as long as
\* CONNECT has told the broker, and restarts by itself.
KeepaliveCounts ==
    state # "DISCONNECTED" =>
        /\ silence = elapsed
        /\ timeout = told * Second
        /\ auto_restart

\* The response timer counts the time since the latest request.
ResponseCounts ==
    state # "DISCONNECTED" => unanswered = response_elapsed

LEMMA CountsInit == TimersInit => KeepaliveCounts /\ ResponseCounts
BY DEF TimersInit, KeepaliveCounts, ResponseCounts

LEMMA KeepaliveCountsStep ==
    KeepaliveCounts /\ [TimersNext]_timersVars => KeepaliveCounts'
<1> SUFFICES ASSUME KeepaliveCounts, [TimersNext]_timersVars PROVE KeepaliveCounts'
  OBVIOUS
<1> USE DEF KeepaliveCounts, clientState, keepaliveTimer
<1>1. CASE MqttClientInit
  BY <1>1 DEF MqttClientInit
<1>2. CASE SetTimeouts
  BY <1>2 DEF SetTimeouts
<1>3. CASE SendConnect
  BY <1>3 DEF SendConnect, MqttTimerStart
<1>4. CASE ReceiveAnswer
  BY <1>4 DEF ReceiveAnswer
<1>5. CASE Request
  BY <1>5 DEF Request, MqttTimerReset, Restarts
<1>6. CASE Publish
  BY <1>6 DEF Publish, MqttTimerReset, Restarts
<1>7. CASE TaskChecksKeepalive
  <2>1. auto_restart /\ UNCHANGED <<state, told, timeout, auto_restart>>
    BY <1>7 DEF TaskChecksKeepalive, MqttTimerHasExpired
  <2>2. CASE has_expired'
    BY <1>7, <2>1, <2>2 DEF TaskChecksKeepalive, MqttTimerHasExpired, Restarts
  <2>3. CASE ~has_expired'
    BY <1>7, <2>1, <2>3 DEF TaskChecksKeepalive, MqttTimerHasExpired
  <2> QED
    BY <2>2, <2>3
<1>8. CASE TaskChecksResponse
  BY <1>8 DEF TaskChecksResponse
<1>9. CASE LoseConnection
  BY <1>9 DEF LoseConnection
<1>10. CASE TimePasses
  BY <1>10 DEF TimePasses, Tick
<1>11. CASE UNCHANGED timersVars
  BY <1>11 DEF timersVars
<1> QED
  BY <1>1, <1>2, <1>3, <1>4, <1>5, <1>6, <1>7, <1>8, <1>9, <1>10, <1>11
     DEF TimersNext

LEMMA ResponseCountsStep ==
    ResponseCounts /\ [TimersNext]_timersVars => ResponseCounts'
<1> SUFFICES ASSUME ResponseCounts, [TimersNext]_timersVars PROVE ResponseCounts'
  OBVIOUS
<1> USE DEF ResponseCounts, clientState, responseTimer
<1>1. CASE MqttClientInit
  BY <1>1 DEF MqttClientInit
<1>2. CASE SetTimeouts
  BY <1>2 DEF SetTimeouts
<1>3. CASE SendConnect
  BY <1>3 DEF SendConnect, Response!MqttTimerStart
<1>4. CASE ReceiveAnswer
  BY <1>4 DEF ReceiveAnswer
<1>5. CASE Request
  BY <1>5 DEF Request, Response!MqttTimerReset, Response!Restarts
<1>6. CASE Publish
  BY <1>6 DEF Publish
<1>7. CASE TaskChecksKeepalive
  BY <1>7 DEF TaskChecksKeepalive
<1>8. CASE TaskChecksResponse
  BY <1>8 DEF TaskChecksResponse, Response!MqttTimerHasExpired
<1>9. CASE LoseConnection
  BY <1>9 DEF LoseConnection
<1>10. CASE TimePasses
  BY <1>10 DEF TimePasses, Response!Tick
<1>11. CASE UNCHANGED timersVars
  BY <1>11 DEF timersVars
<1> QED
  BY <1>1, <1>2, <1>3, <1>4, <1>5, <1>6, <1>7, <1>8, <1>9, <1>10, <1>11
     DEF TimersNext

\* A check of the task pings when the keepalive told to the broker has
\* passed in silence, and only then, until a time wraps.
THEOREM ClientPingsOnTime == TimersSpec => PingsOnTime
<1>1. ASSUME IInv, KeepaliveCounts, TaskChecksKeepalive, NoWrap, keepalive = told
      PROVE  silence' = 0 <=> silence = 0 \/ silence >= told * Second
  <2>1. has_expired' <=> elapsed >= timeout
    BY <1>1, PollIsExact DEF TaskChecksKeepalive
  <2>2. silence = elapsed /\ timeout = told * Second
    BY <1>1 DEF KeepaliveCounts, TaskChecksKeepalive
  <2>3. silence' = IF has_expired' THEN 0 ELSE silence
    BY <1>1 DEF TaskChecksKeepalive
  <2> QED
    BY <2>1, <2>2, <2>3
<1>2. TimersInit => IInv /\ KeepaliveCounts
  BY TimerInit, CountsInit DEF TimersInit
<1>3. IInv /\ KeepaliveCounts /\ [TimersNext]_timersVars => (IInv /\ KeepaliveCounts)'
  BY KeepaliveTimerStep, TimerStep, KeepaliveCountsStep
<1>4. IInv /\ KeepaliveCounts /\ [TimersNext]_timersVars
        => [TaskChecksKeepalive /\ NoWrap /\ keepalive = told
              => (silence' = 0 <=> silence = 0 \/ silence >= told * Second)]_timersVars
  BY <1>1
<1> QED
  BY <1>2, <1>3, <1>4, PTL DEF TimersSpec, PingsOnTime

\* The proofs about timers speak of the response timer too.
LEMMA SameTimer ==
    /\ Response!Init <=> ResponseProofs!Init
    /\ [Response!Next]_(Response!vars) <=> [ResponseProofs!Next]_(ResponseProofs!vars)
    /\ Response!MqttTimerHasExpired <=> ResponseProofs!MqttTimerHasExpired
    /\ Response!NoWrap <=> ResponseProofs!NoWrap
<1> USE DEF Response!Plus, ResponseProofs!Plus, Response!Minus, ResponseProofs!Minus,
            Response!Restarts, ResponseProofs!Restarts,
            Response!ReachedExpiration, ResponseProofs!ReachedExpiration,
            Response!MqttTimerHasExpired, ResponseProofs!MqttTimerHasExpired
<1>1. Response!Init <=> ResponseProofs!Init
  BY DEF Response!Init, ResponseProofs!Init, Response!Times, ResponseProofs!Times
<1>2. [Response!Next]_(Response!vars) <=> [ResponseProofs!Next]_(ResponseProofs!vars)
  BY DEF Response!Next, ResponseProofs!Next, Response!vars, ResponseProofs!vars,
         Response!Clear, ResponseProofs!Clear,
         Response!MqttTimerStart, ResponseProofs!MqttTimerStart,
         Response!MqttTimerReset, ResponseProofs!MqttTimerReset,
         Response!Tick, ResponseProofs!Tick
<1>3. Response!MqttTimerHasExpired <=> ResponseProofs!MqttTimerHasExpired
  OBVIOUS
<1>4. Response!NoWrap <=> ResponseProofs!NoWrap
  BY DEF Response!NoWrap, ResponseProofs!NoWrap
<1> QED
  BY <1>1, <1>2, <1>3, <1>4

\* The settings and the state of the client, apart from its timers.
ClientFieldsOK ==
    /\ state \in {"DISCONNECTED", "MQTT_CONNECTING", "MQTT_CONNECTED"}
    /\ is_waiting_response \in BOOLEAN
    /\ {keepalive, told} \subseteq Keepalives \cup {0}
    /\ broker_response_timeout \in ResponseTimeouts \cup {0}
    /\ {silence, unanswered} \subseteq Nat

LEMMA ClientFieldsStep ==
    ClientFieldsOK /\ [TimersNext]_timersVars => ClientFieldsOK'
<1> SUFFICES ASSUME ClientFieldsOK, [TimersNext]_timersVars PROVE ClientFieldsOK'
  OBVIOUS
<1> USE DEF ClientFieldsOK, clientState, settings
<1>1. CASE MqttClientInit
  BY <1>1 DEF MqttClientInit
<1>2. CASE SetTimeouts
  BY <1>2 DEF SetTimeouts
<1>3. CASE SendConnect
  BY <1>3 DEF SendConnect
<1>4. CASE ReceiveAnswer
  BY <1>4 DEF ReceiveAnswer
<1>5. CASE Request \/ Publish
  <2>1. CASE Request
    BY <2>1 DEF Request
  <2>2. CASE Publish
    BY <2>2 DEF Publish
  <2> QED
    BY <1>5, <2>1, <2>2
<1>6. CASE TaskChecksKeepalive
  BY <1>6 DEF TaskChecksKeepalive
<1>7. CASE TaskChecksResponse
  BY <1>7 DEF TaskChecksResponse
<1>8. CASE LoseConnection
  BY <1>8 DEF LoseConnection
<1>9. CASE TimePasses
  BY <1>9 DEF TimePasses
<1>10. CASE UNCHANGED timersVars
  BY <1>10 DEF timersVars
<1> QED
  BY <1>1, <1>2, <1>3, <1>4, <1>5, <1>6, <1>7, <1>8, <1>9, <1>10 DEF TimersNext

\* The client keeps its types, and those of both timers.
THEOREM ClientTimersTypeCorrect == TimersSpec => []TimersTypeOK
<1> DEFINE Inv == IInv /\ ResponseProofs!IInv /\ ClientFieldsOK
<1>1. TimersInit => Inv
  <2>1. ASSUME TimersInit PROVE ClientFieldsOK
    <3>1. state = "DISCONNECTED" /\ is_waiting_response = FALSE
      BY <2>1, Zenon DEF TimersInit
    <3>2. /\ {keepalive, told} \subseteq Keepalives \cup {0}
          /\ broker_response_timeout \in ResponseTimeouts \cup {0}
          /\ {silence, unanswered} \subseteq Nat
      BY <2>1 DEF TimersInit
    <3> QED
      BY <3>1, <3>2 DEF ClientFieldsOK
  <2> QED
    BY <2>1, TimerInit, SameTimer, ResponseProofs!TimerInit, TimerAssumption
       DEF TimersInit
<1>2. Inv /\ [TimersNext]_timersVars => Inv'
  BY KeepaliveTimerStep, TimerStep, SameTimer, ResponseTimerStep,
     ResponseProofs!TimerStep, TimerAssumption, ClientFieldsStep
<1>3. Inv => TimersTypeOK
  BY DEF IInv, ResponseProofs!IInv, TypeOK, ResponseProofs!TypeOK, Response!TypeOK,
         Times, Response!Times, ResponseProofs!Times, ClientFieldsOK, TimersTypeOK
<1> QED
  BY <1>1, <1>2, <1>3, PTL DEF TimersSpec

\* A check of the task that waits for an answer gives up when the latest
\* request is as old as the timeout, and not before, until a time wraps.
THEOREM ClientGivesUpOnTime == TimersSpec => GivesUpOnTime
<1> DEFINE Inv == ResponseProofs!IInv /\ ResponseCounts
<1>1. ASSUME Inv, TaskChecksResponse, Response!NoWrap
      PROVE  state' = "DISCONNECTED" <=> unanswered >= response_timeout
  <2>1. response_has_expired' <=> response_elapsed >= response_timeout
    BY <1>1, SameTimer, ResponseProofs!PollIsExact, TimerAssumption
       DEF TaskChecksResponse
  <2>2. unanswered = response_elapsed /\ state # "DISCONNECTED"
    BY <1>1 DEF ResponseCounts, TaskChecksResponse
  <2>3. state' = IF response_has_expired' THEN "DISCONNECTED" ELSE state
    BY <1>1 DEF TaskChecksResponse
  <2> QED
    BY <2>1, <2>2, <2>3
<1>2. TimersInit => Inv
  BY SameTimer, ResponseProofs!TimerInit, TimerAssumption, CountsInit DEF TimersInit
<1>3. Inv /\ [TimersNext]_timersVars => Inv'
  BY SameTimer, ResponseTimerStep, ResponseProofs!TimerStep, TimerAssumption,
     ResponseCountsStep
<1>4. Inv /\ [TimersNext]_timersVars
        => [TaskChecksResponse /\ Response!NoWrap
              => (state' = "DISCONNECTED" <=> unanswered >= response_timeout)]_timersVars
  BY <1>1
<1> QED
  BY <1>2, <1>3, <1>4, PTL DEF TimersSpec, GivesUpOnTime
===============================================================================
