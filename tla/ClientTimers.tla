------------------------------ MODULE ClientTimers ------------------------------
(***************************************************************************)
(* What the client does with its two timers (client/mqtt_client.c).        *)
(*                                                                         *)
(* The keepalive timer is the one of MqttTimer; the broker response timer  *)
(* is a second one, on the same clock.  CONNECT starts both, with periods  *)
(* that the application may change afterwards without the timers knowing.  *)
(* What MqttClient leaves open, when a timer expires, is decided here;     *)
(* what MqttClient decides, the mutex, the socket and the callbacks, is    *)
(* left open.                                                              *)
(***************************************************************************)
EXTENDS MqttTimer

CONSTANTS
    Second,            \* time units of a second, 1000 in the code
    Keepalives,        \* keepalive periods in seconds, 0 for none
    ResponseTimeouts   \* broker response timeouts

ASSUME ClientTimersAssumption ==
    /\ Second \in Nat \ {0}
    /\ Keepalives \subseteq Nat
    /\ \A k \in Keepalives \cup {0} : k * Second \in Timeouts
    /\ ResponseTimeouts \cup {0} \subseteq Timeouts

VARIABLES
    response_start,           \* the fields of broker_response_timer
    response_expiration,
    response_restarts,
    response_has_expired,
    response_timeout,         \* what it was started with
    response_elapsed,
    state,                    \* mqtt_client_t.state
    is_waiting_response,      \* mqtt_client_t.is_waiting_response
    keepalive,                \* mqtt_client_t.keepalive
    broker_response_timeout,  \* mqtt_client_t.broker_response_timeout
    told,                     \* the keepalive that CONNECT told the broker
    silence,                  \* time since the client sent a packet
    unanswered                \* time since it sent one that it waits for the answer of

keepaliveTimer == <<start_time, expiration_time, auto_restart, has_expired,
                    timeout, elapsed>>
responseTimer == <<response_start, response_expiration, response_restarts,
                   response_has_expired, response_timeout, response_elapsed>>
settings == <<keepalive, broker_response_timeout>>
clientState == <<state, is_waiting_response, told>>
timersVars == <<clock, keepaliveTimer, responseTimer, settings, clientState,
                silence, unanswered>>

Response == INSTANCE MqttTimer WITH
    start_time <- response_start,
    expiration_time <- response_expiration,
    auto_restart <- response_restarts,
    has_expired <- response_has_expired,
    timeout <- response_timeout,
    elapsed <- response_elapsed

\* Zeroed, as memset leaves a timer.
TimersInit ==
    /\ Init
    /\ Response!Init
    /\ state = "DISCONNECTED"
    /\ is_waiting_response = FALSE
    /\ keepalive = 0
    /\ broker_response_timeout = 0
    /\ told = 0
    /\ silence = 0
    /\ unanswered = 0

\* memset, again: a socket connects once, so another connection begins with it.
MqttClientInit ==
    /\ state = "DISCONNECTED"
    /\ UNCHANGED <<state, told, silence, unanswered>>
    /\ Clear
    /\ Response!Clear
    /\ is_waiting_response' = FALSE
    /\ keepalive' = 0
    /\ broker_response_timeout' = 0

\* The timers of the running connection keep the periods they have.
SetTimeouts ==
    /\ \/ keepalive' \in Keepalives /\ UNCHANGED broker_response_timeout
       \/ broker_response_timeout' \in ResponseTimeouts /\ UNCHANGED keepalive
    /\ UNCHANGED <<clock, keepaliveTimer, responseTimer, clientState, silence,
                   unanswered>>

\* CONNECT tells the broker the keepalive the timer is started with.
SendConnect ==
    /\ state = "DISCONNECTED"
    /\ state' = "MQTT_CONNECTING"
    /\ told' = keepalive
    /\ MqttTimerStart /\ timeout' = keepalive * Second /\ auto_restart'
    /\ Response!MqttTimerStart
    /\ response_timeout' = broker_response_timeout /\ ~response_restarts'
    /\ silence' = 0
    /\ unanswered' = 0
    /\ UNCHANGED <<is_waiting_response, settings>>

ReceiveAnswer ==
    /\ \/ state = "MQTT_CONNECTING" /\ state' = "MQTT_CONNECTED"
       \/ state = "MQTT_CONNECTED" /\ UNCHANGED state
    /\ is_waiting_response' = FALSE
    /\ UNCHANGED <<clock, keepaliveTimer, responseTimer, settings, told, silence,
                   unanswered>>

\* Faulty: the response timer runs on from the request before.
RequestUntimed ==
    /\ state = "MQTT_CONNECTED"
    /\ MqttTimerReset
    /\ is_waiting_response' = TRUE
    /\ silence' = 0
    /\ unanswered' = 0
    /\ UNCHANGED <<state, told, settings, responseTimer>>

\* subscribe and unsubscribe
Request ==
    /\ state = "MQTT_CONNECTED"
    /\ MqttTimerReset
    /\ Response!MqttTimerReset
    /\ is_waiting_response' = TRUE
    /\ silence' = 0
    /\ unanswered' = 0
    /\ UNCHANGED <<state, told, settings>>

\* Faulty: a PUBLISH does not put off the next PINGREQ.
PublishUntimed ==
    /\ state = "MQTT_CONNECTED"
    /\ silence' = 0
    /\ UNCHANGED <<clock, keepaliveTimer, responseTimer, clientState, settings,
                   unanswered>>

Publish ==
    /\ state = "MQTT_CONNECTED"
    /\ MqttTimerReset
    /\ silence' = 0
    /\ UNCHANGED <<responseTimer, clientState, settings, unanswered>>

\* PINGREQ leaves with the expiration that restarts the timer.
TaskChecksKeepalive ==
    /\ state = "MQTT_CONNECTED"
    /\ keepalive # 0
    /\ MqttTimerHasExpired
    /\ silence' = IF has_expired' THEN 0 ELSE silence
    /\ UNCHANGED <<responseTimer, clientState, settings, unanswered>>

\* The task has received nothing while it waits for an answer.
TaskChecksResponse ==
    /\ state = "MQTT_CONNECTING" \/ (state = "MQTT_CONNECTED" /\ is_waiting_response)
    /\ Response!MqttTimerHasExpired
    /\ state' = IF response_has_expired' THEN "DISCONNECTED" ELSE state
    /\ UNCHANGED <<keepaliveTimer, is_waiting_response, told, settings, silence,
                   unanswered>>

\* The connection ends for another reason.
LoseConnection ==
    /\ state # "DISCONNECTED"
    /\ state' = "DISCONNECTED"
    /\ UNCHANGED <<clock, keepaliveTimer, responseTimer, is_waiting_response,
                   told, settings, silence, unanswered>>

TimePasses ==
    /\ state # "DISCONNECTED"
    /\ Tick
    /\ Response!Tick
    /\ silence' = silence + 1
    /\ unanswered' = unanswered + 1
    /\ UNCHANGED <<clientState, settings>>

TimersNext ==
    \/ MqttClientInit
    \/ SetTimeouts
    \/ SendConnect
    \/ ReceiveAnswer
    \/ Request
    \/ Publish
    \/ TaskChecksKeepalive
    \/ TaskChecksResponse
    \/ LoseConnection
    \/ TimePasses

TimersSpec == TimersInit /\ [][TimersNext]_timersVars

(***************************************************************************)
(* Properties.                                                             *)
(***************************************************************************)

\* The state of the client keeps its types, those of the timers as well.
TimersTypeOK ==
    /\ TypeOK /\ Response!TypeOK
    /\ state \in {"DISCONNECTED", "MQTT_CONNECTING", "MQTT_CONNECTED"}
    /\ is_waiting_response \in BOOLEAN
    /\ {keepalive, told} \subseteq Keepalives \cup {0}
    /\ broker_response_timeout \in ResponseTimeouts \cup {0}
    /\ {silence, unanswered} \subseteq Nat

\* While the keepalive is the one the broker was told, a check of the task sends
\* a PINGREQ exactly when the client has been silent for that long, until a time
\* wraps: the broker does not miss the client, and is not flooded, whatever other
\* packets were sent and whatever the keepalive was in between
\* (mqtt_client_task, lines 770-779).
PingsOnTime ==
    [][TaskChecksKeepalive /\ keepalive = told /\ NoWrap
         => (silence' = 0 <=> silence = 0 \/ silence >= told * Second)]_timersVars

\* A check of the task that waits for an answer gives up exactly when the
\* latest request is as old as the timeout of its connection, until a time wraps
\* (mqtt_client_task, lines 739-746 and 872-881).
GivesUpOnTime ==
    [][TaskChecksResponse /\ Response!NoWrap
         => (state' = "DISCONNECTED" <=> unanswered >= response_timeout)]_timersVars
===============================================================================
