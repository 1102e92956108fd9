----------------------------- MODULE MCMqttClient -----------------------------
(***************************************************************************)
(* Instances of MqttClient for TLC: the topics, codes and calls of callbacks*)
(* that the configurations choose from.                                    *)
(***************************************************************************)
EXTENDS MqttClient

Publication(topic, qos, size) ==
    [type |-> "PUBLISH", arg |-> topic, qos |-> qos, size |-> size]

ShortMessage == {Publication(1, 0, 3)}

\* One with a packet id, of which six bytes stay in the stream.
AcknowledgedMessage == {Publication(1, 1, 10)}

\* Messages that are read to their end, and one of 128 bytes, which is taken for 1
\* and refused.
UnderstoodMessages ==
    ShortMessage \cup {Publication(2, 0, 3), Publication(1, 0, 125)}

\* One that is read to its end, and two that are not: that of 130 bytes is taken
\* for 257.
MisreadMessages == ShortMessage \cup AcknowledgedMessage \cup {Publication(1, 0, 127)}

\* Callbacks that leave the client alone.
QuietCallbacks == [c \in Callbacks |-> {}]

\* The callbacks of examples/lw-mqtt-sub: all but one read the user data, two
\* subscribe to the next topic.
SubscriberCallbacks ==
    [c \in Callbacks |->
        CASE c \in {"connect", "subscribe"} -> {"touch", "subscribe"}
          [] c = "disconnect" -> {"touch"}
          [] OTHER -> {}]

\* Callbacks that publish and disconnect, and try again when told of the end.
EagerCallbacks ==
    [c \in Callbacks |-> {"publish", "subscribe", "disconnect", "connect"}]
===============================================================================
