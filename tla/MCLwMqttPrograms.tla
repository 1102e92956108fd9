--------------------------- MODULE MCLwMqttPrograms ---------------------------
(***************************************************************************)
(* Instances of LwMqttPrograms for TLC.                                    *)
(***************************************************************************)
EXTENDS LwMqttPrograms

\* A message that is read to its end, one of which six bytes stay in the stream,
\* and one that is taken for longer than it is.
Messages ==
    {[type |-> "PUBLISH", arg |-> 1, qos |-> 0, size |-> n] : n \in {3, 127}}
    \cup {[type |-> "PUBLISH", arg |-> 1, qos |-> 1, size |-> 10]}

\* What the callbacks of the two programs call.
ProgramCallbacks ==
    [c \in Callbacks |->
        CASE c = "connect" -> {"touch", "subscribe", "publish", "disconnect"}
          [] c = "subscribe" -> {"touch", "subscribe"}
          [] c = "disconnect" -> {"touch"}
          [] OTHER -> {}]
===============================================================================
