----------------------------- MODULE ClientNotify -----------------------------
(***************************************************************************)
(* What the connect and disconnect callbacks of a client promise to the    *)
(* application (client/mqtt_client.h, lines 40-57): every connection       *)
(* attempt is answered once, a connection that was announced ends with one *)
(* disconnect callback, and an application that disconnects by itself is   *)
(* told at most that this was expected.                                    *)
(***************************************************************************)
EXTENDS Naturals

VARIABLES
    told,  \* the connection as far as the application has been told
    note   \* the last callback, with a bit that changes at every callback

notifyVars == <<told, note>>

Kinds == {"none", "connect_ok", "connect_fail", "lost", "closed"}

Call(k) == note' = [kind |-> k, bit |-> 1 - note.bit]

Init ==
    /\ told = "idle"
    /\ note = [kind |-> "none", bit |-> 0]

\* mqtt_client_connect succeeds.
Request == told = "idle" /\ told' = "connecting" /\ UNCHANGED note

\* connect(true)
Establish == told = "connecting" /\ told' = "connected" /\ Call("connect_ok")

\* connect(false)
Fail == told = "connecting" /\ told' = "idle" /\ Call("connect_fail")

\* disconnect(false)
Lose == told = "connected" /\ told' = "idle" /\ Call("lost")

\* mqtt_client_disconnect succeeds.
Close == told = "connected" /\ told' = "closing" /\ UNCHANGED note

\* disconnect(true)
Confirm == told = "closing" /\ told' = "idle" /\ Call("closed")

\* The client task ends a disconnection without a callback.
Settle == told = "closing" /\ told' = "idle" /\ UNCHANGED note

Next == Request \/ Establish \/ Fail \/ Lose \/ Close \/ Confirm \/ Settle

Spec == Init /\ [][Next]_notifyVars
===============================================================================
