------------------------------ MODULE MqttSocket ------------------------------
(***************************************************************************)
(* The TCP socket of a client (socket/posix/mqtt_socket_posix.c), read and *)
(* written through stream/socket_stream.c, and the broker at its far end.  *)
(*                                                                         *)
(* The bytes of a packet are one element of rx.  What the client can tell  *)
(* apart is kept: a packet that has not arrived completely, an end of      *)
(* file, a reset connection and a descriptor that is closed; and what the  *)
(* deserializer takes off the stream for a PUBLISH, which may be fewer or  *)
(* more bytes than the packet has.  The client is then no longer in step   *)
(* with the packets: the first element of rx may be half read.             *)
(*                                                                         *)
(* The broker is external.  It answers the CONNECT first, then every       *)
(* request in any order, late or never; it publishes once it has accepted  *)
(* the client; it closes the connection when it likes.                     *)
(***************************************************************************)
EXTENDS Integers, Sequences

CONSTANTS
    RxCap,         \* bound: packets in the receive buffer
    MaxOwed,       \* bound: answers of one type the broker still owes
    ConnackCodes,  \* return codes the broker gives in a CONNACK, 0 accepts
    AckCodes,      \* codes the broker gives in a SUBACK
    Publications,  \* the PUBLISH packets it sends
    PointerSize,   \* sizeof of a pointer
    Faults         \* what may go wrong: "eof", "reset", "partial", "eintr"

Answers == {"CONNACK", "SUBACK", "UNSUBACK", "PINGRESP", "PUBACK"}

\* Of an answer arg is the code, of a PUBLISH the length of its topic; qos and
\* size, the bytes of the payload, are only used of a PUBLISH.
Packets == [type: Answers \cup {"PUBLISH"}, arg: Nat, qos: 0..2, size: Nat]

Answer(a, code) == [type |-> a, arg |-> code, qos |-> 0, size |-> 0]

(***************************************************************************)
(* What mqtt_packet_deserialize_publish takes off the stream.              *)
(***************************************************************************)

\* The bytes after the topic: the packet id, if there is one, and the payload.
AfterTopic(p) == (IF p.qos = 0 THEN 0 ELSE 2) + p.size

RemainingLength(p) == 2 + p.arg + AfterTopic(p)

\* Of two bytes the first is taken for the most significant.
DecodedLength(n) == IF n < 128 THEN n ELSE 128 * (n % 128) + n \div 128

\* What the length leaves for the bytes after the topic.  The subtraction wraps
\* where this is negative, and no stream has that many bytes.
LeftAfterTopic(p) == DecodedLength(RemainingLength(p)) - 2 - p.arg

\* The packet id is read when more than the size of a pointer is left, and
\* counts as that many bytes.
TakenAfterTopic(p) ==
    IF p.qos > 0 /\ LeftAfterTopic(p) > PointerSize
    THEN LeftAfterTopic(p) - PointerSize + 2
    ELSE LeftAfterTopic(p)

Whole(p) == TakenAfterTopic(p) = AfterTopic(p)
Overlong(p) == p.type = "PUBLISH" /\ TakenAfterTopic(p) > AfterTopic(p)

\* The topics and payloads of the client have room for 512 and 1024 bytes, so
\* that a length of two bytes is enough.
ASSUME SocketAssumption ==
    /\ RxCap \in Nat
    /\ MaxOwed \in Nat
    /\ ConnackCodes \subseteq Nat
    /\ AckCodes \subseteq Nat
    /\ Publications \subseteq {p \in Packets : p.type = "PUBLISH"}
    /\ \A p \in Publications : RemainingLength(p) < 128 * 128
    /\ PointerSize \in {4, 8}
    /\ Faults \subseteq {"eof", "reset", "partial", "eintr"}

VARIABLES
    sock,     \* the descriptor and the connection behind it
    rx,       \* packets received and not yet read
    partial,  \* bytes that reading the last packet of rx takes are missing
    framed,   \* every packet of this connection was read to its end
    served,   \* the broker has sent a CONNACK that accepts the client
    owed      \* answers the broker owes, by packet type

linkVars == <<sock, rx, partial, framed, served, owed>>

NoneOwed == [a \in Answers |-> 0]

Arguments(a) ==
    CASE a = "CONNACK" -> ConnackCodes
      [] a = "SUBACK"  -> AckCodes
      [] OTHER         -> {0}

LinkTypeOK ==
    /\ sock \in {"closed", "fresh", "up", "eof", "reset"}
    /\ rx \in Seq(Packets)
    /\ partial \in BOOLEAN
    /\ framed \in BOOLEAN
    /\ served \in BOOLEAN
    /\ owed \in [Answers -> 0..MaxOwed]

Connected == sock \in {"up", "eof"}

Emptied ==
    /\ rx' = <<>>
    /\ partial' = FALSE
    /\ framed' = TRUE
    /\ served' = FALSE
    /\ owed' = NoneOwed

LinkInit ==
    /\ sock = "closed"
    /\ rx = <<>>
    /\ partial = FALSE
    /\ framed = TRUE
    /\ served = FALSE
    /\ owed = NoneOwed

(***************************************************************************)
(* The calls of the client.                                                *)
(***************************************************************************)

\* The descriptor of an earlier socket, if any, is forgotten.
OpenSocket(opened) ==
    /\ sock' = IF opened THEN "fresh" ELSE "closed"
    /\ Emptied

\* A socket connects once: the kernel refuses one that has been connected.
ConnectSocket ==
    /\ sock = "fresh"
    /\ sock' = "up"
    /\ UNCHANGED <<rx, partial, framed, served, owed>>

\* shutdown fails on a connection that is not there any more; close is then
\* never called, and the descriptor stays open with what it had received.
CloseSocket ==
    IF Connected
    THEN sock' = "closed" /\ Emptied
    ELSE UNCHANGED linkVars

\* A packet leaves the client; the broker owes the answer a if it is there.
Transmit(a) ==
    /\ Connected
    /\ owed' = IF sock = "up" /\ owed[a] < MaxOwed
               THEN [owed EXCEPT ![a] = @ + 1] ELSE owed
    /\ UNCHANGED <<sock, rx, partial, framed, served>>

\* A packet that wants no answer.
TransmitOnly == Connected /\ UNCHANGED linkVars

Readable == rx # <<>> \/ sock \in {"eof", "reset"}

\* Out of step, all of a packet that has arrived may have been read.
MayBeRead == ~framed /\ partial /\ Len(rx) = 1 /\ sock = "up"

\* What select may report.  A descriptor another thread closes during the
\* call is reported readable, one closed before it is an error.
SelectResults ==
    (IF Readable \/ sock = "closed" THEN {"ready"} ELSE {"timeout"})
      \cup (IF MayBeRead THEN {"timeout"} ELSE {})
      \cup (IF sock = "closed" \/ "eintr" \in Faults THEN {"failed"} ELSE {})

\* The client is in step and the next packet is there.
Arrived == framed /\ rx # <<>> /\ ~(partial /\ Len(rx) = 1)

\* The reader loops until it has every byte it was asked for, so it returns
\* with a whole packet or with the error of recv.  An end of file is neither:
\* recv returns 0, a success, and the loop goes on.
CanRead == Arrived /\ ~Overlong(Head(rx))

\* Faulty: the error of recv on a reset connection goes unseen.
ReadFailsOnClosed == ~CanRead /\ sock = "closed"

ReadFails == ~CanRead /\ sock \in {"closed", "reset"}

Consume ==
    /\ CanRead
    /\ rx' = Tail(rx)
    /\ UNCHANGED <<sock, partial, framed, served, owed>>

\* The end of a packet stays in the stream, and may not even have come.
ConsumePart ==
    /\ CanRead
    /\ framed' = FALSE
    /\ \/ UNCHANGED partial
       \/ "partial" \in Faults /\ Len(rx) = 1 /\ partial' = TRUE
    /\ UNCHANGED <<sock, rx, served, owed>>

\* The packets before the k-th are taken, and of that one a part or nothing; a
\* packet that has not come completely cannot be taken completely.
TakeUpTo(k) ==
    /\ k \in 1..Len(rx) + 1
    /\ partial => k <= Len(rx)
    /\ framed' = FALSE
    /\ rx' = SubSeq(rx, k, Len(rx))
    /\ UNCHANGED <<sock, partial, served, owed>>

(***************************************************************************)
(* The broker and the network.                                             *)
(***************************************************************************)

Arrives(p) ==
    /\ sock = "up"
    /\ ~partial
    /\ Len(rx) < RxCap
    /\ rx' = Append(rx, p)
    /\ partial' \in BOOLEAN
    /\ partial' => "partial" \in Faults
    /\ UNCHANGED <<sock, framed>>

BrokerAnswers ==
    \E a \in Answers : \E c \in Arguments(a) :
        /\ owed[a] > 0
        /\ a # "CONNACK" => served
        /\ Arrives(Answer(a, c))
        /\ owed' = [owed EXCEPT ![a] = @ - 1]
        /\ served' = (served \/ (a = "CONNACK" /\ c = 0))

BrokerPublishes ==
    \E p \in Publications :
        /\ served
        /\ Arrives(p)
        /\ UNCHANGED <<owed, served>>

BrokerCompletes ==
    /\ sock = "up"
    /\ partial
    /\ partial' = FALSE
    /\ UNCHANGED <<sock, rx, framed, served, owed>>

BrokerCloses ==
    /\ "eof" \in Faults
    /\ sock = "up"
    /\ sock' = "eof"
    /\ served' = FALSE
    /\ owed' = NoneOwed
    /\ UNCHANGED <<rx, partial, framed>>

\* What has been received before a reset can still be read on some systems.
NetworkResets ==
    /\ "reset" \in Faults
    /\ Connected
    /\ sock' = "reset"
    /\ served' = FALSE
    /\ owed' = NoneOwed
    /\ UNCHANGED framed
    /\ \/ UNCHANGED <<rx, partial>>
       \/ rx' = <<>> /\ partial' = FALSE

Environment ==
    \/ BrokerAnswers
    \/ BrokerPublishes
    \/ BrokerCompletes
    \/ BrokerCloses
    \/ NetworkResets
===============================================================================
