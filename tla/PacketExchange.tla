---------------------------- MODULE PacketExchange ----------------------------
(***************************************************************************)
(* Packets that are serialized into a buffer one after the other, handed   *)
(* over, and deserialized from it: PacketCodec over BufferStream, with the *)
(* discipline of the two ends of a connection.                             *)
(*                                                                         *)
(* A serialization that fails leaves a fragment, and the writing end gives *)
(* up what it has, as the client closes the connection.  So does the       *)
(* reading end when a packet is refused.                                   *)
(***************************************************************************)
EXTENDS PacketCodec, BufferStream

CONSTANTS
    Packets,     \* the packets that are sent
    MaxPackets,  \* how many are written before they are handed over
    TopicCap     \* MQTT_CLIENT_MAX_TOPIC_LENGTH

\* Strings have a length of two bytes, ids too.
Text == {s \in Seq(Byte) : Len(s) < 256 * 256}
Word == {n \in Nat : n < 256 * 256}

\* A will that is not there has no QoS, and is not retained.
ConnectPacket ==
    {p \in [type : {"CONNECT"}, client_id : Text,
            will : {w \in Seq(Text) : Len(w) \in {0, 2}}, will_qos : Byte,
            will_retain : BOOLEAN, credentials : {c \in Seq(Text) : Len(c) <= 2},
            clean_session : BOOLEAN, keepalive : Word] :
        p.will = <<>> => p.will_qos = 0 /\ ~p.will_retain}
ConnackPacket == [type : {"CONNACK"}, session_present : BOOLEAN, retcode : Byte]
PublishPacket ==
    [type : {"PUBLISH"}, topic : Text, data : Seq(Byte), qos : Byte,
     retain : BOOLEAN, duplicate : BOOLEAN, packet_id : Word]
SubscribePacket == [type : {"SUBSCRIBE"}, topic : Text, qos : Byte, packet_id : Word]
UnsubscribePacket == [type : {"UNSUBSCRIBE"}, topic : Text, packet_id : Word]
SubackPacket == [type : {"SUBACK"}, qos : Byte, packet_id : Word]
IdOnlyPacket == [type : IdOnlyTypes, packet_id : Word]
EmptyPacket == [type : EmptyTypes]

\* The packets whose length four bytes can say.
Packet ==
    {p \in ConnectPacket \cup ConnackPacket \cup PublishPacket \cup SubscribePacket
          \cup UnsubscribePacket \cup SubackPacket \cup IdOnlyPacket \cup EmptyPacket :
        RemainingLength(p) < Weight[5]}

ASSUME ExchangeAssumption ==
    /\ Packets \subseteq Packet
    /\ MaxPackets \in Nat
    /\ TopicCap \in Nat

VARIABLES
    phase,   \* writing, torn (after a failure), reading
    sent,    \* packets written completely since the last reset
    got,     \* what has been read of them: the values, or the failure
    topic    \* size of the topic string of the reading end

vars == <<streamVars, phase, sent, got, topic>>

TypeOK ==
    /\ StreamTypeOK
    /\ phase \in {"writing", "torn", "reading"}
    /\ sent \in Seq(Packets) /\ Len(sent) <= MaxPackets
    /\ topic \in 0..TopicCap

Init ==
    /\ StreamInit
    /\ phase = "writing"
    /\ sent = <<>>
    /\ got = <<>>
    /\ topic = TopicCap

\* The checks of the parameters; a packet that fails one writes nothing.
Serializable(p) ==
    CASE p.type = "CONNECT" -> /\ p.client_id # <<>>
                               /\ p.will # <<>> => p.will_qos <= 2
                               /\ p.credentials # <<>> => p.credentials[1] # <<>>
      [] p.type \in {"PUBLISH", "SUBSCRIBE"} -> p.qos <= MaxQos
      [] p.type = "SUBACK" -> p.qos <= MaxQos \/ p.qos = FailureQos
      [] OTHER -> TRUE

Serialize(p) ==
    /\ phase = "writing"
    /\ Len(sent) < MaxPackets
    /\ Serializable(p)
    /\ LET stored == Stored(Chunks(p))
       IN  /\ Write(stored.bytes)
           /\ phase' = IF stored.ok THEN "writing" ELSE "torn"
           /\ sent' = IF stored.ok THEN Append(sent, p) ELSE sent
    /\ UNCHANGED <<instream, got, topic>>

HandOver ==
    /\ phase = "writing"
    /\ sent # <<>>
    /\ phase' = "reading"
    /\ ResetInput(outstream.written)
    /\ UNCHANGED <<memory, outstream, sent, got, topic>>

\* There are bytes, and no packet has been refused.
MayRead ==
    /\ phase = "reading"
    /\ Unread # <<>>
    /\ got # <<>> => Last(got).ok

\* One call of the header's deserializer and one of the packet's.
Deserialize ==
    /\ MayRead
    /\ LET result == ReadPacketFrom(Cursor(Unread, topic))
       IN  /\ Read(Len(Unread) - Len(result.left))
           /\ topic' = result.room
           /\ got' = Append(got, [ok |-> result.ok, values |-> result.got])
    /\ UNCHANGED <<memory, outstream, phase, sent>>

\* Both ends begin again, the reading one with nothing to read.
Recycle ==
    /\ \/ phase = "torn"
       \/ phase = "reading" /\ ~MayRead
    /\ phase' = "writing"
    /\ ResetOutput
    /\ ResetInput(0)
    /\ memory' = [i \in DOMAIN memory |-> Stale]
    /\ sent' = <<>>
    /\ got' = <<>>
    /\ UNCHANGED topic

Next ==
    \/ \E p \in Packets : Serialize(p)
    \/ HandOver
    \/ Deserialize
    \/ Recycle

Spec == Init /\ [][Next]_vars

(***************************************************************************)
(* Properties.                                                             *)
(***************************************************************************)

\* The values that the serializer of a packet was given, in the order of the
\* wire and after the header's.
Meaning(p) ==
    <<TypeCode[p.type], HeaderFlags(p), RemainingLength(p)>>
    \o CASE p.type = "CONNECT" ->
               <<ProtocolName, ProtocolLevel,
                 [clean_session |-> p.clean_session,
                  will |-> p.will # <<>>,
                  will_qos |-> p.will_qos,
                  will_retain |-> p.will_retain,
                  username |-> p.credentials # <<>>,
                  password |-> Len(p.credentials) = 2],
                 p.keepalive>> \o ConnectStrings(p)
         [] p.type = "CONNACK" -> <<p.session_present, p.retcode>>
         [] p.type = "PUBLISH" /\ p.qos = 0 -> <<p.topic, p.data>>
         [] p.type = "PUBLISH" /\ p.qos > 0 -> <<p.topic, p.packet_id, p.data>>
         [] p.type = "SUBSCRIBE" -> <<p.packet_id, p.topic, p.qos>>
         [] p.type = "UNSUBSCRIBE" -> <<p.packet_id, p.topic>>
         [] p.type = "SUBACK" -> <<p.packet_id, p.qos>>
         [] p.type \in IdOnlyTypes -> <<p.packet_id>>
         [] p.type \in EmptyTypes -> <<>>

Written(packets) == FlattenSeq([i \in DOMAIN packets |-> Bytes(packets[i])])

AsSent(results) ==
    \A i \in DOMAIN results :
        i <= Len(sent) /\ results[i] = [ok |-> TRUE, values |-> Meaning(sent[i])]

\* The packets that the deserializers are known to read: lengths of one byte, a
\* PUBLISH with QoS 0, other levels below the highest, a will with credentials
\* and with the QoS that the flag which overlaps it spares.
Survives(p) ==
    /\ RemainingLength(p) < 128
    /\ p.type = "PUBLISH" => p.qos = 0
    /\ p.type \in {"SUBSCRIBE", "SUBACK"} => p.qos # MaxQos
    /\ p.type = "CONNECT" =>
          /\ p.will # <<>> => p.credentials # <<>> /\ p.will_qos = 1
          /\ Len(ProtocolName) <= StringCap
          /\ \A i \in DOMAIN ConnectStrings(p) :
                Len(ConnectStrings(p)[i]) <= StringCap

\* The topic string of the reading end has the room that the topics before
\* have left it.
HasRoom(p) ==
    p.type \in {"PUBLISH", "SUBSCRIBE", "UNSUBSCRIBE"} =>
        topic > 0 /\ Len(p.topic) <= topic

\* The step reads one more packet, after packets read back as they were sent.
ReadsNext == Len(got') = Len(got) + 1 /\ Len(got) < Len(sent) /\ AsSent(got)

\* After packets that were read back as they were sent, the next one is read
\* back as it was sent if it is one that survives and its topic has room, at
\* any place of a buffer that was used before (the serializers and
\* deserializers of every packet type).
ReadAsSent ==
    [][ ReadsNext /\ Survives(sent[Len(got')]) /\ HasRoom(sent[Len(got')])
            => AsSent(got') ]_vars

\* MQTT_CLIENT_MAX_PAYLOAD_SIZE.
PayloadCap == 1024

\* What the configuration says one end may send the other (mqtt_config.h, lines
\* 30 to 45); the serializers keep the maximum level of QoS.
WithinLimits(p) ==
    /\ p.type \in {"PUBLISH", "SUBSCRIBE", "UNSUBSCRIBE"} => Len(p.topic) <= TopicCap
    /\ p.type = "PUBLISH" => Len(p.data) <= PayloadCap

\* What is within the limits of the configuration is read back as it was sent.
ReadsWithinLimits ==
    [][ ReadsNext /\ WithinLimits(sent[Len(got')]) => AsSent(got') ]_vars

\* The buffer holds the packets whose serialization succeeded, one after the
\* other and nothing else, and after a failure a part of one more: through
\* resets, and up to the last byte.
BufferHoldsPackets ==
    /\ IsPrefix(Written(sent), SubSeq(memory, 1, outstream.written))
    /\ phase # "torn" => Len(Written(sent)) = outstream.written

\* The reader is at the end of a packet as long as all of them are read back
\* as they were sent, and never gives a byte that is left from before.
ReaderKeepsPace ==
    phase = "reading" =>
        /\ instream.read <= outstream.written
        /\ AsSent(got) => instream.read = Len(Written(SubSeq(sent, 1, Len(got))))
===============================================================================
