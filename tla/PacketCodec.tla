------------------------------ MODULE PacketCodec ------------------------------
(***************************************************************************)
(* The packets on the wire (packet/mqtt_packet_serialize.c and             *)
(* packet/mqtt_packet_deserialize.c).                                      *)
(*                                                                         *)
(* A serializer is the sequence of what it gives to the writer, one chunk  *)
(* of bytes a call: a writer that fails at one of them leaves the ones     *)
(* before.  A deserializer moves a cursor over the bytes the reader has    *)
(* left and collects the values it reads, in the order they come.          *)
(*                                                                         *)
(* A packet is a record.  What is optional in a CONNECT is a sequence that *)
(* may be empty: the will (topic and message) and the credentials (user    *)
(* name, then perhaps password).                                           *)
(***************************************************************************)
EXTENDS Integers, Sequences, SequencesExt

CONSTANTS
    MaxQos,       \* MQTT_CFG_MAX_QOS_LEVEL
    PointerSize,  \* sizeof(uint16_t*)
    LengthMod,    \* the lengths that uint32_t holds: 2^32, less for TLC
    StringCap     \* room in the strings that are not topics

ASSUME CodecAssumption ==
    /\ MaxQos \in 0..2
    /\ PointerSize \in {4, 8}
    /\ LengthMod \in Nat /\ LengthMod > 256 * 256
    /\ StringCap \in Nat \ {0}

TypeCode == [CONNECT |-> 1, CONNACK |-> 2, PUBLISH |-> 3, PUBACK |-> 4,
             PUBREC |-> 5, PUBREL |-> 6, PUBCOMP |-> 7, SUBSCRIBE |-> 8,
             SUBACK |-> 9, UNSUBSCRIBE |-> 10, UNSUBACK |-> 11,
             PINGREQ |-> 12, PINGRESP |-> 13, DISCONNECT |-> 14]

IdOnlyTypes == {"PUBACK", "PUBREC", "PUBREL", "PUBCOMP", "UNSUBACK"}
EmptyTypes == {"PINGREQ", "PINGRESP", "DISCONNECT"}

FailureQos == 128
ProtocolName == <<77, 81, 84, 84>>
ProtocolLevel == 4

Bit(b) == IF b THEN 1 ELSE 0

(***************************************************************************)
(* Serialization.                                                          *)
(***************************************************************************)

\* Faulty: the bytes in the order of the machine.
U16LittleEndian(n) == <<n % 256, n \div 256>>

U16(n) == <<n \div 256, n % 256>>

\* 128^0 to 128^4.
Weight == <<1, 128, 128 * 128, 128 * 128 * 128, 128 * 128 * 128 * 128>>

\* Seven bits a byte, the least significant ones first, as many as it takes;
\* no byte says that another follows.
LengthBytes(n) ==
    LET size == CHOOSE k \in 1..4 : n < Weight[k + 1] /\ (k > 1 => n >= Weight[k])
    IN  [i \in 1..size |-> (n \div Weight[i]) % 128]

\* The length of a string and its characters are two calls of the writer.
StringChunks(s) == <<U16(Len(s)), s>>
StringsChunks(ss) == FlattenSeq([i \in DOMAIN ss |-> StringChunks(ss[i])])
StringsLength(ss) == 2 * Len(ss) + Len(FlattenSeq(ss))

ConnectStrings(p) == <<p.client_id>> \o p.will \o p.credentials

\* MQTT_CONNECT_FLAG_WILL_FLAG is 3 << 2: it sets the low bit of the QoS too.
WillFlags(p) == 4 + 8 + 16 * (p.will_qos \div 2) + 32 * Bit(p.will_retain)

\* The will is only looked at when there are credentials.
ConnectFlags(p) ==
    2 * Bit(p.clean_session)
    + IF p.credentials = <<>> THEN 0
      ELSE 128 + 64 * Bit(Len(p.credentials) = 2)
           + IF p.will = <<>> THEN 0 ELSE WillFlags(p)

\* The low half of the first byte.
HeaderFlags(p) ==
    CASE p.type = "PUBLISH" -> 2 * p.qos + Bit(p.retain) + 8 * Bit(p.duplicate)
      [] p.type \in {"SUBSCRIBE", "UNSUBSCRIBE"} -> 2
      [] OTHER -> 0

RemainingLength(p) ==
    CASE p.type = "CONNECT" -> 10 + StringsLength(ConnectStrings(p))
      [] p.type = "PUBLISH" -> Len(p.topic) + 2 + Len(p.data) + 2 * Bit(p.qos > 0)
      [] p.type = "SUBSCRIBE" -> 3 + Len(p.topic) + 2
      [] p.type = "UNSUBSCRIBE" -> 2 + Len(p.topic) + 2
      [] p.type = "SUBACK" -> 3
      [] p.type = "CONNACK" \/ p.type \in IdOnlyTypes -> 2
      [] p.type \in EmptyTypes -> 0

TypeByte(p) == <<16 * TypeCode[p.type] + HeaderFlags(p)>>

\* The packets of a fixed size write their header at once.
ShortHeader(p) == <<TypeByte(p) \o <<RemainingLength(p)>>>>
LongHeader(p) == <<TypeByte(p), LengthBytes(RemainingLength(p))>>

ConnectChunks(p) ==
    LongHeader(p)
    \o <<U16(4) \o ProtocolName \o <<ProtocolLevel>>, <<ConnectFlags(p)>>,
         U16(p.keepalive)>>
    \o StringsChunks(ConnectStrings(p))

PublishChunks(p) ==
    LongHeader(p)
    \o StringChunks(p.topic)
    \o (IF p.qos > 0 THEN <<U16(p.packet_id)>> ELSE <<>>)
    \o (IF p.data # <<>> THEN <<p.data>> ELSE <<>>)

ConnackChunks(p) == ShortHeader(p) \o <<<<Bit(p.session_present), p.retcode>>>>

SubscribeChunks(p) ==
    LongHeader(p) \o <<U16(p.packet_id)>> \o StringChunks(p.topic) \o <<<<p.qos>>>>

UnsubscribeChunks(p) ==
    LongHeader(p) \o <<U16(p.packet_id)>> \o StringChunks(p.topic)

SubackChunks(p) == ShortHeader(p) \o <<U16(p.packet_id), <<p.qos>>>>

IdOnlyChunks(p) == ShortHeader(p) \o <<U16(p.packet_id)>>

Chunks(p) ==
    CASE p.type = "CONNECT" -> ConnectChunks(p)
      [] p.type = "CONNACK" -> ConnackChunks(p)
      [] p.type = "PUBLISH" -> PublishChunks(p)
      [] p.type = "SUBSCRIBE" -> SubscribeChunks(p)
      [] p.type = "UNSUBSCRIBE" -> UnsubscribeChunks(p)
      [] p.type = "SUBACK" -> SubackChunks(p)
      [] p.type \in IdOnlyTypes -> IdOnlyChunks(p)
      [] p.type \in EmptyTypes -> ShortHeader(p)

Bytes(p) == FlattenSeq(Chunks(p))

(***************************************************************************)
(* Deserialization.                                                        *)
(***************************************************************************)

\* left is what the reader still has, got the values so far, and room the
\* capacity of the topic string, which the application gives again each time.
Cursor(bytes, room) == [left |-> bytes, ok |-> TRUE, got |-> <<>>, room |-> room]

CanRead(c, n) == c.ok /\ n <= Len(c.left)
Fail(c) == [c EXCEPT !.ok = FALSE]
Skip(c, n) == [c EXCEPT !.left = SubSeq(@, n + 1, Len(@))]
Take(c, n, value) == [Skip(c, n) EXCEPT !.got = Append(@, value)]

ReadByte(c) == IF CanRead(c, 1) THEN Take(c, 1, c.left[1]) ELSE Fail(c)

U16At(c) == 256 * c.left[1] + c.left[2]
ReadU16(c) == IF CanRead(c, 2) THEN Take(c, 2, U16At(c)) ELSE Fail(c)

ReadString(c, cap) ==
    LET rest == Skip(c, 2)
        n == U16At(c)
    IN  IF ~CanRead(c, 2) THEN Fail(c)
        ELSE IF n <= cap /\ CanRead(rest, n)
             THEN Take(rest, n, SubSeq(rest.left, 1, n))
             ELSE Fail(rest)

\* A topic string without room is refused before anything is read.
WithRoom(c, result) == IF c.room = 0 THEN Fail(c) ELSE result

\* The length of the topic replaces the capacity it has been compared with.
ReadTopic(c) ==
    LET fits == CanRead(c, 2) /\ U16At(c) <= c.room
    IN  [ReadString(c, c.room) EXCEPT !.room = IF fits THEN U16At(c) ELSE @]

\* The type must be known, and the flags of two types are fixed.
ReadType(c) ==
    LET code == c.left[1] \div 16
        flags == c.left[1] % 16
    IN  IF ~CanRead(c, 1) THEN Fail(c)
        ELSE IF code \in 1..14 /\ (code \in {8, 10} => flags = 2)
             THEN [Take(c, 1, code) EXCEPT !.got = Append(@, flags)]
             ELSE Fail(Skip(c, 1))

\* The first byte counts most, and the bytes from 128 on say that another one
\* follows.
ReadLength(c) ==
    LET ends == {i \in DOMAIN c.left : c.left[i] < 128}
        size == CHOOSE i \in ends : \A j \in ends : i <= j
        length[i \in 0..size] ==
            IF i = 0 THEN 0
            ELSE (128 * length[i - 1] + (c.left[i] % 128)) % LengthMod
    IN  IF ~c.ok THEN c
        ELSE IF ends = {} THEN Fail(Skip(c, Len(c.left)))
        ELSE Take(c, size, length[size])

ReadHeader(c) == ReadLength(ReadType(c))

\* What the application asks of the QoS of a SUBSCRIBE and of a SUBACK.
QosAccepted(qos) == qos < MaxQos \/ qos = FailureQos

ReadQos(c) ==
    IF CanRead(c, 1) /\ ~QosAccepted(c.left[1]) THEN Fail(Skip(c, 1)) ELSE ReadByte(c)

ConnectFlagsRead(b) ==
    [clean_session |-> (b \div 2) % 2 = 1,
     will |-> (b \div 4) % 4 # 0,
     will_qos |-> (b \div 8) % 4,
     will_retain |-> (b \div 32) % 2 = 1,
     password |-> (b \div 64) % 2 = 1,
     username |-> (b \div 128) % 2 = 1]

ReadConnectFlags(c) ==
    IF CanRead(c, 1) THEN Take(c, 1, ConnectFlagsRead(c.left[1])) ELSE Fail(c)

ReadFixed(c) == ReadU16(ReadConnectFlags(ReadByte(ReadString(c, StringCap))))

\* The strings that the flags announce.
ReadWill(c, flags) ==
    IF flags.will THEN ReadString(ReadString(c, StringCap), StringCap) ELSE c
ReadUser(c, flags) == IF flags.username THEN ReadString(c, StringCap) ELSE c
ReadPassword(c, flags) ==
    IF flags.username /\ flags.password THEN ReadString(c, StringCap) ELSE c

ReadConnect(c) ==
    LET fixed == ReadFixed(c)
        flags == fixed.got[Len(fixed.got) - 1]
        willed == ReadWill(ReadString(fixed, StringCap), flags)
    IN  IF fixed.ok THEN ReadPassword(ReadUser(willed, flags), flags) ELSE fixed

\* Any byte but 0 and 1 is refused in the place of the session flag.
ReadConnack(c) ==
    IF ~CanRead(c, 2) THEN Fail(c)
    ELSE IF c.left[1] > 1 THEN Fail(Skip(c, 2))
    ELSE [Take(c, 1, c.left[1] = 1) EXCEPT !.left = SubSeq(@, 2, Len(@)),
                                           !.got = Append(@, c.left[2])]

\* sizeof(packet_id), where packet_id is a pointer.
IdSize == PointerSize

\* The packet id is read when more than IdSize bytes follow the topic, and
\* counts as IdSize bytes.
ReadPublish(c) ==
    LET flags == c.got[2]
        qos == (flags \div 2) % 4
        topic == ReadTopic(c)
        after == (c.got[3] - (topic.room + 2)) % LengthMod
        has_id == qos > 0 /\ after > IdSize
        named == IF has_id THEN ReadU16(topic) ELSE topic
        size == IF has_id THEN (after - IdSize) % LengthMod ELSE after
    IN  IF c.room = 0 \/ qos > MaxQos THEN Fail(c)
        ELSE IF CanRead(named, size)
             THEN Take(named, size, SubSeq(named.left, 1, size))
             ELSE Fail(named)

ReadSubscribe(c) == WithRoom(c, ReadQos(ReadTopic(ReadU16(c))))
ReadUnsubscribe(c) == WithRoom(c, ReadTopic(ReadU16(c)))
ReadSuback(c) == ReadQos(ReadU16(c))
ReadIdOnly(c) == ReadU16(c)
ReadEmpty(c) == IF c.got[3] = 0 THEN c ELSE Fail(c)

\* The receiver calls the deserializer of the type the header tells.
ReadPacketFrom(cursor) ==
    LET c == ReadHeader(cursor)
        type == CHOOSE t \in DOMAIN TypeCode : TypeCode[t] = c.got[1]
    IN  CASE ~c.ok -> c
          [] c.ok /\ type = "CONNECT" -> ReadConnect(c)
          [] c.ok /\ type = "CONNACK" -> ReadConnack(c)
          [] c.ok /\ type = "PUBLISH" -> ReadPublish(c)
          [] c.ok /\ type = "SUBSCRIBE" -> ReadSubscribe(c)
          [] c.ok /\ type = "UNSUBSCRIBE" -> ReadUnsubscribe(c)
          [] c.ok /\ type = "SUBACK" -> ReadSuback(c)
          [] c.ok /\ type \in IdOnlyTypes -> ReadIdOnly(c)
          [] c.ok /\ type \in EmptyTypes -> ReadEmpty(c)
===============================================================================
