--------------------------- MODULE MCPacketExchange ---------------------------
(***************************************************************************)
(* The packets that TLC sends: each type, and each side of what is read    *)
(* back; then packets within the limits of the configuration that are not. *)
(***************************************************************************)
EXTENDS PacketExchange

Chars(n) == [i \in 1..n |-> 97]
Id == 258

Connect(id, will, qos, credentials) ==
    [type |-> "CONNECT", client_id |-> id, will |-> will, will_qos |-> qos,
     will_retain |-> will # <<>>, credentials |-> credentials,
     clean_session |-> TRUE, keepalive |-> 300]

Publish(topic_size, size, qos) ==
    [type |-> "PUBLISH", topic |-> Chars(topic_size), data |-> Chars(size), qos |-> qos,
     retain |-> size = 3, duplicate |-> qos > 0, packet_id |-> Id]

Subscribe(topic_size, qos) ==
    [type |-> "SUBSCRIBE", topic |-> Chars(topic_size), qos |-> qos, packet_id |-> Id]

Credentials == {<<>>, <<Chars(1)>>, <<Chars(1), Chars(2)>>}
Will == <<Chars(1), <<>>>>

MCPackets ==
    {Connect(Chars(1), <<>>, 0, c) : c \in Credentials}
    \cup {Connect(Chars(1), Will, q, c) : q \in 0..2, c \in Credentials}
    \cup {Connect(Chars(n), <<>>, 0, <<>>) : n \in {StringCap, StringCap + 1}}
    \cup {[type |-> "CONNACK", session_present |-> s, retcode |-> r] :
            s \in BOOLEAN, r \in {0, 5}}
    \cup {Publish(1, n, 0) : n \in {0, 3, 124, 125}}
    \cup {Publish(n, 1, 0) : n \in {2, 3}}
    \cup {Publish(1, n, q) : n \in {0, PointerSize - 2, PointerSize - 1}, q \in {1, 2}}
    \cup {Subscribe(n, q) : n \in {1, 2}, q \in 0..MaxQos}
    \cup {[type |-> "UNSUBSCRIBE", topic |-> Chars(n), packet_id |-> Id] : n \in {0, 1}}
    \cup {[type |-> "SUBACK", qos |-> q, packet_id |-> Id] :
            q \in (0..MaxQos) \cup {FailureQos}}
    \cup {[type |-> t, packet_id |-> Id] : t \in IdOnlyTypes}
    \cup {[type |-> t] : t \in EmptyTypes}

\* A length of 128; a packet id; the maximum level granted; a will without
\* credentials, and ones whose QoS the flag changes; a topic that is longer than
\* the one before it.
LimitPackets ==
    {Publish(1, 125, 0)}
    \cup {Publish(1, n, q) : n \in {5, 20}, q \in {1, 2}}
    \cup {[type |-> "SUBACK", qos |-> MaxQos, packet_id |-> Id]}
    \cup {Connect(Chars(1), Will, 1, <<>>)}
    \cup {Connect(Chars(1), Will, q, <<Chars(1)>>) : q \in {0, 2}}
    \cup {Publish(n, 1, 0) : n \in {1, 2}}
===============================================================================
