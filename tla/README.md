# A verification model of lw-mqtt

lw-mqtt is a small MQTT client library in C (with the beginning of a broker).
An application fills a `mqtt_client_t`, registers callbacks, calls
`mqtt_client_connect`, and then calls `mqtt_client_task` in a loop; with
`MQTT_MULTITASKING_ENABLED`, the default, other threads may call the client too.
The modules here model that client with its threads, its callbacks, its socket and the
broker at the far end; its two timers; the packets on the wire and the stream over a
buffer; the broker as far as it is written; and the example programs on top of the
client. TLC checks small instances; TLAPS proves the safety of the client, of the timers,
of the broker and of the programs for every value of the constants, and that the client keeps
the promise of its header wherever nothing is known to break it.

Paths below are relative to the root of the repository.

## 1. The system

| Component | State | Operations | Interacts with |
|---|---|---|---|
| client (`src/client/mqtt_client.c`) | `state`, `packet_id`, `is_waiting_response`, topic buffer, timers, credentials and will, mutex | init, setters, connect, disconnect, subscribe, unsubscribe, publish, task | application (calls, callbacks), packets, socket, timers, mutex |
| socket (`src/socket/posix/mqtt_socket_posix.c`) | a descriptor | open, connect, is_connected, close, send, receive, select; bind, listen, accept | kernel, network |
| streams (`src/stream`) | byte counters, a pointer into the buffer | reader, writer, reset | socket or a buffer |
| packets (`src/packet`) | the state of the whole-packet deserializer | one serializer and one deserializer per packet type | streams |
| timer (`src/time/mqtt_timer.c`) | start time, expiration time, auto restart | start, reset, has_expired | clock |
| mutex, errno (`src/oal`) | a lock; a thread-local code | lock, unlock; set, get | all |
| broker (`src/broker/mqtt_broker.c`) | `state`, listen socket, sessions that are never created | init, start, stop, task | socket, mutex |
| examples (`examples`) | topics still to subscribe to, an end flag, an exit code | main loop, callbacks | client, broker |

What makes the client hard:

- **Callbacks with the mutex held.** Every operation locks, works, unlocks. The
  callbacks run in the middle of the work, before or after the state changes, and
  those of the examples call the client again. A POSIX mutex blocks such a call for
  ever; the Windows critical section lets it in, into the middle of the operation
  that runs the callback.
- **A wait without the mutex.** `mqtt_client_task` chooses its case label, unlocks,
  waits in `select`, locks, and goes on in that label. Other threads may have
  disconnected, or found the connection lost, meanwhile.
- **Blocking reads with the mutex held**, packets that arrive in parts, an end of
  file that is not an error for the reader.
- **A network and a broker that owe nothing**: late, lost or refused answers, resets.
- **Three records of one connection**: the state, the socket and what the application
  has been told, changed by different statements.
- **Times that wrap**, a timer period that is stored as a difference, and periods that
  the application changes while a timer runs.

And around it:

- **Packets written in parts**, into a buffer that fills up and is used again, by
  serializers whose lengths, flags and checks are not those of the deserializers.
- **A broker that waits in `accept` with the mutex held**, whose socket survives its
  structure, and whose clients reset their connections before or after they are accepted.
- **Programs whose state is spread over callbacks**: an index that one callback advances
  and the next one reads, a loop that ends by a flag, an exit from inside of a callback.

What makes each component correct, in short: the client's state and socket agree; the
application is told of every connection's beginning and end once, in order; nothing is
waited for without an answer on its way, and every wait that is bounded by a timeout
ends; no operation keeps the mutex; a timer keeps its period and is exact. For
the packets: what one end serializes the other deserializes to the same, and a stream
gives the bytes of this round and no others. For the broker: its state and its socket
agree, nothing is stopped under its task, every client is closed. For the programs: one
request at a time, an end with the connection, an exit code that tells the truth.

## 2. The modules

| Module | Models | Kind |
|---|---|---|
| `MqttSocket` | the socket calls of the client, the stream reader and writer, the broker and the network | part of the client's state machine |
| `MqttClient` | `mqtt_client.c`: one action per operation and per case of the task | state machine, EXTENDS `MqttSocket` |
| `ClientNotify` | what the connect and disconnect callbacks promise | abstract specification |
| `MqttTimer` | `mqtt_timer.c` | state machine |
| `ClientTimers` | the two timers of the client and what the client does with them | state machine, EXTENDS `MqttTimer` and INSTANCEs it for the second timer |
| `PacketCodec` | the serializers and deserializers of every packet type | operators |
| `BufferStream` | `buffer_stream.c` | part of a state machine |
| `PacketExchange` | packets written to, handed over in and read from one buffer | state machine, EXTENDS `PacketCodec` and `BufferStream` |
| `MqttBroker` | `mqtt_broker.c`, with the socket calls of a server | state machine |
| `LwMqttPrograms` | `lw-mqtt-sub` and `lw-mqtt-pub` | state machine, EXTENDS `MqttClient` |
| `MCMqttClient`, `MCPacketExchange`, `MCLwMqttPrograms` | what the callbacks call, and the packets that are sent, for TLC | constants |
| `MqttClientProofs`, `ClientNotifyProofs`, `MqttTimerProofs`, `ClientTimersProofs`, `MqttBrokerProofs`, `PacketExchangeProofs`, `PacketReadBackProofs`, `LwMqttProgramsProofs` | theorems | proofs |

Definitions that begin with the comment `Faulty:` are the mutants: what the
definition after them would be with a plausible bug. No specification uses them.

### MqttSocket

`sock` is the descriptor and what is behind it: `closed`, `fresh` (open, never
connected), `up`, `eof` (the broker has closed) and `reset`. `rx` holds the packets
received and not read; `partial` says that bytes that reading the last of them takes are
missing; `framed` that the client has read every packet of this connection to its end, and
no further; `owed` counts the answers the broker still owes, by type; `served` says that it
has accepted the client. What the client does to the socket:

- `CloseSocket` is `mqtt_socket_close`: `shutdown` fails on a reset connection, and
  `close` is then never called (line 94), so the descriptor stays.
- `ConnectSocket` works once per descriptor: a client that wants to connect again has to
  be initialised again. A `connect` that fails leaves everything as it was.
- `SelectResults` is the value of `mqtt_socket_select`. An end of file and an error are
  both readable.
- `CanRead` and `ReadFails` are the two ways out of `socket_stream_reader`. The loop
  treats `recv` returning 0 as progress: at the end of file neither is enabled, and the
  task stays where it is. So it does when a packet is incomplete, and when the reader was asked
  for more bytes than there are.

A blocking `connect` is one step, since it runs with the mutex held. So is the write of a
packet: the writer returns after the last byte or with an error. The deserializers read a
packet within one step of the model once all of it is there; when it never comes
completely because the connection is reset, the failure is told apart by whether the header
had arrived (`TaskFailsToRead`, `TaskFailsInPayload`), for the code treats the two
differently.

The broker is external. It answers the CONNECT first and the other requests in any order,
late or never; it sends the PUBLISH packets of `Publications`, which are what the protocol allows: any
length of the topic and the payload, any QoS. It does not violate the protocol.

A legal PUBLISH need not be read to its end, and the model says what the deserializer takes off the
stream for each, from the same lines as `PacketCodec`:

- `DecodedLength`: the first byte of a length is taken for the most significant
  (`mqtt_packet_deserialize.c`, lines 702-721). 128 is read as 1, 130 as 257 and 200 as 9217.
- `TakenAfterTopic`: with QoS 1 or 2 the packet id counts as the size of a pointer (lines 391 and 399),
  so that six bytes of the payload stay behind; or it is not read, and stands for the payload.
- A decoded length that is too short for the topic is refused after the topic was read
  (`LeftAfterTopic`); any other difference leaves bytes (`ConsumePart`), or takes the bytes of the
  packets behind it (`Overlong`, `TakeUpTo`) and waits until there are enough of them.

From there on `framed` is false, and the client reads bytes of messages and of packets as if they were packets.
The bytes of a message may be any, so a read may be taken for any packet, may take up to all that has come
and may wait for more: the actions `TaskMisreads` below.

### MqttClient

An operation that calls no callback is one action, from its lock to its unlock. One that
calls a callback is an action up to the callback, and `ReturnFromCallback` does the rest.
In between `owner` is the thread, and `pc` says which callback it is in:

| `pc` | where the thread is |
|---|---|
| `idle` | outside of the client, or waiting for the mutex to enter |
| `select`, `relock` | the task, in `select` and waiting for the mutex after it (lines 697-699, 786-788) |
| `reading` | the task, with the mutex, about to read a packet (lines 703, 792) |
| `cb_connected`, `cb_refused` | connect callback of a CONNACK (lines 717, 726) |
| `cb_publish`, `cb_suback` | the callbacks at lines 810 and 826 |
| `cb_final_connect`, `cb_final_disconnect` | the callbacks at lines 920 and 913 |
| `cb_lost` | disconnect callback of a publish, subscribe or unsubscribe that failed (line 441) |

A call made from a callback is an ordinary action of the thread that is in the callback,
possible when the mutex is recursive (`Enters`). When such a call fails it runs the
disconnect callback inside the callback it was made from; `nest` counts these. When the
mutex is not recursive the call blocks for ever (`BlocksOnItself`, `stuck`).

`branch` is the case label the task has chosen and `polled` what its select reported.
`identity` stands for the client id, the credentials and the will: what matters is whether
`mqtt_packet_serialize_connect` accepts them. The two timers are flags that become true at
any time after a start or a reset (`KeepaliveElapses`, `ResponseElapses`): `ClientTimers`
shows when they do. `note` is the last connect or disconnect callback with a bit that
changes, so that two equal notifications in a row are two steps.

A read that is in step with the packets is one of `TaskReads`, with an action per case of the switch at
line 794; `TaskRefusesPublish` is a publication whose QoS, topic or length is refused. `TaskReadsBeyond`
and the four `TaskStrays...` (together `TaskMisreads`) are the reads that take bytes of other packets, or of a
message, for their own: for a publication (`GivesMessage`), for a SUBACK with its callback, for an UNSUBACK or a
PINGRESP, and for everything that ends the connection, among them the types that line 848 turns into an error
state. A swallowed SUBACK, a callback for an answer that nobody sent, a connected client that is told
`connect(false)`, and a reader that keeps the mutex are all behaviours of the model.

Operations that fail a check change nothing and have no action. `mqtt_client_init` is
called when no thread is in the client and no connection is open; it resets the structure,
which is why it is an action with the whole state in it. A callback that is not
registered behaves as one that returns at once. `"touch"` stands for the operations that
take the mutex and change nothing here (`mqtt_client_get_user_data`, the poll period, the
timeout): it matters in callbacks, where taking the mutex is what blocks. The failure of a
serializer that is not a failure of the socket (lines 434-435) cannot happen: the
parameters have been checked before, and a blocking `send` does not report
`MQTT_ERR_SOCKET_PENDING`.

### ClientNotify

Six steps: a connection is requested; it is established or it fails, with one connect
callback; an established one is lost, with one disconnect callback, or the application
closes it, and is then told that this was expected, or nothing at all. The last two are both
what the code does: `mqtt_client_disconnect` itself calls no callback, and the task calls
one only when it was past its check of the state. `Told` in `MqttClient` is the refinement
mapping, and `NotifiesAsPromised` the property that the client implements it.

### MqttTimer and ClientTimers

`MqttTimer` has the fields of `mqtt_timer_t`, a clock that wraps, and two auxiliary
variables: the `timeout` the timer was started with and the time `elapsed` since its last
start or restart. A sum or difference of two times wraps at most once, so `Plus` and
`Minus` are exactly the `uint32_t` operations for `Mod = 2^32`, and are within reach of the
prover.

`ClientTimers` is the client reduced to what concerns time. Its keepalive timer is the one it
EXTENDS; its response timer is a second instance on the same clock. `SendConnect` starts
both (lines 646-666), `Request` and `Publish` reset one or both, the two checks of the task
read them, and `SetTimeouts` changes the periods in the structure, not in the timers. Three
auxiliary variables say what the periods are for: the keepalive the broker was `told`, the
`silence` of the client, and the age of its latest request (`unanswered`). What `MqttClient`
decides, the mutex, the socket and the callbacks, is left open here, and the other way
round: time passes only while there is a connection, since nothing else reads the timers.

### PacketCodec, BufferStream and PacketExchange

A serializer is the sequence of chunks it gives to the writer, one per call
(`ConnectChunks`, `PublishChunks`, ...); a deserializer moves a cursor over the bytes the
reader has left and appends what it reads (`ReadConnect`, `ReadPublish`, ...). The bytes are
numbers, the length field and the flags are computed as the code computes them, and the two
sides are translated from the two files independently of each other.

`BufferStream` has the buffer and the two streams over it, each with its size, its count and
its pointer as an offset. `Stored` is what a list of writer calls leaves behind: the chunks
before the first one that does not fit.

`PacketExchange` drives both with the discipline of the client: packets are written one after
the other (`Serialize`), the buffer is handed to the reader (`HandOver`), packets are read one
call at a time (`Deserialize`) until one is refused or none is left, and then both ends begin
again on the same bytes (`Recycle`), which count as `Stale` from there on. `Meaning` is what the
reading end has to see for each packet. `Survives` says for which packets it does:

- lengths below 128: the encoder sets no continuation bit, and the decoder takes the first
  byte for the most significant (`mqtt_packet_serialize.c`, line 559;
  `mqtt_packet_deserialize.c`, lines 702-721);
- PUBLISH with QoS 0: with QoS 1 or 2 the packet id is read only when more bytes follow the topic
  than a pointer has, and counts as that many (`mqtt_packet_deserialize.c`, lines 391 and 399);
- SUBSCRIBE and SUBACK below the highest QoS, which the strict comparisons at lines 492 and
  541 refuse;
- CONNECT with no will, or with credentials and a will of QoS 1: the will flags are set only when
  there are credentials, the will is written always (`mqtt_packet_serialize.c`, line 89), and the
  flag overlaps the low bit of its QoS (`mqtt.h`, line 250).

`HasRoom` is the rest: the length of a topic replaces the size of the buffer it was read into
(`mqtt_packet_deserialize.c`, line 742), so the next topic must not be longer. `ReadAsSent`
is the positive half: a packet that survives and has room is read as it was sent, wherever it lies in a
buffer that was used before. That these are all (`ReadsOnlySurvivors`) is a theorem about the code and not a
property it should have, for the configuration promises more: `WithinLimits` are the packets that
`mqtt_config.h` (lines 30 to 45) says one end may send the other, with QoS up to 2, topics of 512 bytes and
payloads of 1024, and `ReadsWithinLimits` that these are read as they were sent. It is false for six
reasons, as the run `limits` and the theorem show (section 3).

### MqttBroker

`listener` is the descriptor in `listen_socket`: `none`, `open`, `bound`, `listening` or
`closed`. `start` opens nothing, it binds and listens on the socket that `init` opened, so a
broker that was stopped cannot be started again before it is initialised again
(`MqttBrokerStart`, `CanBind`). It takes the IP address and the port, one element of `Addresses`, and
`address` is what the socket is bound to. `init` fills the structure with zeros: a socket that was bound
and could not listen keeps its address, which is then `orphaned`; no later start of this process
binds that one, and a start on another works. `init`, `start` and `stop` are one action each, since each runs to
its end with the mutex held or before any thread can know the broker.

The task takes the mutex, passes a pointer to `accept` that was never written (line 195), and
stays in `accept` with the mutex held (`TaskCallsAccept`). `Pointers` is what the stack may
hold there: a null pointer is refused, one to memory works and the client is closed again, a
wild one ends the process (`crashed`). `CloseClient` fails on a connection the client has
reset, and the descriptor stays open, until `accept` finds no descriptor left
(`AcceptExhausted`). The kernel's queue and the clients are external. `ShutdownWorks` is TRUE
on Linux; where `shutdown` refuses a listening socket, `mqtt_broker_stop` changes nothing.
The theorems hold for both.

### LwMqttPrograms

`main` of both programs, step by step, over the actions of `MqttClient`, each of which runs
unchanged as a conjunct: initialise, set the identity and the keepalive, connect, and call the
task in a loop. A program is one thread (`AppThreads = {}`) and its callbacks need the
recursive mutex of Windows; with the POSIX mutex it stops in its first callback, which is
the run `callback`. `SubscriberAsks` is the subscribe of the connect callback and of the
subscribe callback, `SubscriberReturns` what ends them; `called` says that the callback has made
its call. `current_topic` is the index as the code keeps it. `PublisherPublishes` and
`PublisherExits` are the connect callback of lw-mqtt-pub, which publishes, disconnects and exits
whatever it was told. The program that is running and whether the client accepts the QoS of
the command line are chosen at the start.

## 3. The runs

Constants that appear in several modules mean the same in all of them. The bounds are
`RxCap` (packets in the receive buffer), `MaxOwed` (answers of a type owed), `MaxNest`
(callbacks in callbacks), `PacketIdMod`; `Mod` and `MaxElapsed` of the timers; `Backlog` and
`MaxOpen` of the broker; `BufferSize`, `MaxPackets`, `StringCap`, `TopicCap` and `LengthMod`
of the exchange; `NTopics` of the programs.

| Run | Instance | Checks |
|---|---|---|
| `nested` | one application thread and the task, recursive mutex, callbacks that call anything, two deep, every fault but packets that stop half way, QoS 0 and 1, refusals, two packets in the receive buffer, publications that are misread | `LockDiscipline`, `StateMatchesSocket`, `BranchStaysValid`, `NoPhantomWait` |
| `notify` | two threads, POSIX mutex, callbacks of lw-mqtt-sub, every fault but a reset, publications read to their end | `TypeOK`, `NotifiesAsPromised`, `DataWhileConnected` |
| `progress` | two threads with fairness, every fault, publications that are misread | `ConnectResolves`, `WaitEnds`, `ResetIsNoticed`, `DisconnectCompletes`, `MutexIsReleased` |
| `timer` | `ClientTimers`: times of 3 bits, timeouts 0, 2, 3 and 7, keepalives 0, 2 and 3 | `TimersTypeOK`, `PeriodKept`, `ExactUntilWrap`, `PingsOnTime`, `GivesUpOnTime` |
| `broker` | three clients, two addresses, a queue of two, two descriptors, every value of the pointer, with fairness | `TypeOK`, `StateMatchesListener`, `ListenerStays`, `OnlyResetsLeak`, `ClientIsAnswered`, `ClientFreesMutex` |
| `exchange` | pairs of packets of every type and on each side of every limit, a buffer of 135 bytes, pointers of 8 bytes | `TypeOK`, `BufferHoldsPackets`, `ReaderKeepsPace`, `ReadAsSent` |
| `programs` | both programs, two topics, recursive mutex, a broker that accepts, refuses or rejects, every fault, publications that are misread, with fairness | `ProgramsTypesOK`, `TopicInRange`, `OneRequestAtATime`, `LoopEndsWithConnection`, `ExitTellsPublished`, `PublisherEnds`, `SubscriberEnds` |

What they show.

*The client.* The state and the socket agree whenever no end of a connection is being
told (`StateMatchesSocket`), through every interleaving of the two threads, through
calls made from callbacks and through bytes of a message that are taken for packets. The label chosen before
the wait still fits the state after it (`BranchStaysValid`). As long as every publication was read to its
end, an answer is only waited for while it is on its way
(`NoPhantomWait`), so no healthy connection is ended by the response timeout for an answer
that has already come; a publication that is read beyond its end may swallow the answer, and
then the timeout does end the connection. The application hears of its connections as promised
(`NotifiesAsPromised`), as long as no thread but the task meets a reset, the broker refuses
nobody, nothing is acknowledged and no publication is misread: `late` and `misread` show what
happens when one is, the others are told below. It is given no data after its own disconnect, even
when the task had already been told of data (`DataWhileConnected`). Under fairness a silent
broker, a reset and a disconnect lead to the end of the connection. No operation keeps the mutex
(`MutexIsReleased`), and the wait for a CONNACK ends (`ConnectResolves`), with one exception that both name:
a reader that waits for bytes for ever (`ReaderWaits`), in a packet that stops half way, for a length that was
misread or at an end of file. A reset frees it (`ResetIsNoticed`).

*The timers.* A timer keeps its period whatever wraps, and is exact until a time wraps. Of the
client: while the keepalive is the one the broker was told, a ping leaves exactly when the client has
been silent that long (`PingsOnTime`), and a broker is given up exactly when the latest request is as
old as the timeout the connection began with (`GivesUpOnTime`). A keepalive that is set during a
connection decides whether pings leave, and not when.

*The packets.* `ReadAsSent`, as described above; the buffer holds exactly the packets that were
written completely, one after the other, and part of one more after a failure
(`BufferHoldsPackets`); the reader is at the end of a packet as long as all were read as they were
sent, and never gives a byte of an earlier round (`ReaderKeepsPace`).

*The broker.* `RUNNING` means listening, through failing starts on either address and initialisations in any
order (`StateMatchesListener`); nothing is stopped under the task (`ListenerStays`), which costs that `stop`
waits for the next client: once one connects the mutex is free (`ClientFreesMutex`). Only
clients that reset their connection leave a descriptor open (`OnlyResetsLeak`), and those who wait
are answered, unless the pointer stays null, the process has ended or the descriptors are used up
(`ClientIsAnswered`).

*The programs.* The subscriber has one request under way, for the topic that its message names
(`OneRequestAtATime`) as long as its publications are read to their end, and reads its topics inside of their
vector however answers, what looks like one, and failures come (`TopicInRange`). No loop runs on without a
connection (`LoopEndsWithConnection`). The subscriber ends after a reset, wherever it waits
(`SubscriberEnds`), the publisher always but in a reader that waits for ever (`PublisherEnds`). The publisher exits with 0 if and only if it was accepted and
its message was handed to the connection (`ExitTellsPublished`).

Why the bounds are enough. One application thread reaches every pair of operations
around the task's wait; a second one would find the same states, since operations are
atomic and symmetric. One packet in the receive buffer is read, or lost, or half there;
more would be read in later calls of the task. One that is misread stays there in part, for the reads that
stray, and the packet behind it comes when it is gone; that a packet is taken together with the one before
it (`TaskReadsBeyond`) needs two, which `nested` and `programs` have. A packet that stops half way is left
out of `nested`, where the bytes missing from a misread publication and an end of file hold the reader in the
same place; `progress`, `notify` and `programs` have it. Publications are of each kind that the client can
tell apart: read to the end, with six bytes left (QoS 1 and ten bytes of payload), too short for its topic (128 bytes,
taken for 1), longer than it is (130, taken for 257). One owed answer of each type is enough
for a wait to end too early or too late; the programs have two, so that a second request could
be under way. `MaxNest` 2 has a failure inside a failure; the callbacks of the programs are never
deeper than 1. `PacketIdMod` 2 wraps, in `notify`; no other property reads an id. Topic lengths 1
and 2, in `notify`, fit, shrink the buffer and no longer fit. A client that is out of step may be waiting for bytes
that never come; when none can come any more because the connection has ended, each read takes at least the
rest of one packet (`TakesSome`), since a packet has finitely many bytes. In `timer`, `MaxElapsed` lets the clock pass the range of the times,
and connections begin before, at and after a wrap. Two clients fill the broker's queue or use up its
descriptors while a third waits. Two addresses are one that a forgotten socket keeps and one that is free. In `exchange` a packet of 128 bytes and one of four just fill the
buffer; two packets per round are enough for a packet to be affected by the one before it; the
lengths are on both sides of 128, of a pointer, of the topic buffer and of the strings;
`LengthMod` is 2^24, since the difference of lengths that wraps only has to be larger than any buffer and
TLC's integers have 31 bits. Two topics have a first, a last and an end.

`notify` does not check deadlock: a thread may block on its own mutex or
read at an end of file for good, as described next; nor do `eof` and `misread`, which look for one
disagreement where the system may stop. Nor do `broker`, where the process may crash, and
`programs`, where the program exits. In the others TLC checks that the system never stops.

### Runs that find a disagreement

| Run | Property | What happens |
|---|---|---|
| `eof` | `EndIsNoticed` | the broker closes the connection: `recv` returns 0, the reader loops for ever with the mutex held |
| `callback` | `CallbackMayCall` | the connect callback of lw-mqtt-sub subscribes and blocks on the POSIX mutex of its own thread |
| `late` | `NotifiesAsPromised` | a publish finds the connection reset while the task is in `select`: `disconnect(false)`, and then `connect(false)` from the task |
| `misread` | `NotifiesAsPromised` | a QoS 1 publication leaves six bytes, which are taken for a packet of no known type: `connect(false)` for a connected application |
| `limits` | `ReadsWithinLimits` | a SUBACK that grants QoS 2 is refused; it is the first that TLC meets of six kinds of packets |

Each of these runs checks what a text of the repository says, quoted in the findings of `PROJECT.json`. `eof`
is checked under fairness. The packets of `limits` (`LimitPackets`) are all within the limits of the
configuration, and each is lost for one of the reasons that `Survives` and `HasRoom` name: a length of 128, the
packet id of a PUBLISH, the highest QoS granted, a will without credentials, the QoS of a will, and a topic
after a shorter one. TLC stops at the first; that each of them is lost is the theorem `ReadsOnlySurvivors`.

### Other behaviours of the code

The models have them, and no run singles them out.

- A CONNACK that refuses the client runs the connect callback at line 726 and again at line 920: one attempt
  is answered twice. The PUBACK of a QoS 1 publish is an invalid packet for the task (line 848): the state becomes
  an error code, and a connected application is told that it could not connect, as in `misread`. Both break
  the promise of `ClientNotify`, and `notify` excludes them (`ConnackCodes`, `PubQos`); `nested` has both.
- A subscribe made in the connect or the subscribe callback is not waited for, because the flag is cleared
  after the callback (lines 719 and 829), whatever its comment says (`mqtt_client.h`, line 148): the topics of
  lw-mqtt-sub have no timeout.
- A publication of 130 bytes is waited for as one of 257, with the mutex held and past every timeout; the bytes
  that come in the end are those of the packets behind it, a SUBACK maybe.
- In the race of `late`, a packet that is still buffered is delivered after the disconnect callback,
  which is why `DataWhileConnected` is checked, and proved, without resets.
- A PINGRESP clears the flag of a request whose answer has not come (line 844).
- The response timeout is not looked at while packets keep arriving (line 872), which is why
  `WaitEnds` excludes that case; a packet that stops half way holds the task in the reader past any
  timeout.
- A timer that is started just before its expiration time wraps has expired at once, which is why
  `ExactUntilWrap`, `PingsOnTime` and `GivesUpOnTime` say until.
- The broker's uninitialized pointer, its accept with the mutex held, the stop that cannot be undone
  by a start, the init that forgets a bound socket, the leak after a reset: see `MqttBroker`.

### Fairness

`Fairness` of `MqttClient` and `ProgramsFairness` are the main loop of the examples
(`lw-mqtt-sub.cpp`, lines 169-172): the application keeps calling `mqtt_client_task`; `select`
returns within the poll period; a read of a packet that is there returns; callbacks return; a
mutex that stays free is granted; the clock goes on. The programs also execute their next
statement. `Fairness` of `MqttBroker` is the loop of lw-mqtt-broker
(`lw-mqtt-broker.cpp`, lines 105-108): it calls the task again and again, `accept` answers when
there is a client or no descriptor, and `close` returns. All of it is weak fairness. Nothing is
assumed of the other end and the network, nor of the application's other calls, nor of the
application ever stopping its broker; `ClientIsAnswered` carries its one assumption, that the pointer
is not null for ever, in its statement. There is no fairness for the reads that are out of step (`TaskMisreads`):
how many bytes a misread length asks for, and whether as many ever come, is up to the messages and the broker,
so a reader may wait for ever wherever one can. The properties that this would break name it as an exception
(`ReaderWaits`); `SubscriberEnds` and `ResetIsNoticed` need none. The runs with fairness use no symmetry.

## 4. What is proved

Every theorem is for all values of the constants that satisfy `SocketAssumption` and
`ClientAssumption` (or `TimerAssumption` and `ClientTimersAssumption`, or `BrokerAssumption`, or
`CodecAssumption`, `BufferAssumption` and `ExchangeAssumption`): any publications, read to their end or not; any
number of application threads, either kind of mutex, any callbacks, any nesting, any bounds, any
faults; times of any width; any clients, backlog and descriptors; any packets, buffers and rooms for
strings. These assumptions only
give the constants their types and say that the task is not one of the application's threads.
For a packet of the exchange, the type is what the parameters of its serializer can be: strings and ids of two bytes,
and a length that four bytes can say (`Packet`); one of 2^28 bytes and more would write past an array,
which is told in section 5.
For the programs `ProgramsAssumption` adds what `main` is: one thread, the recursive mutex without
which the first callback stops it, and at least one topic; the broker and the network stay free.

| Theorem | States |
|---|---|
| `TypeCorrect` | `Spec => []TypeOK` |
| `MutexProtects` | `Spec => []LockDiscipline` |
| `Safety` | `Spec => []IInv` |
| `SocketFollowsState` | `Spec => []StateMatchesSocket` |
| `BranchSurvivesSelect` | `Spec => []BranchStaysValid` |
| `NoDataAfterDisconnect` | `"reset" \notin Faults` implies `Spec => DataWhileConnected` |
| `NoWaitWithoutRequest` | `MaxOwed > 0` implies `Spec => []NoPhantomWait` |
| `ClientKeepsPromise` | `Promising` implies `Spec => NotifiesAsPromised` |
| `TimerTypeCorrect`, `TimerKeepsPeriod` | `Spec => []TypeOK`, `Spec => []PeriodKept` |
| `TimerIsExact` | `Spec => ExactUntilWrap` |
| `ClientUsesTimers` | each of the client's timers behaves as `MqttTimer`'s `Spec` |
| `ClientTimersTypeCorrect` | `TimersSpec => []TimersTypeOK` |
| `ClientPingsOnTime`, `ClientGivesUpOnTime` | `TimersSpec => PingsOnTime`, `TimersSpec => GivesUpOnTime` |
| `BrokerTypeCorrect` | `Spec => []TypeOK` |
| `BrokerSafety` | `Spec => []IInv` |
| `BrokerFollowsListener` | `Spec => []StateMatchesListener` |
| `BrokerIsNotStoppedUnderTask` | `Spec => []ListenerStays` |
| `BrokerClosesClients` | `Spec => []OnlyResetsLeak` |
| `ExchangeTypeCorrect` | `Spec => []TypeOK` |
| `BufferKeepsPackets` | `Spec => []BufferHoldsPackets` |
| `ReaderAtEnds` | `Spec => []ReaderKeepsPace` |
| `ReadsOnlySurvivors` | `Spec` implies that the next packet is read as it was sent if and only if it survives and has room |
| `ReadsAsSent` | `Spec => ReadAsSent` |
| `ProgramsRunClient` | `ProgramsSpec => Spec` of the client |
| `ProgramsTypeCorrect` | `ProgramsSpec => []ProgramsTypesOK` |
| `ProgramsSafety` | `ProgramsSpec => []ProgramsInv` |
| `TopicsStayInRange` | `ProgramsSpec => []TopicInRange` |
| `SubscriberAsksOneAtATime` | `ProgramsSpec => []OneRequestAtATime` |
| `SubscriberSeesTheEnd` | `ProgramsSpec => []LoopEndsWithConnection` |
| `ExitCodeIsTrue` | `ProgramsSpec => []ExitTellsPublished` |

The argument for the client has three layers, each using the ones before.

1. *Types.* `LinkStep` reduces every action to the calls of `MqttSocket`
   (`CallsKeepType`, `EnvironmentKeepsType`); `ClientStep` does the rest.
2. *The mutex.* `LockDiscipline` is inductive with the types. A step takes the mutex,
   keeps it or gives it back: `LockTaken`, `LockKept`, `LockGivenBack`, `LockLost` and
   `LockEnds` are these cases, and `LockStep` goes through the actions. `NobodyUnder` says
   that a free mutex has no callback under it, so nothing is nested when the task takes it.
3. *Agreement.* `StateMatchesSocket` and `BranchStaysValid` are not inductive by
   themselves. `BranchStaysValid` needs to know which states the end of a connection can be
   told in while the task waits: only those after the CONNACK, since only these have
   operations that can lose a connection (`LossIsLate`). `StateMatchesSocket` needs that
   nobody is in the client when a fresh socket is connected (`FreshIsQuiet`). A read that is out of step is no exception: it does to the connection and to the threads what one that is in
   step may do. Together (`Agreement`) they are inductive over the mutex layer: a step keeps the relevant
   variables (`AgreementKept`), goes on without an end (`AgreementGoesOn`), or begins to
   tell an end (`AgreementEnds`).

The last part of `MqttClientProofs` adds two invariants to these. `NextCalls` says that whatever a step
of the client does, it does to the connection by one of the calls of `MqttSocket`, or it leaves the client out of
step (`StepsOut`).

- *Data.* `QuietWire`: without resets, what has been received goes with its connection. A step that
  gives data to a callback has read a packet (`DataIsRead`), from a connection that is there, and
  the agreement of state and socket says that the state is one of an established connection
  (`DataStep`). With resets this is false, see `late`.
- *Waits.* `WaitFounded` strengthens `NoPhantomWait`: on a healthy connection whose packets were read to their
  end (`framed`), a set flag has a request whose answer is pending, unless the task is in a callback after which
  the flag is cleared. Once a packet was not, nothing sets `framed` again on that connection, so the reads that
  stray need no argument. A request makes
  its answer pending (`RequestPends`); it stays so until the client reads it, through everything
  else that is sent, received or read (`PendingStays`); reading it enters such a callback or clears
  the flag. `MaxOwed > 0` only says that the bound lets a broker owe an answer at all.

`ClientKeepsPromise` is the refinement: the client implements `ClientNotify`, with the promise read
off the threads' places and the state (`Told`). A step of the client either leaves that value alone
or changes it as the abstract specification allows, and needs `NotifyInv` to know which:

- *NothingLost*: without resets no packet fails to be sent, so only the task tells an end.
- *TaskOnCourse*: the task tells of no refusal, says that an attempt has failed only while there is one,
  and is never in the wait for data of a connection that someone else has ended.
- *WireWhole*: a packet whose first bytes have come can be read to its end.
- *InStep*: the reader is in step with the packets, and every publication that has come is one that it
  understands: it is read to its end, or refused for its length (`Understood`, `UnderstoodStops`, `ReadsInStep`).
- *Greets*: what the broker says to a client first is one CONNACK that accepts it, and it never says that
  again; nothing is on the wire before the client has connected. It is what makes the connect
  callback of an established connection impossible, and it follows the answer from the request,
  through the debt of the broker and its packets, to the read.

Each hypothesis of `Promising` keeps out a behaviour that breaks the promise, and that TLC finds when
the hypothesis is dropped: a publication that is neither read to its end nor refused (`misread`), a reset with
another thread (`late`) or halfway through a packet, a refusal, the acknowledgement of a publication, and a disconnect callback
that sends. `notify` is an instance of the theorem, and so is one thread with resets; neither the number of
threads, nor the mutex, nor what other callbacks call is restricted.

For the timer, `IInv` joins the types, the period and `ClockFollows`, which says
that until the clock wraps it is ahead of the start time by the time elapsed. `Wraps` is
the arithmetic: a difference undoes a sum, whatever wraps. `ClientUsesTimers` shows that every step of
the client is a step of `MqttTimer`, or none, for each timer separately, and so brings what is proved
there to both. `ClientPingsOnTime` and `ClientGivesUpOnTime` need one invariant more each. During a
connection the keepalive timer counts the silence of the client, and its period is the keepalive
the broker was told (`KeepaliveCounts`); the response timer counts the time since the latest
request (`ResponseCounts`).

For the broker, `IInv` joins the types with the three safety properties, which are not inductive
alone: that nothing stops the task needs the mutex that the types tie to the task, and
that every open descriptor is served or reset needs `Known`: a client is in the queue at most
once and not accepted at the same time, and the one that is served has an open descriptor. That
survives an accept because the rest of a queue keeps its order, which is a lemma of its own.

The exchange needs to know of every packet what its serializer writes. `Serializable` packets are
`WellWritten`: their chunks are sequences of bytes, and, one after the other, they are the header and
the body (`PacketWritten`, with a lemma for each type). `StoredFits` says of a list of chunks that what is
stored is the front of it up to the first that does not fit, so that it is all of it exactly when the
writer never failed. `ExchangeInv` joins the types with `BufferHoldsPackets` and three facts that these
need: the two streams are records of numbers, every packet in `sent` has passed the checks of its
parameters, since the others have no bytes to speak of, and the reader was given what was written. A
serialization (`SerializeKeeps`) appends to `Written(sent)` the bytes that it appends to
the memory, or a front of them; it leaves what was there since it begins where the count is, and
that is why the pointer belongs to the types. A read keeps the types whatever the bytes are, stale ones
included: each deserializer, given any cursor, ends at one that is further along the same bytes
(`Follows`), with room for topics that only shrinks (`ReadPacketType`).

The flattening of sequences is a fold of the community modules, which is a recursive function in the end.
What it does to an append and to a concatenation (`FlattenAppend`, `FlattenConcat`) is proved by induction
on the length, as the well-foundedness of sets of numbers (`SetInduction`), which needs no operator as
parameter. `Cat` and `Piece` are concatenation and sequence under a name that the provers do not open,
and `Header` and `Body` of a packet are made with them. `LengthBytes`, `Stored` and `ReadConnect` are
stated without nesting what the provers would have to unfold at once.

`PacketReadBackProofs` joins the two sides. `ReadsBack` says of a packet and of what a deserializer has
made of its bytes that its values are those that were sent exactly when it survives and its
topic has room, and that the cursor is then at the byte after it, whatever follows. There is a lemma for
each type (`ConnectReadsBack`, `PublishReadsBack`, ...), made of lemmas for the calls
(`ReadByteAt`, `ReadU16At`, `ReadStringAt`, `ReadTopicAt`). `PacketReadsBack` puts the header before
them (`ReadHeaderAt`). That no other packet is read back needs the ways in which they are not:

- A length of 128 or more is read as one below 128, and what the deserializer has appended to the
  values it never takes away (`Follows`), so that they stay different from those that were sent.
- A string or a topic that is too long fails, as does the highest QoS in a list.
- A publication with a packet id has the id read after fewer bytes than it has or counted as
  more (`PublishReadsBack`), so that the size of the payload is wrong.
- The flags of a CONNECT with a will are read back for one QoS of the will, and only beside credentials
  (`ConnectFlagsBack`, case by case).

What does survive and has room is read as it was sent is the half that is a promise, and is stated by itself
(`ReadsAsSent`). `ReaderInv` is then inductive over `ExchangeInv`: as long as all packets have been read as they were sent,
what has been read is the first of them to the byte (`AtEnd`). `WrittenParts` splits what was written at any
packet and `UnreadIs` says that the unread part of the memory is the bytes after it, so that
the next call of the deserializer meets exactly the next packet (`DeserializeReads`).

The programs add to the client's steps, and never replace them (`ClientRuns`), so everything proved of
the client holds of them (`ProgramsRunClient`), the agreement of state and socket with it. Their own
invariant, `ProgramsInv`, says what the four properties need and do not say:

- The index counts the topics asked for, and it is not enough that it stays in range now: `main` and
  the callbacks advance it only in certain places, so `SubscriberInv` ties it to them. Before the
  broker has accepted the client it is 0; from its first request on, and so whenever the task reads a packet of
  a connected client, it is not (`LoopInv`). That is why bytes which only look like an answer cannot make it
  leave its range.
- An answer leads to the next request, so two answers would be two requests. `OneUnderWay` says
  that at most one SUBACK is owed or received, together, and `NoAnswer` that there is none, both as long as every
  packet was read to its end; that no request
  is made while there is one is the conjunct on `Handling`. Reading the answer
  (`AnswerEnds`), being owed it (`AnswerStarts`) and moving it from the broker to the receive
  buffer (`AnswerMoves`) are the only steps that touch it; the others are silent (`SilentSteps`).
- A loop without a connection has been told so: `LoopInv` adds that the subscriber is never in
  the state of a disconnect, which it does not ask for.
- The exit code is set inside a callback, from what the client knows there: `PublisherInv` says that the
  connect callback that tells success runs in a connected client and the others do not, and that the code
  is true of it from there to `exit`.

`TaskMoves` and `ReturnMoves` are what the client's task and the return of a callback can do as far as a
program sees; the invariant is proved from these and not from the client's twenty actions.

Only model-checked: the liveness properties, for liveness under fairness is out of the prover's
reach. Each invariant and each action property of the passing runs is stated by a theorem.

## 5. What is not modelled

- The Windows socket, except that its mutex is recursive and that its `shutdown` refuses a
  listening socket. The error codes, which are thread-local and read right after the call
  that sets them.
- The whole-packet deserializer (`mqtt_packet_deserialize.c`, lines 42-159): nothing in the library
  calls it, it sets its next state to the one it is in, and what it should do with the rest of a
  packet is not written.
- `SIGPIPE` when sending on a connection the peer has closed, a `send` that blocks because
  the peer does not read, and a descriptor number that the process reuses between a close
  and the task's `select`.
- The byte counters of the socket streams, which with `UINT32_MAX` as size leave room for all that a client
  receives; lengths of 2^28 and more; malformed packets. Lengths of three bytes are left out of the client
  (`SocketAssumption`), for its buffers have room for 512 and 1024 bytes, and are in the exchange.
- The contents of payloads: where the client takes them for packets they may be any. What a payload would
  overwrite that was misread as longer than its buffer of 1024 bytes: the model lets the reader wait for such a
  payload or hand it to the application, and changes nothing else.
- The sessions of the broker, which are declared and never created.
- Descriptors of earlier client connections, which are lost after a reset.
- Logging, versions, the output and the argument parsing of the examples. (Their usage text names
  `--user` and `--passwd`, their parser `--username` and `--password`, and the credentials are
  never given to the client, so no behaviour that is modelled depends on them.)

## 6. Plan

Done: all components whose state changes by more than I/O, each with its run; proofs for the
client with its refinement of `ClientNotify`, the timers, the broker and the programs, and for what the
exchange writes and reads.

1. The argument parser of the examples, if it comes to have an effect on the client.
