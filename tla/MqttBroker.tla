------------------------------ MODULE MqttBroker ------------------------------
(***************************************************************************)
(* The broker (broker/mqtt_broker.c) as far as it is written: it listens,  *)
(* accepts every client and closes it at once, for it never has a session. *)
(*                                                                         *)
(* Every operation takes the mutex, works and releases it.  Start and stop *)
(* never wait in between and are single steps; the task waits in accept    *)
(* with the mutex held.  The kernel keeps the clients that have connected  *)
(* and have not been accepted, in the order they came.                     *)
(***************************************************************************)
EXTENDS Naturals, Sequences, FiniteSets

CONSTANTS
    Clients,         \* the remote ends
    NoClient,
    Addresses,       \* pairs of an IP address and a port, no two of which clash
    NoAddress,
    Backlog,         \* clients the kernel queues, SOMAXCONN
    MaxOpen,         \* descriptors the process has for accepted clients
    ShutdownWorks,   \* shutdown accepts a listening socket: Linux, not Windows
    Pointers         \* what the uninitialized pointer of the task may hold

ASSUME BrokerAssumption ==
    /\ NoClient \notin Clients
    /\ NoAddress \notin Addresses
    /\ Backlog \in Nat
    /\ MaxOpen \in Nat
    /\ ShutdownWorks \in BOOLEAN
    /\ Pointers \subseteq {"null", "wild", "memory"}

VARIABLES
    state,     \* mqtt_broker_t.state
    listener,  \* the descriptor in mqtt_broker_t.listen_socket
    address,   \* what that descriptor is bound to
    orphaned,  \* addresses of bound descriptors that init has forgotten
    held,      \* the task holds the mutex
    at,        \* where the task is
    pointer,   \* client_mqtt_socket in the last call of the task
    serving,   \* the client the task has just accepted
    crashed,   \* the task has written through a pointer to nowhere
    queue,     \* clients connected and not accepted
    peer,      \* the far end of the connection of each client
    opened     \* accepted clients whose descriptor is open

brokerVars == <<state, listener, address, orphaned>>
taskVars == <<held, at, pointer, serving, crashed>>
clientVars == <<queue, peer, opened>>
vars == <<brokerVars, taskVars, clientVars>>

\* The types, the mutex that is held exactly inside of the task, the client that
\* is known exactly between accept and close, and the address of a bound socket.
TypeOK ==
    /\ state \in {"NOT_INITIALIZED", "STOPPED", "RUNNING"}
    /\ listener \in {"none", "open", "bound", "listening", "closed"}
    /\ address \in Addresses \cup {NoAddress}
    /\ orphaned \subseteq Addresses
    /\ listener \in {"bound", "listening"} => address \in Addresses \ orphaned
    /\ held = (at # "idle")
    /\ at \in {"idle", "accept", "close"}
    /\ pointer \in {"null", "wild", "memory"}
    /\ serving \in Clients \cup {NoClient}
    /\ at = "close" <=> serving # NoClient
    /\ crashed \in BOOLEAN
    /\ queue \in Seq(Clients)
    /\ peer \in [Clients -> {"out", "up", "reset"}]
    /\ opened \subseteq Clients

\* A mqtt_broker_t in static storage is all zeros before mqtt_broker_init.
Init ==
    /\ state = "NOT_INITIALIZED"
    /\ listener = "none"
    /\ address = NoAddress
    /\ orphaned = {}
    /\ held = FALSE
    /\ at = "idle"
    /\ pointer = "null"
    /\ serving = NoClient
    /\ crashed = FALSE
    /\ queue = <<>>
    /\ peer = [c \in Clients |-> "out"]
    /\ opened = {}

Free == ~held /\ ~crashed

(***************************************************************************)
(* The calls of the application.  One that fails before it has changed     *)
(* anything is a stuttering step.                                          *)
(***************************************************************************)

\* The structure is filled with zeros: the descriptor of an earlier socket is
\* forgotten, bound or not, and keeps its address.  The socket or the mutex may
\* fail to be created.  The application does not call it on a broker that runs.
MqttBrokerInit ==
    /\ Free
    /\ state # "RUNNING"
    /\ orphaned' = IF listener = "bound" THEN orphaned \cup {address} ELSE orphaned
    /\ address' = NoAddress
    /\ \/ listener' = "none" /\ state' = "NOT_INITIALIZED"
       \/ listener' = "open" /\ state' \in {"NOT_INITIALIZED", "STOPPED"}
    /\ UNCHANGED <<taskVars, clientVars>>

\* A socket is bound once, and to an address that no other socket is bound to.
CanBind(a) == listener = "open" /\ a \notin orphaned

\* Faulty: the result of listen is not looked at.
ListensUnseen ==
    /\ listener' \in {"listening", "bound"}
    /\ state' = "RUNNING"

\* listen may fail when bind has not; the socket then stays bound.
Listens ==
    \/ listener' = "listening" /\ state' = "RUNNING"
    \/ listener' = "bound" /\ UNCHANGED state

MqttBrokerStart(a) ==
    /\ Free
    /\ state = "STOPPED"
    /\ CanBind(a)
    /\ address' = a
    /\ Listens
    /\ UNCHANGED <<orphaned, taskVars, clientVars>>

\* Faulty: stop does not take the mutex.
Alone == ~crashed

\* What stop waits for.
StopEnters == Free

\* The kernel resets the clients it has queued.  Where shutdown refuses a
\* listening socket, close is never called and stop changes nothing.
MqttBrokerStop ==
    /\ StopEnters
    /\ state = "RUNNING"
    /\ ShutdownWorks
    /\ listener' = "closed"
    /\ state' = "STOPPED"
    /\ queue' = <<>>
    /\ peer' = [c \in Clients |-> IF c \in opened THEN peer[c] ELSE "out"]
    /\ UNCHANGED <<address, orphaned, taskVars, opened>>

(***************************************************************************)
(* mqtt_broker_task.                                                       *)
(***************************************************************************)

\* There is no session, so the pointer given to accept is the value of a
\* variable that was never written.  A null one is refused at once.
TaskCallsAccept ==
    /\ Free
    /\ state = "RUNNING"
    /\ pointer' \in Pointers
    /\ held' = (pointer' # "null")
    /\ at' = IF pointer' = "null" THEN "idle" ELSE "accept"
    /\ UNCHANGED <<brokerVars, serving, crashed, clientVars>>

\* Faulty: a return without the unlock.
LeaveLocked == at' = "idle" /\ UNCHANGED held

LeaveTask == at' = "idle" /\ held' = FALSE

Exhausted == Cardinality(opened) >= MaxOpen

\* The first of the queue is accepted, and its descriptor written through the
\* pointer: to nowhere, or to memory that the close reads it back from.
AcceptSucceeds ==
    /\ at = "accept"
    /\ ~crashed
    /\ queue # <<>>
    /\ ~Exhausted
    /\ queue' = Tail(queue)
    /\ opened' = opened \cup {Head(queue)}
    /\ serving' = Head(queue)
    /\ at' = "close"
    /\ crashed' = (pointer = "wild")
    /\ UNCHANGED <<brokerVars, held, pointer, peer>>

\* A signal interrupts the wait.
AcceptInterrupted ==
    /\ at = "accept"
    /\ ~crashed
    /\ queue = <<>>
    /\ LeaveTask
    /\ UNCHANGED <<brokerVars, pointer, serving, crashed, clientVars>>

\* The process has no descriptor left: the client stays in the queue.
AcceptExhausted ==
    /\ at = "accept"
    /\ ~crashed
    /\ queue # <<>>
    /\ Exhausted
    /\ LeaveTask
    /\ UNCHANGED <<brokerVars, pointer, serving, crashed, clientVars>>

\* Faulty: the client is not closed.
KeepClient(c) == UNCHANGED <<opened, peer>>

\* shutdown fails when the client has reset the connection; close is then
\* never called and nobody knows the descriptor any more.
CloseClient(c) ==
    IF peer[c] = "up"
    THEN opened' = opened \ {c} /\ peer' = [peer EXCEPT ![c] = "out"]
    ELSE UNCHANGED <<opened, peer>>

TaskCloses ==
    /\ at = "close"
    /\ ~crashed
    /\ CloseClient(serving)
    /\ serving' = NoClient
    /\ LeaveTask
    /\ UNCHANGED <<brokerVars, pointer, crashed, queue>>

(***************************************************************************)
(* The clients and the kernel.                                             *)
(***************************************************************************)

ClientConnects(c) ==
    /\ listener = "listening"
    /\ ~crashed
    /\ peer[c] = "out"
    /\ Len(queue) < Backlog
    /\ queue' = Append(queue, c)
    /\ peer' = [peer EXCEPT ![c] = "up"]
    /\ UNCHANGED <<brokerVars, taskVars, opened>>

\* A client that is still queued stays in the queue.
ClientResets(c) ==
    /\ ~crashed
    /\ peer[c] = "up"
    /\ peer' = [peer EXCEPT ![c] = "reset"]
    /\ UNCHANGED <<brokerVars, taskVars, queue, opened>>

Next ==
    \/ MqttBrokerInit
    \/ \E a \in Addresses : MqttBrokerStart(a)
    \/ MqttBrokerStop
    \/ TaskCallsAccept
    \/ AcceptSucceeds \/ AcceptInterrupted \/ AcceptExhausted
    \/ TaskCloses
    \/ \E c \in Clients : ClientConnects(c) \/ ClientResets(c)

Spec == Init /\ [][Next]_vars

\* The loop of lw-mqtt-broker calls the task again and again, accept answers
\* when there is a client or no descriptor, and close returns.
Fairness ==
    /\ WF_vars(TaskCallsAccept)
    /\ WF_vars(AcceptSucceeds)
    /\ WF_vars(AcceptExhausted)
    /\ WF_vars(TaskCloses)

FairSpec == Spec /\ Fairness

(***************************************************************************)
(* Properties.                                                             *)
(***************************************************************************)

\* The state says RUNNING exactly while clients can connect, through failing
\* starts, stops and initialisations that forget a socket (mqtt_broker.c, start
\* and stop).
StateMatchesListener == state = "RUNNING" <=> listener = "listening"

\* The socket the task waits on, and the broker whose client it closes, are
\* not stopped under it: that is what accepting with the mutex held is for.
ListenerStays ==
    at # "idle" => state = "RUNNING" /\ listener = "listening"

\* A descriptor that the task does not close belongs to a client that reset
\* its connection, and the connection of every client that is still there
\* ends in the call of the task that accepted it.
OnlyResetsLeak == \A c \in opened : serving = c \/ peer[c] = "reset"

\* A client that waits in the queue is accepted or gone in the end, unless the
\* pointer is null from some time on, the process has crashed, or the resets
\* have used up its descriptors.
ClientIsAnswered ==
    []<>(pointer # "null") =>
        \A c \in Clients :
            (\E i \in DOMAIN queue : queue[i] = c)
                ~> \/ \A i \in DOMAIN queue : queue[i] # c
                   \/ crashed
                   \/ Exhausted

\* Whoever waits for the mutex while the task accepts, as stop does, gets it
\* once a client connects.
ClientFreesMutex == (held /\ queue # <<>>) ~> (~held \/ crashed)
===============================================================================
