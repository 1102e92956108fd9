--------------------------- MODULE MqttBrokerProofs ---------------------------
(***************************************************************************)
(* What the runs check of the broker, for any number of clients, any       *)
(* backlog and either behaviour of shutdown.                               *)
(***************************************************************************)
EXTENDS MqttBroker, TLAPS

\* A client the kernel or the task knows has connected, and is known once.
Known ==
    /\ serving # NoClient => serving \in opened /\ peer[serving] # "out"
    /\ \A i \in 1..Len(queue) : peer[queue[i]] # "out" /\ queue[i] \notin opened
    /\ \A i, j \in 1..Len(queue) : queue[i] = queue[j] => i = j

IInv ==
    /\ TypeOK
    /\ StateMatchesListener
    /\ ListenerStays
    /\ OnlyResetsLeak
    /\ Known

\* What is left of a queue when its first is accepted is the rest of it, in
\* the same order (kernel, as accept takes from it).
LEMMA TailOfQueue ==
    ASSUME NEW S, NEW q \in Seq(S), q # <<>>
    PROVE  /\ Head(q) \in S
           /\ Head(q) = q[1]
           /\ Tail(q) \in Seq(S)
           /\ Len(q) \in Nat /\ Len(q) >= 1
           /\ Len(Tail(q)) = Len(q) - 1
           /\ \A i \in 1..Len(Tail(q)) : i + 1 \in 1..Len(q) /\ Tail(q)[i] = q[i + 1]
<1>1. Len(q) \in Nat /\ Len(q) >= 1
  OBVIOUS
<1>2. Head(q) \in S /\ Head(q) = q[1]
  OBVIOUS
<1>3. Tail(q) \in Seq(S) /\ Len(Tail(q)) = Len(q) - 1
  OBVIOUS
<1>4. ASSUME NEW i \in 1..Len(Tail(q))
      PROVE  i + 1 \in 1..Len(q) /\ Tail(q)[i] = q[i + 1]
  BY <1>1, <1>3
<1>5. QED
  BY <1>1, <1>2, <1>3, <1>4

\* The application's calls find no client between accept and close.
LEMMA ApplicationStep ==
    ASSUME IInv, BrokerAssumption,
           MqttBrokerInit \/ (\E a \in Addresses : MqttBrokerStart(a)) \/ MqttBrokerStop
    PROVE  IInv'
<1> USE BrokerAssumption DEF IInv, TypeOK, Free
<1>1. CASE MqttBrokerInit
  BY <1>1 DEF MqttBrokerInit, taskVars, clientVars, StateMatchesListener,
              ListenerStays, OnlyResetsLeak, Known
<1>2. ASSUME NEW a \in Addresses, MqttBrokerStart(a)
      PROVE  IInv'
  BY <1>2 DEF MqttBrokerStart, Listens, CanBind, taskVars, clientVars,
              StateMatchesListener, ListenerStays, OnlyResetsLeak, Known
<1>3. CASE MqttBrokerStop
  <2>1. TypeOK'
    BY <1>3 DEF MqttBrokerStop, StopEnters, taskVars
  <2>2. (StateMatchesListener /\ ListenerStays)'
    BY <1>3 DEF MqttBrokerStop, StopEnters, taskVars, StateMatchesListener, ListenerStays
  <2>3. OnlyResetsLeak'
    BY <1>3 DEF MqttBrokerStop, StopEnters, taskVars, OnlyResetsLeak
  <2>4. Known'
    <3>1. serving' = NoClient /\ queue' = <<>>
      BY <1>3 DEF MqttBrokerStop, StopEnters, taskVars
    <3>2. QED
      BY <3>1 DEF Known
  <2>5. QED
    BY <2>1, <2>2, <2>3, <2>4
<1>4. QED
  BY <1>1, <1>2, <1>3

\* The client that is accepted leaves the queue and is the one served.
LEMMA AcceptStep ==
    ASSUME IInv, BrokerAssumption, AcceptSucceeds
    PROVE  IInv'
<1> DEFINE c == Head(queue)
<1> USE BrokerAssumption DEF IInv, AcceptSucceeds, brokerVars
<1>1. /\ c \in Clients /\ c = queue[1]
      /\ Tail(queue) \in Seq(Clients)
      /\ Len(queue) \in Nat /\ Len(queue) >= 1
      /\ Len(Tail(queue)) = Len(queue) - 1
      /\ \A i \in 1..Len(Tail(queue)) :
            i + 1 \in 1..Len(queue) /\ Tail(queue)[i] = queue[i + 1]
  BY TailOfQueue DEF TypeOK
<1>2. TypeOK'
  BY <1>1 DEF TypeOK
<1>3. (StateMatchesListener /\ ListenerStays)'
  BY DEF StateMatchesListener, ListenerStays, TypeOK
<1>4. OnlyResetsLeak'
  BY <1>1 DEF OnlyResetsLeak, TypeOK
<1>5. Known'
  <2>1. peer[c] # "out" /\ c \notin opened
    BY <1>1 DEF Known
  <2>2. \A i \in 1..Len(queue') : peer[queue'[i]] # "out" /\ queue'[i] \notin opened'
    <3> SUFFICES ASSUME NEW i \in 1..Len(queue')
                 PROVE  peer[queue'[i]] # "out" /\ queue'[i] \notin opened'
      OBVIOUS
    <3>1. i + 1 \in 1..Len(queue) /\ queue'[i] = queue[i + 1]
      BY <1>1
    <3>2. queue[i + 1] # queue[1]
      BY <1>1, <3>1 DEF Known
    <3>3. QED
      BY <1>1, <3>1, <3>2 DEF Known
  <2>3. \A i, j \in 1..Len(queue') : queue'[i] = queue'[j] => i = j
    <3> SUFFICES ASSUME NEW i \in 1..Len(queue'), NEW j \in 1..Len(queue'),
                        queue'[i] = queue'[j]
                 PROVE  i = j
      OBVIOUS
    <3>1. /\ i + 1 \in 1..Len(queue) /\ queue'[i] = queue[i + 1]
          /\ j + 1 \in 1..Len(queue) /\ queue'[j] = queue[j + 1]
      BY <1>1
    <3>2. i + 1 = j + 1
      BY <3>1 DEF Known
    <3>3. QED
      BY <1>1, <3>2
  <2>4. QED
    BY <2>1, <2>2, <2>3 DEF Known
<1>6. QED
  BY <1>2, <1>3, <1>4, <1>5

\* Entering the task, an accept that fails, and the close.
LEMMA TaskStep ==
    ASSUME IInv, BrokerAssumption,
           TaskCallsAccept \/ AcceptInterrupted \/ AcceptExhausted \/ TaskCloses
    PROVE  IInv'
<1> USE BrokerAssumption DEF IInv, TypeOK, Free, LeaveTask
<1>1. CASE TaskCallsAccept
  BY <1>1 DEF TaskCallsAccept, brokerVars, clientVars, StateMatchesListener,
              ListenerStays, OnlyResetsLeak, Known
<1>2. CASE AcceptInterrupted
  <2>1. /\ UNCHANGED <<brokerVars, pointer, serving, crashed, clientVars>>
        /\ at = "accept" /\ at' = "idle" /\ held' = FALSE
    BY <1>2 DEF AcceptInterrupted
  <2>2. QED
    BY <2>1 DEF brokerVars, clientVars, StateMatchesListener, ListenerStays,
                OnlyResetsLeak, Known
<1>3. CASE AcceptExhausted
  BY <1>3 DEF AcceptExhausted, brokerVars, clientVars, StateMatchesListener,
              ListenerStays, OnlyResetsLeak, Known
<1>4. CASE TaskCloses
  <2>1. TypeOK'
    BY <1>4 DEF TaskCloses, CloseClient, brokerVars
  <2>2. (StateMatchesListener /\ ListenerStays)'
    BY <1>4 DEF TaskCloses, brokerVars, StateMatchesListener, ListenerStays
  <2>3. OnlyResetsLeak'
    BY <1>4 DEF TaskCloses, CloseClient, brokerVars, OnlyResetsLeak, Known
  <2>4. Known'
    BY <1>4 DEF TaskCloses, CloseClient, brokerVars, Known
  <2>5. QED
    BY <2>1, <2>2, <2>3, <2>4
<1>5. QED
  BY <1>1, <1>2, <1>3, <1>4

\* A client that connects is new to the kernel and to the task.
LEMMA ClientStep ==
    ASSUME IInv, BrokerAssumption, NEW c \in Clients,
           ClientConnects(c) \/ ClientResets(c)
    PROVE  IInv'
<1> USE BrokerAssumption DEF IInv, brokerVars, taskVars
<1>1. CASE ClientConnects(c)
  <2>1. /\ Len(queue) \in Nat
        /\ queue' \in Seq(Clients)
        /\ Len(queue') = Len(queue) + 1
        /\ queue'[Len(queue) + 1] = c
        /\ \A i \in 1..Len(queue) : queue'[i] = queue[i] /\ queue[i] \in Clients
    BY <1>1 DEF ClientConnects, TypeOK
  <2>2. TypeOK'
    BY <1>1, <2>1 DEF ClientConnects, TypeOK
  <2>3. (StateMatchesListener /\ ListenerStays)'
    BY <1>1 DEF ClientConnects, StateMatchesListener, ListenerStays
  <2>4. c \notin opened
    BY <1>1 DEF ClientConnects, OnlyResetsLeak, Known, TypeOK
  <2>5. OnlyResetsLeak'
    BY <1>1, <2>4 DEF ClientConnects, OnlyResetsLeak, TypeOK
  <2>6. \A i \in 1..Len(queue) : queue[i] # c
    BY <1>1 DEF ClientConnects, Known
  <2>7. \A i \in 1..Len(queue') : i \in 1..Len(queue) \/ i = Len(queue) + 1
    BY <2>1
  <2>8. \A i \in 1..Len(queue') : peer'[queue'[i]] # "out" /\ queue'[i] \notin opened'
    BY <1>1, <2>1, <2>4, <2>6, <2>7 DEF ClientConnects, Known, TypeOK
  <2>9. \A i, j \in 1..Len(queue') : queue'[i] = queue'[j] => i = j
    BY <2>1, <2>6, <2>7 DEF Known
  <2>10. serving' # NoClient => serving' \in opened' /\ peer'[serving'] # "out"
    BY <1>1 DEF ClientConnects, Known, TypeOK
  <2>11. QED
    BY <2>2, <2>3, <2>5, <2>8, <2>9, <2>10 DEF Known
<1>2. CASE ClientResets(c)
  <2>1. TypeOK'
    BY <1>2 DEF ClientResets, TypeOK
  <2>2. (StateMatchesListener /\ ListenerStays)'
    BY <1>2 DEF ClientResets, StateMatchesListener, ListenerStays
  <2>3. OnlyResetsLeak'
    BY <1>2 DEF ClientResets, OnlyResetsLeak, TypeOK
  <2>4. \A d \in Clients : peer[d] # "out" => peer'[d] # "out"
    BY <1>2 DEF ClientResets, TypeOK
  <2>5. \A i \in 1..Len(queue) : queue[i] \in Clients
    BY DEF TypeOK
  <2>6. Known'
    BY <1>2, <2>4, <2>5 DEF ClientResets, Known, TypeOK, clientVars
  <2>7. QED
    BY <2>1, <2>2, <2>3, <2>6
<1>3. QED
  BY <1>1, <1>2

\* The invariant holds of every state the broker reaches.
THEOREM BrokerSafety == Spec => []IInv
<1>1. Init => IInv
  <2> SUFFICES ASSUME Init PROVE IInv
    OBVIOUS
  <2>1. queue \in Seq(Clients) /\ Len(queue) = 0
    BY DEF Init
  <2>2. TypeOK
    BY <2>1, BrokerAssumption DEF Init, TypeOK
  <2>3. StateMatchesListener /\ ListenerStays /\ OnlyResetsLeak
    BY DEF Init, StateMatchesListener, ListenerStays, OnlyResetsLeak
  <2>4. Known
    BY <2>1 DEF Init, Known
  <2>5. QED
    BY <2>2, <2>3, <2>4 DEF IInv
<1>2. IInv /\ [Next]_vars => IInv'
  <2> SUFFICES ASSUME IInv, [Next]_vars PROVE IInv'
    OBVIOUS
  <2>1. CASE UNCHANGED vars
    BY <2>1 DEF vars, brokerVars, taskVars, clientVars, IInv, TypeOK,
                StateMatchesListener, ListenerStays, OnlyResetsLeak, Known
  <2>2. CASE Next
    BY <2>2, BrokerAssumption, ApplicationStep, AcceptStep, TaskStep, ClientStep DEF Next
  <2>3. QED
    BY <2>1, <2>2
<1>3. QED
  BY <1>1, <1>2, PTL DEF Spec

\* The task holds the mutex, and serves a client, exactly where it should.
THEOREM BrokerTypeCorrect == Spec => []TypeOK
<1>1. IInv => TypeOK
  BY DEF IInv
<1>2. QED
  BY <1>1, BrokerSafety, PTL

\* The state says RUNNING exactly while the listen socket listens, whatever
\* address was asked for and whatever socket was forgotten (init, start, stop).
THEOREM BrokerFollowsListener == Spec => []StateMatchesListener
<1>1. IInv => StateMatchesListener
  BY DEF IInv
<1>2. QED
  BY <1>1, BrokerSafety, PTL

\* Nobody stops the broker while its task waits or closes a client.
THEOREM BrokerIsNotStoppedUnderTask == Spec => []ListenerStays
<1>1. IInv => ListenerStays
  BY DEF IInv
<1>2. QED
  BY <1>1, BrokerSafety, PTL

\* The task closes every client it accepts that is still there; only the
\* descriptors of connections the client reset stay open.
THEOREM BrokerClosesClients == Spec => []OnlyResetsLeak
<1>1. IInv => OnlyResetsLeak
  BY DEF IInv
<1>2. QED
  BY <1>1, BrokerSafety, PTL
===============================================================================
