---------------------------- MODULE MqttTimerProofs ----------------------------
(***************************************************************************)
(* Proofs about the timers, for every width of a time: a timer keeps its   *)
(* period whatever wraps, and is exact until a time wraps.                 *)
(***************************************************************************)
EXTENDS MqttTimer, TLAPS

\* A sum and a difference of times are times, and the difference undoes the sum.
LEMMA Wraps ==
    ASSUME NEW a \in Times, NEW b \in Times
    PROVE  /\ Plus(a, b) \in Times
           /\ Minus(a, b) \in Times
           /\ Minus(Plus(a, b), a) = b
BY TimerAssumption DEF Times, Plus, Minus

LEMMA TimerInit == Init => IInv
<1> SUFFICES ASSUME Init PROVE IInv
  OBVIOUS
<1>1. TypeOK
  <2>1. 0 \in Times
    BY TimerAssumption DEF Times
  <2>2. clock \in Nat
    BY TimerAssumption DEF Init, Times
  <2> QED
    BY <2>1, <2>2 DEF Init, TypeOK
<1>2. PeriodKept
  BY DEF Init, PeriodKept, Minus
<1>3. ClockFollows
  BY TimerAssumption DEF Init, ClockFollows, Times
<1> QED
  BY <1>1, <1>2, <1>3 DEF IInv

\* A restart, by a reset or by the timer itself, keeps the period.
LEMMA RestartKeepsPeriod ==
    ASSUME IInv, Restarts
    PROVE  /\ start_time' = clock
           /\ elapsed' = 0
           /\ expiration_time' = Plus(clock, timeout)
           /\ expiration_time' \in Times
           /\ Minus(expiration_time', start_time') = timeout
<1>1. clock \in Times /\ timeout \in Times
  BY DEF IInv, TypeOK
<1>2. expiration_time' = Plus(clock, timeout)
  BY DEF IInv, PeriodKept, Restarts
<1> QED
  BY <1>1, <1>2, Wraps DEF Restarts

LEMMA TimerStep == IInv /\ [Next]_vars => IInv'
<1> SUFFICES ASSUME IInv, [Next]_vars PROVE IInv'
  OBVIOUS
<1> USE DEF IInv, TypeOK, PeriodKept, ClockFollows
<1>1. CASE MqttTimerStart
  <2>1. timeout' \in Times
    BY <1>1, TimerAssumption DEF MqttTimerStart, Times
  <2>2. /\ Plus(clock, timeout') \in Times
        /\ Minus(Plus(clock, timeout'), clock) = timeout'
    BY <2>1, Wraps
  <2> QED
    BY <1>1, <2>1, <2>2 DEF MqttTimerStart, Times
<1>2. CASE MqttTimerReset
  BY <1>2, RestartKeepsPeriod DEF MqttTimerReset, Times
<1>3. CASE MqttTimerHasExpired
  <2>0. has_expired' \in BOOLEAN
    BY <1>3 DEF MqttTimerHasExpired, ReachedExpiration
  <2>1. CASE has_expired' /\ auto_restart
    BY <1>3, <2>0, <2>1, RestartKeepsPeriod DEF MqttTimerHasExpired, Times
  <2>2. CASE ~(has_expired' /\ auto_restart)
    BY <1>3, <2>0, <2>2 DEF MqttTimerHasExpired
  <2> QED
    BY <2>1, <2>2
<1>4. CASE Tick
  <2>1. clock' \in Times /\ elapsed' \in Nat
    BY <1>4, TimerAssumption DEF Tick, Plus, Times
  <2>2. start_time + elapsed' < Mod => clock' = start_time + elapsed'
    BY <1>4, TimerAssumption DEF Tick, Plus, Times
  <2> QED
    BY <1>4, <2>1, <2>2 DEF Tick
<1>5. CASE Clear
  <2>1. 0 \in Times /\ Minus(0, 0) = 0
    BY TimerAssumption DEF Times, Minus
  <2>2. TypeOK'
    <3>1. auto_restart' \in BOOLEAN /\ has_expired' \in BOOLEAN
      BY <1>5, Zenon DEF Clear
    <3>2. /\ {clock', start_time', expiration_time', timeout'} \subseteq Times
          /\ elapsed' \in Nat
      BY <1>5, <2>1 DEF Clear, Times
    <3> QED
      BY <3>1, <3>2, Zenon
  <2>3. PeriodKept'
    BY <1>5, <2>1 DEF Clear
  <2>4. ClockFollows'
    BY <1>5 DEF Clear, Times
  <2> QED
    BY <2>2, <2>3, <2>4
<1>6. CASE UNCHANGED vars
  BY <1>6 DEF vars
<1> QED
  BY <1>1, <1>2, <1>3, <1>4, <1>5, <1>6 DEF Next

\* The answer of one poll, before a time has wrapped.
LEMMA PollIsExact ==
    ASSUME IInv, MqttTimerHasExpired, NoWrap
    PROVE  has_expired' <=> elapsed >= timeout
<1>1. clock = start_time + elapsed
  BY DEF IInv, ClockFollows, NoWrap
<1>2. expiration_time = start_time + timeout
  BY TimerAssumption DEF IInv, TypeOK, PeriodKept, NoWrap, Minus, Times
<1>3. clock >= expiration_time <=> elapsed >= timeout
  BY <1>1, <1>2 DEF IInv, TypeOK, Times
<1>4. has_expired' <=> clock >= expiration_time
  BY Zenon DEF MqttTimerHasExpired, ReachedExpiration
<1> QED
  BY <1>3, <1>4

\* The variables of a timer have their types.
THEOREM TimerTypeCorrect == Spec => []TypeOK
<1>1. IInv => TypeOK
  BY DEF IInv
<1> QED
  BY <1>1, TimerInit, TimerStep, PTL DEF Spec

\* A timer keeps the period it was started with through every reset and every
\* automatic restart, for every width of a time and whatever wraps
\* (mqtt_timer_reset, mqtt_timer_has_expired).
THEOREM TimerKeepsPeriod == Spec => []PeriodKept
<1>1. IInv => PeriodKept
  BY DEF IInv
<1> QED
  BY <1>1, TimerInit, TimerStep, PTL DEF Spec

\* Until a time wraps, mqtt_timer_has_expired tells that the timeout of the
\* timer has passed exactly when it has.
THEOREM TimerIsExact == Spec => ExactUntilWrap
<1>1. IInv /\ [Next]_vars
        => [MqttTimerHasExpired /\ NoWrap => (has_expired' <=> elapsed >= timeout)]_vars
  BY PollIsExact
<1> QED
  BY <1>1, TimerInit, TimerStep, PTL DEF Spec, ExactUntilWrap
===============================================================================
