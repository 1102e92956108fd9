------------------------------- MODULE MqttTimer -------------------------------
(***************************************************************************)
(* The timers of the client (time/mqtt_timer.c): one for the keepalive,    *)
(* that restarts by itself, one for the answer of the broker.              *)
(*                                                                         *)
(* Times are uint32_t counts of milliseconds.  Their values are 0..Mod-1,  *)
(* and a sum or a difference of two of them wraps at most once, so Plus    *)
(* and Minus are addition and subtraction modulo Mod.                      *)
(***************************************************************************)
EXTENDS Naturals

CONSTANTS
    Mod,         \* values of a time, 2^32 in the code
    Timeouts,    \* timeouts the client starts its timers with
    MaxElapsed   \* bound: time that passes while a timer is not restarted

ASSUME TimerAssumption ==
    /\ Mod \in Nat \ {0}
    /\ Timeouts \subseteq 0..Mod - 1
    /\ MaxElapsed \in Nat

VARIABLES
    clock,            \* what mqtt_time_get_current returns
    start_time,       \* mqtt_timer_t.start_time
    expiration_time,  \* mqtt_timer_t.expiration_time
    auto_restart,     \* mqtt_timer_t.auto_restart
    has_expired,      \* the last answer of mqtt_timer_has_expired
    timeout,          \* the timeout the timer was started with
    elapsed           \* time since the timer was last started or restarted

vars == <<clock, start_time, expiration_time, auto_restart, has_expired,
          timeout, elapsed>>

Times == 0..Mod - 1

\* Faulty: times wider than the fields of a timer.
PlusUnbounded(a, b) == a + b

Plus(a, b) == IF a + b < Mod THEN a + b ELSE a + b - Mod
Minus(a, b) == IF b <= a THEN a - b ELSE a + Mod - b

TypeOK ==
    /\ clock \in Times
    /\ start_time \in Times
    /\ expiration_time \in Times
    /\ auto_restart \in BOOLEAN
    /\ has_expired \in BOOLEAN
    /\ timeout \in Times
    /\ elapsed \in Nat

\* mqtt_client_init fills the timers with zeros.
Init ==
    /\ clock \in Times
    /\ start_time = 0
    /\ expiration_time = 0
    /\ auto_restart = FALSE
    /\ has_expired = FALSE
    /\ timeout = 0
    /\ elapsed = clock

\* Before a connection mqtt_client_init clears the timers, which are not running.
Clear ==
    /\ start_time' = 0
    /\ expiration_time' = 0
    /\ auto_restart' = FALSE
    /\ has_expired' = FALSE
    /\ timeout' = 0
    /\ elapsed' = clock
    /\ UNCHANGED clock

MqttTimerStart ==
    /\ timeout' \in Timeouts
    /\ auto_restart' \in BOOLEAN
    /\ start_time' = clock
    /\ expiration_time' = Plus(clock, timeout')
    /\ elapsed' = 0
    /\ UNCHANGED <<clock, has_expired>>

\* Faulty: the start time is written before the period is computed from it.
RestartsLate ==
    /\ start_time' = clock
    /\ expiration_time' = Plus(clock, Minus(expiration_time, clock))
    /\ elapsed' = 0

\* The period is not stored: it is the distance of the two times.
Restarts ==
    /\ start_time' = clock
    /\ expiration_time' = Plus(clock, Minus(expiration_time, start_time))
    /\ elapsed' = 0

MqttTimerReset ==
    /\ Restarts
    /\ UNCHANGED <<clock, auto_restart, has_expired, timeout>>

\* Faulty: the timer expires one tick late.
PassedExpiration == clock > expiration_time

ReachedExpiration == clock >= expiration_time

MqttTimerHasExpired ==
    /\ has_expired' = ReachedExpiration
    /\ IF has_expired' /\ auto_restart
       THEN Restarts
       ELSE UNCHANGED <<start_time, expiration_time, elapsed>>
    /\ UNCHANGED <<clock, auto_restart, timeout>>

Tick ==
    /\ elapsed < MaxElapsed
    /\ clock' = Plus(clock, 1)
    /\ elapsed' = elapsed + 1
    /\ UNCHANGED <<start_time, expiration_time, auto_restart, has_expired,
                   timeout>>

Next == Clear \/ MqttTimerStart \/ MqttTimerReset \/ MqttTimerHasExpired \/ Tick

Spec == Init /\ [][Next]_vars

(***************************************************************************)
(* Properties.                                                             *)
(***************************************************************************)

\* The timer keeps its period through any number of resets and automatic
\* restarts, although it is only stored as a difference of two times either
\* of which may have wrapped (mqtt_timer_reset, mqtt_timer_has_expired).
PeriodKept == Minus(expiration_time, start_time) = timeout

\* The clock is ahead of the start time by the time that has passed.
ClockFollows ==
    start_time + elapsed < Mod => clock = start_time + elapsed

\* Neither the expiration time nor the clock wraps after the timer starts.
NoWrap == start_time + timeout < Mod /\ start_time + elapsed < Mod

\* Until a time wraps the timer is exact: it has expired when the timeout has
\* passed, and not before, after any number of restarts (mqtt_timer_has_expired).
ExactUntilWrap ==
    [][MqttTimerHasExpired /\ NoWrap => (has_expired' <=> elapsed >= timeout)]_vars

\* The inductive invariant.
IInv == TypeOK /\ PeriodKept /\ ClockFollows
===============================================================================
