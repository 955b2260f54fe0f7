--------------------------- MODULE CircuitBreaker ---------------------------
(***************************************************************************)
(* One provider's circuit breaker, godwit-api/src/circuit_breaker.rs, used *)
(* by concurrent callers that ask can_execute, do their work and report    *)
(* the outcome, while the admin API polls state().                         *)
(*                                                                         *)
(* Every atomic operation and every critical section of the state lock is  *)
(* one step.  The stores that record_success and record_failure make under *)
(* that lock belong to the locked step: no other code reads two of these   *)
(* variables without taking the lock in between.                           *)
(*                                                                         *)
(* Instants are ages: seconds since the instant, saturating at Timeout,    *)
(* which is all that elapsed() >= timeout can tell apart.  failures        *)
(* saturates at Threshold for the same reason.  successes is never read.   *)
(***************************************************************************)
EXTENDS Integers, FiniteSets

CONSTANTS
    Threads,      \* concurrent users of the breaker
    Threshold,    \* failures that open the circuit
    Timeout,      \* seconds an open circuit waits before it is probed
    HalfOpenMax,  \* probes a half-open circuit lets through
    Usize         \* AtomicUsize counts modulo Usize (2^64 in the code)

ASSUME CircuitBreakerAssumption ==
    /\ Threshold \in Nat \ {0}
    /\ Timeout \in Nat \ {0}
    /\ HalfOpenMax \in Nat \ {0}
    /\ Usize \in Nat
    /\ IsFiniteSet(Threads)
    /\ HalfOpenMax + Cardinality(Threads) < Usize

NoFailure == -1

VARIABLES
    state,               \* behind the state lock
    failures,            \* failures since the last reset
    last_failure,        \* age of the last recorded failure, or NoFailure
    half_open_requests,  \* probes reserved
    phase,                  \* where each caller is
    stamp,               \* age of the Instant a caller in record_failure has read
    \* The rest is history.
    granted,             \* reservations granted since half_open_requests was last reset
    owed,                \* reservations that were about to be given back when it was reset
    passed,              \* requests the Open arm let through since the circuit half-opened
    looking              \* callers that were in the Open arm when the circuit half-opened

probes == <<granted, owed, passed, looking>>

breaker_vars == <<state, failures, last_failure, half_open_requests, phase, stamp, probes>>

Older(age) == IF age = NoFailure \/ age = Timeout THEN age ELSE age + 1

\* fetch_add and fetch_sub wrap around.
FetchAdd(n) == IF n = Usize - 1 THEN 0 ELSE n + 1
FetchSub(n) == IF n = 0 THEN Usize - 1 ELSE n - 1

CountedFailures == IF failures < Threshold THEN failures + 1 ELSE failures

InPhase(p) == {c \in Threads : phase[c] = p}

Expired == last_failure = Timeout

BreakerInit ==
    /\ state = "Closed"
    /\ failures = 0
    /\ last_failure = NoFailure
    /\ half_open_requests = 0
    /\ phase = [c \in Threads |-> "idle"]
    /\ stamp = [c \in Threads |-> 0]
    /\ granted = 0 /\ owed = 0 /\ passed = 0 /\ looking = 0

-----------------------------------------------------------------------------

\* state(): under the write lock, an open circuit whose timeout has passed half-opens.
CurrentState == IF state = "Open" /\ Expired THEN "HalfOpen" ELSE state

ReadState ==
    /\ state' = CurrentState
    /\ IF state = "Open" /\ Expired
       THEN passed' = 0 /\ looking' = Cardinality(InPhase("open"))
       ELSE UNCHANGED <<passed, looking>>
    /\ UNCHANGED <<granted, owed>>

\* The three arms of the match in can_execute.
Arm(s) == IF s = "Closed" THEN "allowed" ELSE IF s = "Open" THEN "open" ELSE "reserve"

\* can_execute, first step: what it does next depends on the state it was shown.
CanExecute(c) ==
    /\ phase[c] = "idle"
    /\ ReadState
    /\ phase' = [phase EXCEPT ![c] = Arm(CurrentState)]
    /\ UNCHANGED <<failures, last_failure, half_open_requests, stamp>>

\* can_execute, Open arm: a second look at last_failure, without the state lock.  Another
\* caller may have half-opened the circuit by then; no probe is reserved.
ReadLastFailure(c) ==
    LET passes == Expired \/ last_failure = NoFailure IN
    /\ phase[c] = "open"
    /\ phase' = [phase EXCEPT ![c] = IF passes THEN "allowed" ELSE "idle"]
    /\ passed' = IF passes /\ state = "HalfOpen" THEN passed + 1 ELSE passed
    /\ UNCHANGED <<state, failures, last_failure, half_open_requests, stamp, granted, owed, looking>>

\* can_execute, HalfOpen arm: reserve a probe, without the state lock ...
Reserve(c) ==
    /\ phase[c] = "reserve"
    /\ half_open_requests' = FetchAdd(half_open_requests)
    /\ phase' = [phase EXCEPT ![c] = IF half_open_requests < HalfOpenMax THEN "allowed" ELSE "giveback"]
    /\ granted' = IF half_open_requests < HalfOpenMax THEN granted + 1 ELSE granted
    /\ UNCHANGED <<state, failures, last_failure, stamp, owed, passed, looking>>

\* ... and give it back when there was none left.
GiveBack(c) ==
    /\ phase[c] = "giveback"
    /\ half_open_requests' = FetchSub(half_open_requests)
    /\ phase' = [phase EXCEPT ![c] = "idle"]
    /\ UNCHANGED <<state, failures, last_failure, stamp, probes>>

\* The end of a half-open period, whose reservations are forgotten.
EndProbes ==
    IF state = "HalfOpen"
    THEN granted' = 0 /\ owed' = Cardinality(InPhase("giveback")) /\ passed' = 0 /\ looking' = 0
    ELSE UNCHANGED probes

RecordSuccess(c) ==
    /\ phase[c] = "allowed"
    /\ state' = IF state = "HalfOpen" THEN "Closed" ELSE state
    /\ failures' = IF state = "Open" THEN failures ELSE 0
    /\ half_open_requests' = IF state = "HalfOpen" THEN 0 ELSE half_open_requests
    /\ EndProbes
    /\ phase' = [phase EXCEPT ![c] = "idle"]
    /\ UNCHANGED <<last_failure, stamp>>

\* record_failure: count, read the clock, store the instant, and take the state lock.
CountFailure(c) ==
    /\ phase[c] = "allowed"
    /\ failures' = CountedFailures
    /\ phase' = [phase EXCEPT ![c] = "clock"]
    /\ UNCHANGED <<state, last_failure, half_open_requests, stamp, probes>>

ReadClock(c) ==
    /\ phase[c] = "clock"
    /\ stamp' = [stamp EXCEPT ![c] = 0]
    /\ phase' = [phase EXCEPT ![c] = "store"]
    /\ UNCHANGED <<state, failures, last_failure, half_open_requests, probes>>

StoreLastFailure(c) ==
    /\ phase[c] = "store"
    /\ last_failure' = stamp[c]
    /\ phase' = [phase EXCEPT ![c] = "judge"]
    /\ UNCHANGED <<state, failures, half_open_requests, stamp, probes>>

TripsAbove == failures > Threshold
Trips == failures >= Threshold

\* Mutant: the reservations of a half-open period outlive it.
JudgeKeepsProbes(c) ==
    /\ phase[c] = "judge"
    /\ state' = IF state = "HalfOpen" \/ (state = "Closed" /\ Trips) THEN "Open" ELSE state
    /\ EndProbes
    /\ phase' = [phase EXCEPT ![c] = "idle"]
    /\ stamp' = [stamp EXCEPT ![c] = 0]
    /\ UNCHANGED <<failures, last_failure, half_open_requests>>

Judge(c) ==
    /\ phase[c] = "judge"
    /\ state' = IF state = "HalfOpen" \/ (state = "Closed" /\ Trips) THEN "Open" ELSE state
    /\ half_open_requests' = IF state = "HalfOpen" THEN 0 ELSE half_open_requests
    /\ EndProbes
    /\ phase' = [phase EXCEPT ![c] = "idle"]
    /\ stamp' = [stamp EXCEPT ![c] = 0]
    /\ UNCHANGED <<failures, last_failure>>

\* A caller goes away without reporting.
Abandon(c) ==
    /\ phase[c] = "allowed"
    /\ phase' = [phase EXCEPT ![c] = "idle"]
    /\ UNCHANGED <<state, failures, last_failure, half_open_requests, stamp, probes>>

\* CircuitBreakerRegistry::all_states, polled by the admin API, goes through state() too.
Observe ==
    /\ ReadState
    /\ UNCHANGED <<failures, last_failure, half_open_requests, phase, stamp>>

BreakerTick ==
    /\ last_failure' = Older(last_failure)
    /\ stamp' = [c \in Threads |-> IF phase[c] = "store" THEN Older(stamp[c]) ELSE stamp[c]]
    /\ UNCHANGED <<state, failures, half_open_requests, phase, probes>>

Step(c) ==
    \/ CanExecute(c) \/ ReadLastFailure(c) \/ Reserve(c) \/ GiveBack(c)
    \/ RecordSuccess(c)
    \/ CountFailure(c) \/ ReadClock(c) \/ StoreLastFailure(c) \/ Judge(c)
    \/ Abandon(c)

BreakerNext == (\E c \in Threads : Step(c)) \/ Observe \/ BreakerTick

BreakerSpec == BreakerInit /\ [][BreakerNext]_breaker_vars

-----------------------------------------------------------------------------

\* The type of the state; in particular the wrapping counter stays in its range.
BreakerTypeOK ==
    /\ state \in {"Closed", "Open", "HalfOpen"}
    /\ failures \in 0..Threshold
    /\ last_failure \in {NoFailure} \cup (0..Timeout)
    /\ half_open_requests \in 0 .. Usize - 1
    /\ phase \in [Threads -> {"idle", "open", "reserve", "giveback", "allowed", "clock", "store", "judge"}]
    /\ stamp \in [Threads -> 0..Timeout]
    /\ granted \in Nat /\ owed \in Nat /\ passed \in Nat /\ looking \in Nat

Reporting(c) == phase[c] \in {"clock", "store", "judge"}

\* No failure is lost between the counter and the lock: when the circuit is closed although
\* Threshold failures have been counted, a caller inside record_failure is on its way to
\* the state lock and will open it.
ThresholdEnforced ==
    state = "Closed" /\ failures >= Threshold => \E c \in Threads : Reporting(c)

\* An open circuit always knows when it failed, so state() can half-open it: the arm of
\* can_execute for an open circuit without an instant is never taken.
OpenHasInstant == state = "Open" => last_failure # NoFailure

\* The circuit changes state only along Closed -> Open after Threshold failures,
\* Open -> HalfOpen after the timeout, and HalfOpen -> Closed or Open.
TransitionsGuarded ==
    [][/\ state = "Closed" /\ state' # "Closed" => state' = "Open" /\ failures >= Threshold
       /\ state = "Open" /\ state' # "Open" => state' = "HalfOpen" /\ last_failure = Timeout]_breaker_vars

\* "A limited number of test requests (half_open_max_requests) are allowed through" a
\* half-open circuit.  What the code gives: the counter is exact, up to the reservations
\* that were about to be given back when a half-open period ended and that are then taken
\* off the next one (the counter wraps below zero); and each request above the limit is owed to a
\* caller that was inside can_execute when the circuit changed under it, either about to
\* give back, or past its first look at an open circuit and let through by the second.
ProbesExact ==
    LET reserved == granted + Cardinality(InPhase("giveback")) - owed IN
    /\ half_open_requests = IF reserved < 0 THEN reserved + Usize ELSE reserved
    /\ granted + passed <= HalfOpenMax + owed + looking
=============================================================================
