------------------------ MODULE CircuitBreakerProofs ------------------------
(***************************************************************************)
(* Proofs about the circuit breaker, for any number of callers and any     *)
(* thresholds.  OpenHasInstant needs the history of the instant: it is     *)
(* stored before the state lock is taken (a caller that is about to judge  *)
(* has stored one) and never erased (a half-open circuit still has one).   *)
(* ProbesExact needs that the callers still in the Open arm of a half-open *)
(* circuit are among those that were there when it half-opened.            *)
(***************************************************************************)
EXTENDS CircuitBreaker, FiniteSetTheorems, TLAPS

InstantKnown ==
    /\ state # "Closed" => last_failure # NoFailure
    /\ \A c \in Threads : phase[c] = "judge" => last_failure # NoFailure

IInv == BreakerTypeOK /\ ThresholdEnforced /\ InstantKnown

\* A fresh breaker is closed and has counted nothing.
LEMMA InitIInv == BreakerInit => IInv
<1> SUFFICES ASSUME BreakerInit PROVE IInv
  OBVIOUS
<1> USE CircuitBreakerAssumption
<1>1. Cardinality(Threads) \in Nat
  BY FS_CardinalityType
<1>2. BreakerTypeOK
  <2>1. half_open_requests \in 0 .. Usize - 1
    BY <1>1 DEF BreakerInit
  <2>2. granted \in Nat /\ owed \in Nat /\ passed \in Nat /\ looking \in Nat
    BY DEF BreakerInit
  <2>3. failures \in 0..Threshold /\ stamp \in [Threads -> 0..Timeout]
    BY DEF BreakerInit
  <2> QED
    BY <2>1, <2>2, <2>3 DEF BreakerInit, BreakerTypeOK
<1>3. ThresholdEnforced /\ InstantKnown
  BY DEF BreakerInit, ThresholdEnforced, InstantKnown
<1> QED
  BY <1>2, <1>3 DEF IInv

\* The callers at one point of the code are finitely many.
LEMMA InPhaseFinite ==
    ASSUME NEW p
    PROVE  /\ IsFiniteSet(InPhase(p)) /\ Cardinality(InPhase(p)) \in Nat
           /\ Cardinality(Threads) \in Nat /\ Cardinality(InPhase(p)) <= Cardinality(Threads)
           /\ Cardinality(InPhase(p))' \in Nat
<1>1. InPhase(p) \subseteq Threads /\ InPhase(p)' \subseteq Threads
  BY DEF InPhase
<1> QED
  BY <1>1, CircuitBreakerAssumption, FS_Subset, FS_CardinalityType

\* Every step of a caller, of the admin poll and of the clock keeps the types.
LEMMA NextTypeOK == BreakerTypeOK /\ [BreakerNext]_breaker_vars => BreakerTypeOK'
<1> SUFFICES ASSUME BreakerTypeOK, [BreakerNext]_breaker_vars PROVE BreakerTypeOK'
  OBVIOUS
<1>0. Cardinality(InPhase("open")) \in Nat /\ Cardinality(InPhase("giveback")) \in Nat
  BY InPhaseFinite
<1> USE CircuitBreakerAssumption DEF BreakerTypeOK, probes
<1>1. ASSUME NEW c \in Threads, CanExecute(c) PROVE BreakerTypeOK'
  BY <1>0, <1>1 DEF CanExecute, ReadState, CurrentState, Arm
<1>2. ASSUME NEW c \in Threads, ReadLastFailure(c) PROVE BreakerTypeOK'
  BY <1>2 DEF ReadLastFailure
<1>3. ASSUME NEW c \in Threads, Reserve(c) PROVE BreakerTypeOK'
  BY <1>3 DEF Reserve, FetchAdd
<1>4. ASSUME NEW c \in Threads, GiveBack(c) PROVE BreakerTypeOK'
  BY <1>4 DEF GiveBack, FetchSub
<1>5. ASSUME NEW c \in Threads, RecordSuccess(c) PROVE BreakerTypeOK'
  BY <1>0, <1>5 DEF RecordSuccess, EndProbes
<1>6. ASSUME NEW c \in Threads, CountFailure(c) PROVE BreakerTypeOK'
  BY <1>6 DEF CountFailure, CountedFailures
<1>7. ASSUME NEW c \in Threads, ReadClock(c) PROVE BreakerTypeOK'
  BY <1>7 DEF ReadClock
<1>8. ASSUME NEW c \in Threads, StoreLastFailure(c) PROVE BreakerTypeOK'
  BY <1>8 DEF StoreLastFailure
<1>9. ASSUME NEW c \in Threads, Judge(c) PROVE BreakerTypeOK'
  BY <1>0, <1>9 DEF Judge, EndProbes
<1>10. ASSUME NEW c \in Threads, Abandon(c) PROVE BreakerTypeOK'
  BY <1>10 DEF Abandon
<1>11. CASE Observe
  BY <1>0, <1>11 DEF Observe, ReadState, CurrentState
<1>12. CASE BreakerTick
  <2>1. last_failure' \in {NoFailure} \cup (0..Timeout)
    BY <1>12 DEF BreakerTick, Older, NoFailure
  <2>2. stamp' \in [Threads -> 0..Timeout]
    BY <1>12 DEF BreakerTick, Older, NoFailure
  <2> QED
    BY <1>12, <2>1, <2>2 DEF BreakerTick
<1>13. CASE UNCHANGED breaker_vars
  BY <1>13 DEF breaker_vars
<1> QED
  BY <1>1, <1>2, <1>3, <1>4, <1>5, <1>6, <1>7, <1>8, <1>9, <1>10, <1>11, <1>12, <1>13
     DEF BreakerNext, Step

\* Only CountFailure raises the counter and it leaves its caller reporting; a reporting
\* caller that stops reporting has just compared the counter with the threshold.
LEMMA NextThreshold == BreakerTypeOK /\ ThresholdEnforced /\ [BreakerNext]_breaker_vars => ThresholdEnforced'
<1> SUFFICES ASSUME BreakerTypeOK, ThresholdEnforced, [BreakerNext]_breaker_vars,
                    state' = "Closed", failures' >= Threshold
             PROVE  \E c \in Threads : Reporting(c)'
  BY DEF ThresholdEnforced
<1> USE CircuitBreakerAssumption DEF BreakerTypeOK, ThresholdEnforced, Reporting
<1>1. ASSUME NEW c \in Threads, CanExecute(c) PROVE \E d \in Threads : Reporting(d)'
  BY <1>1 DEF CanExecute, ReadState, CurrentState, Arm
<1>2. ASSUME NEW c \in Threads, ReadLastFailure(c) PROVE \E d \in Threads : Reporting(d)'
  BY <1>2 DEF ReadLastFailure
<1>3. ASSUME NEW c \in Threads, Reserve(c) PROVE \E d \in Threads : Reporting(d)'
  BY <1>3 DEF Reserve
<1>4. ASSUME NEW c \in Threads, GiveBack(c) PROVE \E d \in Threads : Reporting(d)'
  BY <1>4 DEF GiveBack
<1>5. ASSUME NEW c \in Threads, RecordSuccess(c) PROVE \E d \in Threads : Reporting(d)'
  BY <1>5 DEF RecordSuccess
<1>6. ASSUME NEW c \in Threads, CountFailure(c) PROVE \E d \in Threads : Reporting(d)'
  BY <1>6 DEF CountFailure
<1>7. ASSUME NEW c \in Threads, ReadClock(c) PROVE \E d \in Threads : Reporting(d)'
  BY <1>7 DEF ReadClock
<1>8. ASSUME NEW c \in Threads, StoreLastFailure(c) PROVE \E d \in Threads : Reporting(d)'
  BY <1>8 DEF StoreLastFailure
<1>9. ASSUME NEW c \in Threads, Judge(c) PROVE \E d \in Threads : Reporting(d)'
  BY <1>9 DEF Judge, Trips
<1>10. ASSUME NEW c \in Threads, Abandon(c) PROVE \E d \in Threads : Reporting(d)'
  BY <1>10 DEF Abandon
<1>11. CASE Observe
  BY <1>11 DEF Observe, ReadState, CurrentState
<1>12. CASE BreakerTick
  BY <1>12 DEF BreakerTick
<1>13. CASE UNCHANGED breaker_vars
  BY <1>13 DEF breaker_vars
<1> QED
  BY <1>1, <1>2, <1>3, <1>4, <1>5, <1>6, <1>7, <1>8, <1>9, <1>10, <1>11, <1>12, <1>13
     DEF BreakerNext, Step

\* The instant is stored before the lock is taken and is never erased.
LEMMA NextInstant == BreakerTypeOK /\ InstantKnown /\ [BreakerNext]_breaker_vars => InstantKnown'
<1> SUFFICES ASSUME BreakerTypeOK, InstantKnown, [BreakerNext]_breaker_vars PROVE InstantKnown'
  OBVIOUS
<1> USE DEF BreakerTypeOK, InstantKnown
<1>1. ASSUME NEW c \in Threads, CanExecute(c) PROVE InstantKnown'
  BY <1>1 DEF CanExecute, ReadState, CurrentState, Arm
<1>2. ASSUME NEW c \in Threads, ReadLastFailure(c) PROVE InstantKnown'
  BY <1>2 DEF ReadLastFailure
<1>3. ASSUME NEW c \in Threads, Reserve(c) PROVE InstantKnown'
  BY <1>3 DEF Reserve
<1>4. ASSUME NEW c \in Threads, GiveBack(c) PROVE InstantKnown'
  BY <1>4 DEF GiveBack
<1>5. ASSUME NEW c \in Threads, RecordSuccess(c) PROVE InstantKnown'
  BY <1>5 DEF RecordSuccess
<1>6. ASSUME NEW c \in Threads, CountFailure(c) PROVE InstantKnown'
  BY <1>6 DEF CountFailure
<1>7. ASSUME NEW c \in Threads, ReadClock(c) PROVE InstantKnown'
  BY <1>7 DEF ReadClock
<1>8. ASSUME NEW c \in Threads, StoreLastFailure(c) PROVE InstantKnown'
  BY <1>8, CircuitBreakerAssumption DEF StoreLastFailure, NoFailure
<1>9. ASSUME NEW c \in Threads, Judge(c) PROVE InstantKnown'
  BY <1>9 DEF Judge
<1>10. ASSUME NEW c \in Threads, Abandon(c) PROVE InstantKnown'
  BY <1>10 DEF Abandon
<1>11. CASE Observe
  BY <1>11 DEF Observe, ReadState, CurrentState
<1>12. CASE BreakerTick
  BY <1>12, CircuitBreakerAssumption DEF BreakerTick, Older, NoFailure
<1>13. CASE UNCHANGED breaker_vars
  BY <1>13 DEF breaker_vars
<1> QED
  BY <1>1, <1>2, <1>3, <1>4, <1>5, <1>6, <1>7, <1>8, <1>9, <1>10, <1>11, <1>12, <1>13
     DEF BreakerNext, Step

\* The inductive invariant holds in every reachable state.
LEMMA IInvHolds == BreakerSpec => []IInv
<1>1. IInv /\ [BreakerNext]_breaker_vars => IInv'
  BY NextTypeOK, NextThreshold, NextInstant DEF IInv
<1> QED
  BY <1>1, InitIInv, PTL DEF BreakerSpec

\* No interleaving of record_failure calls loses the failure that reaches the threshold.
THEOREM NoLostTrip == BreakerSpec => []ThresholdEnforced
<1>1. IInv => ThresholdEnforced
  BY DEF IInv
<1> QED
  BY <1>1, IInvHolds, PTL

\* An open circuit has an instant to time out from, so it can always be half-opened.
THEOREM OpenCanExpire == BreakerSpec => []OpenHasInstant
<1>1. IInv => OpenHasInstant
  BY DEF IInv, InstantKnown, OpenHasInstant
<1> QED
  BY <1>1, IInvHolds, PTL

\* What one step may do to the state, whoever takes it.
LEMMA GuardedStep ==
    ASSUME BreakerTypeOK, [BreakerNext]_breaker_vars
    PROVE  /\ state = "Closed" /\ state' # "Closed" => state' = "Open" /\ failures >= Threshold
           /\ state = "Open" /\ state' # "Open" => state' = "HalfOpen" /\ last_failure = Timeout
BY DEF BreakerTypeOK, BreakerNext, Step, breaker_vars, CanExecute, ReadLastFailure, Reserve, GiveBack, RecordSuccess,
       CountFailure, ReadClock, StoreLastFailure, Judge, Abandon, Observe, BreakerTick, ReadState,
       CurrentState, Expired, Trips

\* The circuit leaves Closed only for Open, with Threshold failures counted, and leaves Open
\* only for HalfOpen, after the timeout.
THEOREM GuardedTransitions == BreakerSpec => TransitionsGuarded
<1>1. BreakerTypeOK /\ [BreakerNext]_breaker_vars =>
      [/\ state = "Closed" /\ state' # "Closed" => state' = "Open" /\ failures >= Threshold
       /\ state = "Open" /\ state' # "Open" => state' = "HalfOpen" /\ last_failure = Timeout]_breaker_vars
  BY GuardedStep
<1>2. IInv => BreakerTypeOK
  BY DEF IInv
<1> QED
  BY <1>1, <1>2, IInvHolds, PTL DEF BreakerSpec, TransitionsGuarded

-----------------------------------------------------------------------------
(* The probes of a half-open circuit *)

Returning == Cardinality(InPhase("giveback"))
InOpenArm == Cardinality(InPhase("open"))

Wrapped(n) == IF n < 0 THEN n + Usize ELSE n

ProbesInv ==
    /\ half_open_requests = Wrapped(granted + Returning - owed)
    /\ owed <= Cardinality(Threads)
    /\ granted <= HalfOpenMax + owed
    /\ passed <= looking
    /\ state = "HalfOpen" => passed + InOpenArm <= looking

\* A caller that moves between two other points leaves the number of those at p as it is ...
LEMMA Elsewhere ==
    ASSUME BreakerTypeOK, NEW p, NEW q, NEW c \in Threads, phase' = [phase EXCEPT ![c] = q],
           phase[c] # p, q # p
    PROVE  Cardinality(InPhase(p))' = Cardinality(InPhase(p))
<1>1. InPhase(p)' = InPhase(p)
  BY DEF InPhase, BreakerTypeOK
<1> QED
  BY <1>1

\* ... one that comes to p adds one ...
LEMMA Comes ==
    ASSUME BreakerTypeOK, NEW p, NEW c \in Threads, phase' = [phase EXCEPT ![c] = p], phase[c] # p
    PROVE  Cardinality(InPhase(p))' = Cardinality(InPhase(p)) + 1
<1>1. InPhase(p)' = InPhase(p) \cup {c} /\ c \notin InPhase(p)
  BY DEF InPhase, BreakerTypeOK
<1> QED
  BY <1>1, InPhaseFinite, FS_AddElement

\* ... and one that leaves it takes one off.
LEMMA Goes ==
    ASSUME BreakerTypeOK, NEW p, NEW q, NEW c \in Threads, phase' = [phase EXCEPT ![c] = q],
           phase[c] = p, q # p
    PROVE  Cardinality(InPhase(p))' = Cardinality(InPhase(p)) - 1
<1>1. InPhase(p)' = InPhase(p) \ {c} /\ c \in InPhase(p)
  BY DEF InPhase, BreakerTypeOK
<1> QED
  BY <1>1, InPhaseFinite, FS_RemoveElement

\* Counting up and down modulo Usize is exact as long as the count stays near its limit.
LEMMA Wrapping ==
    ASSUME NEW g \in Nat, NEW r \in Nat, NEW o \in Nat, NEW h,
           o <= Cardinality(Threads), r <= Cardinality(Threads), g <= HalfOpenMax + o,
           h = Wrapped(g + r - o)
    PROVE  /\ r + 1 <= Cardinality(Threads) => FetchAdd(h) = Wrapped(g + r + 1 - o)
           /\ r + 1 <= Cardinality(Threads) /\ h < HalfOpenMax => g + 1 <= HalfOpenMax + o
           /\ FetchSub(h) = Wrapped(g + r - 1 - o)
<1>1. Cardinality(Threads) \in Nat
  BY CircuitBreakerAssumption, FS_CardinalityType
<1> QED
  BY <1>1, CircuitBreakerAssumption DEF Wrapped, FetchAdd, FetchSub

\* A step that neither moves a caller into or out of an arm nor touches the counters.
LEMMA ProbesRest ==
    ASSUME BreakerTypeOK, ProbesInv, NEW c \in Threads,
           CountFailure(c) \/ ReadClock(c) \/ StoreLastFailure(c) \/ Abandon(c)
    PROVE  ProbesInv'
<1>1. /\ UNCHANGED <<state, half_open_requests, granted, owed, passed, looking>>
      /\ \E q \in {"clock", "store", "judge", "idle"} : phase' = [phase EXCEPT ![c] = q]
      /\ phase[c] \in {"allowed", "clock", "store"}
  BY DEF CountFailure, ReadClock, StoreLastFailure, Abandon, probes
<1>2. Returning' = Returning /\ InOpenArm' = InOpenArm
  BY <1>1, Elsewhere DEF Returning, InOpenArm
<1> QED
  BY <1>1, <1>2 DEF ProbesInv

\* Every step keeps the count: a reservation, granted or not, adds one to both sides, giving
\* it back takes one off both, and the end of a half-open period sets both to zero.
LEMMA NextProbes == BreakerTypeOK /\ ProbesInv /\ [BreakerNext]_breaker_vars => ProbesInv'
<1> SUFFICES ASSUME BreakerTypeOK, ProbesInv, [BreakerNext]_breaker_vars PROVE ProbesInv'
  OBVIOUS
<1>0. /\ Returning \in Nat /\ InOpenArm \in Nat /\ Cardinality(Threads) \in Nat
      /\ Returning <= Cardinality(Threads) /\ Returning' \in Nat /\ InOpenArm' \in Nat
  BY InPhaseFinite DEF Returning, InOpenArm
<1>n. granted \in Nat /\ owed \in Nat /\ passed \in Nat /\ looking \in Nat
  BY DEF BreakerTypeOK
<1>1. ASSUME NEW c \in Threads, CanExecute(c) PROVE ProbesInv'
  <2>1. Returning' = Returning
    BY <1>1, Elsewhere DEF CanExecute, Arm, Returning
  <2>2. CASE state = "Open" /\ Expired
    <3>1. InOpenArm' = InOpenArm
      BY <1>0, <1>1, <2>2, Elsewhere DEF CanExecute, CurrentState, Arm, InOpenArm
    <3> QED
      BY <1>1, <1>0, <1>n, <2>1, <2>2, <3>1 DEF CanExecute, ReadState, CurrentState, ProbesInv, InOpenArm
  <2>3. CASE ~(state = "Open" /\ Expired) /\ state = "HalfOpen"
    <3>1. InOpenArm' = InOpenArm
      BY <1>0, <1>1, <2>3, Elsewhere DEF CanExecute, CurrentState, Arm, InOpenArm
    <3> QED
      BY <1>1, <2>1, <2>3, <3>1 DEF CanExecute, ReadState, CurrentState, ProbesInv
  <2>4. CASE ~(state = "Open" /\ Expired) /\ state # "HalfOpen"
    BY <1>1, <2>1, <2>4 DEF CanExecute, ReadState, CurrentState, ProbesInv
  <2> QED
    BY <2>2, <2>3, <2>4
<1>2. ASSUME NEW c \in Threads, ReadLastFailure(c) PROVE ProbesInv'
  <2>1. phase[c] = "open" /\ \E q \in {"allowed", "idle"} : phase' = [phase EXCEPT ![c] = q]
    BY <1>2 DEF ReadLastFailure
  <2>2. Returning' = Returning
    BY <2>1, Elsewhere DEF Returning
  <2>3. InOpenArm' = InOpenArm - 1
    BY <2>1, Goes DEF InOpenArm
  <2>4. /\ state' = state /\ UNCHANGED <<half_open_requests, granted, owed, looking>>
        /\ passed' = passed \/ (state = "HalfOpen" /\ passed' = passed + 1)
    BY <1>2 DEF ReadLastFailure
  <2>5. state = "HalfOpen" => passed' + InOpenArm' <= looking'
    BY <1>0, <1>n, <2>3, <2>4 DEF ProbesInv
  <2>6. passed' <= looking'
    <3>1. CASE passed' = passed
      BY <2>4, <3>1 DEF ProbesInv
    <3>2. CASE passed' = passed + 1
      <4>1. state = "HalfOpen" /\ looking' = looking
        BY <1>n, <2>4, <3>2
      <4>2. passed + 1 + InOpenArm' <= looking /\ InOpenArm' \in Nat
        BY <1>0, <2>5, <3>2, <4>1
      <4>3. \A n \in Nat : passed + 1 + n <= looking => passed + 1 <= looking
        BY <1>n
      <4> QED
        BY <3>2, <4>1, <4>2, <4>3
    <3> QED
      BY <2>4, <3>1, <3>2
  <2> QED
    BY <2>2, <2>4, <2>5, <2>6 DEF ProbesInv
<1>3. ASSUME NEW c \in Threads, Reserve(c) PROVE ProbesInv'
  <2>1. phase[c] = "reserve" /\ InOpenArm' = InOpenArm
    BY <1>0, <1>3, Elsewhere DEF Reserve, InOpenArm
  <2>2. Returning + 1 <= Cardinality(Threads)
    <3>1. c \notin InPhase("giveback") /\ InPhase("giveback") \cup {c} \subseteq Threads
      BY <2>1 DEF InPhase
    <3>2. Cardinality(InPhase("giveback") \cup {c}) <= Cardinality(Threads)
      BY <3>1, CircuitBreakerAssumption, FS_Subset
    <3>3. Cardinality(InPhase("giveback") \cup {c}) = Cardinality(InPhase("giveback")) + 1
      BY <3>1, InPhaseFinite, FS_AddElement
    <3> QED
      BY <3>2, <3>3 DEF Returning
  <2>3. /\ FetchAdd(half_open_requests) = Wrapped(granted + Returning + 1 - owed)
        /\ half_open_requests < HalfOpenMax => granted + 1 <= HalfOpenMax + owed
    BY <1>0, <1>n, <2>2, Wrapping DEF ProbesInv
  <2>4. CASE half_open_requests < HalfOpenMax
    <3>1. Returning' = Returning
      BY <1>0, <1>3, <2>1, <2>4, Elsewhere DEF Reserve, Returning
    <3>2. granted + 1 + Returning - owed = granted + Returning + 1 - owed
      BY <1>0, <1>n
    <3> QED
      BY <1>3, <2>1, <2>3, <2>4, <3>1, <3>2 DEF Reserve, ProbesInv
  <2>5. CASE ~(half_open_requests < HalfOpenMax)
    <3>1. Returning' = Returning + 1
      BY <1>3, <2>1, <2>5, Comes DEF Reserve, Returning
    <3>2. granted + (Returning + 1) - owed = granted + Returning + 1 - owed
      BY <1>0, <1>n
    <3> QED
      BY <1>3, <2>1, <2>3, <2>5, <3>1, <3>2 DEF Reserve, ProbesInv
  <2> QED
    BY <2>4, <2>5
<1>4. ASSUME NEW c \in Threads, GiveBack(c) PROVE ProbesInv'
  <2>1. InOpenArm' = InOpenArm /\ Returning' = Returning - 1
    <3>1. phase[c] = "giveback" /\ phase' = [phase EXCEPT ![c] = "idle"]
      BY <1>4 DEF GiveBack
    <3>2. Cardinality(InPhase("open"))' = Cardinality(InPhase("open"))
      BY <3>1, Elsewhere
    <3>3. Cardinality(InPhase("giveback"))' = Cardinality(InPhase("giveback")) - 1
      BY <3>1, Goes
    <3> QED
      BY <3>2, <3>3 DEF InOpenArm, Returning
  <2>2. FetchSub(half_open_requests) = Wrapped(granted + Returning - 1 - owed)
    BY <1>0, <1>n, Wrapping DEF ProbesInv
  <2>3. granted + Returning - 1 - owed = granted + Returning' - owed
    BY <1>0, <1>n, <2>1
  <2> QED
    BY <1>4, <2>1, <2>2, <2>3 DEF GiveBack, probes, ProbesInv
<1>5. ASSUME NEW c \in Threads, RecordSuccess(c) \/ Judge(c) PROVE ProbesInv'
  <2>1. Returning' = Returning
    BY <1>0, <1>5, Elsewhere DEF RecordSuccess, Judge, Returning
  <2>2. state' # "HalfOpen"
    BY <1>5 DEF RecordSuccess, Judge
  <2>3. CASE state = "HalfOpen"
    BY <1>5, <1>0, <2>1, <2>2, <2>3, CircuitBreakerAssumption
       DEF RecordSuccess, Judge, EndProbes, ProbesInv, Wrapped, Returning
  <2>4. CASE state # "HalfOpen"
    BY <1>5, <2>1, <2>2, <2>4 DEF RecordSuccess, Judge, EndProbes, probes, ProbesInv
  <2> QED
    BY <2>3, <2>4
<1>6. ASSUME NEW c \in Threads, CountFailure(c) \/ ReadClock(c) \/ StoreLastFailure(c) \/ Abandon(c)
      PROVE  ProbesInv'
  BY <1>6, ProbesRest
<1>7. CASE Observe
  <2>1. Returning' = Returning /\ InOpenArm' = InOpenArm
    BY <1>7 DEF Observe, InPhase, Returning, InOpenArm
  <2> QED
    BY <1>7, <1>0, <1>n, <2>1 DEF Observe, ReadState, CurrentState, ProbesInv, InOpenArm
<1>8. CASE BreakerTick \/ UNCHANGED breaker_vars
  <2>1. Returning' = Returning /\ InOpenArm' = InOpenArm
    BY <1>8 DEF BreakerTick, breaker_vars, InPhase, Returning, InOpenArm
  <2> QED
    BY <1>8, <2>1 DEF BreakerTick, breaker_vars, probes, ProbesInv
<1> QED
  BY <1>1, <1>2, <1>3, <1>4, <1>5, <1>6, <1>7, <1>8 DEF BreakerNext, Step

\* The half-open counter is exact whenever the circuit changes state, callers inside
\* can_execute or not; and every request that can_execute lets through above half_open_max is
\* owed to a caller that was inside it when the circuit changed.
THEOREM ProbesAreCounted == BreakerSpec => []ProbesExact
<1>1. BreakerInit => ProbesInv
  <2> SUFFICES ASSUME BreakerInit PROVE ProbesInv
    OBVIOUS
  <2>1. InPhase("giveback") = {} /\ InPhase("open") = {}
    BY DEF BreakerInit, InPhase
  <2>2. Returning = 0 /\ InOpenArm = 0
    BY <2>1, FS_EmptySet DEF Returning, InOpenArm
  <2>3. Cardinality(Threads) \in Nat
    BY CircuitBreakerAssumption, FS_CardinalityType
  <2> QED
    BY <2>2, <2>3, CircuitBreakerAssumption DEF BreakerInit, ProbesInv, Wrapped
<1>2. IInv => BreakerTypeOK
  BY DEF IInv
<1>3. BreakerTypeOK /\ ProbesInv => ProbesExact
  <2> SUFFICES ASSUME BreakerTypeOK, ProbesInv PROVE ProbesExact
    OBVIOUS
  <2>1. granted + passed <= HalfOpenMax + owed + looking
    BY CircuitBreakerAssumption DEF BreakerTypeOK, ProbesInv
  <2> QED
    BY <2>1 DEF ProbesInv, ProbesExact, Wrapped, Returning
<1> QED
  BY <1>1, <1>2, <1>3, IInvHolds, NextProbes, PTL DEF BreakerSpec
=============================================================================
