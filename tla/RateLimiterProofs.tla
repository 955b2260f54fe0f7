------------------------- MODULE RateLimiterProofs -------------------------
(***************************************************************************)
(* Proofs about the rate limiter, for any set of callers, keys, limit      *)
(* configurations and estimates.                                           *)
(*                                                                         *)
(* SpentWithinRate is not inductive: it says nothing of what a bucket still*)
(* holds.  The invariant that is, Accounted, charges a bucket for both:    *)
(* what was debited plus what is left is at most one burst plus the refill *)
(* up to the bucket's last_refill.  A refill moves last_refill and the     *)
(* tokens together, a debit moves tokens into spent, a resize only lowers  *)
(* the tokens.                                                             *)
(***************************************************************************)
EXTENDS RateLimiter, TLAPS

\* What Accounted says of one bucket b from which s units have been debited.
Sound(b, s) ==
    /\ b \in BucketState
    /\ b.last_refill <= now
    /\ b.tokens \in 0 .. b.capacity * Window
    /\ s \in Nat
    /\ b.capacity = 0 => s = 0
    /\ s + b.tokens <= MaxLimit * (Window + b.last_refill)

Accounted == \A id \in Buckets : Sound(buckets[id], spent[id])

IInv == TypeOK /\ Accounted

-----------------------------------------------------------------------------

\* Arithmetic used below: products of naturals are natural and monotone.
LEMMA Products ==
    ASSUME NEW x \in Nat, NEW y \in Nat, NEW z \in Nat, x <= y
    PROVE  x * z \in Nat /\ z * x \in Nat /\ x * z <= y * z /\ z * x <= z * y
<1>1. PICK d \in Nat : y = x + d
  BY y = x + (y - x)
<1>2. y * z = x * z + d * z
  BY <1>1
<1>3. d * z \in Nat /\ x * z \in Nat
  OBVIOUS
<1> QED
  BY <1>2, <1>3

\* TokenBucket::refill keeps a bucket sound: the tokens it adds are paid for by the time
\* that passed.
LEMMA RefillSound ==
    ASSUME NEW b \in BucketState, NEW s \in Nat, Sound(b, s), now \in 0..MaxTime
    PROVE  Sound(Refill(b, now), s) /\ Refill(b, now).capacity = b.capacity
<1> DEFINE cap == b.capacity
           t == b.tokens
           l == b.last_refill
           gain == (now - l) * cap
           r == Refill(b, now)
<1>0. /\ MaxLimit \in Nat /\ Window \in Nat /\ MaxTime \in Nat
      /\ cap \in 0..MaxLimit /\ t \in 0 .. cap * Window /\ l \in 0..MaxTime /\ l <= now
      /\ s + t <= MaxLimit * (Window + l) /\ (cap = 0 => s = 0)
  BY RateLimiterAssumption DEF Sound, BucketState
<1>1. gain \in Nat /\ gain <= (now - l) * MaxLimit
  <2> DEFINE e == now - l
  <2>1. e \in Nat /\ cap \in Nat /\ MaxLimit \in Nat /\ cap <= MaxLimit
    BY <1>0
  <2> HIDE DEF e, cap
  <2>2. e * cap \in Nat /\ e * cap <= e * MaxLimit
    BY <2>1, Products
  <2> QED
    BY <2>2 DEF e, cap
<1>2. cap * Window \in Nat
  BY <1>0, Products
<1>3. MaxLimit * (Window + l) + (now - l) * MaxLimit = MaxLimit * (Window + now)
  BY <1>0
<1>4. r.capacity = cap /\ r.last_refill = now /\ r.tokens = AtMost(t + gain, cap * Window)
  BY DEF Refill
<1>5. r \in [capacity: 0..MaxLimit, tokens: Int, last_refill: 0..MaxTime]
  <2>1. AtMost(t + gain, cap * Window) \in Int
    BY <1>0, <1>1, <1>2 DEF AtMost
  <2> QED
    BY <2>1, <1>0 DEF Refill
<1> HIDE DEF r, gain
<1>6. r.tokens \in 0 .. cap * Window /\ r.tokens <= t + gain
  BY <1>0, <1>1, <1>2, <1>4 DEF AtMost
<1>7. s + r.tokens <= MaxLimit * (Window + now)
  <2> DEFINE A == MaxLimit * (Window + l)
             B == (now - l) * MaxLimit
             C == MaxLimit * (Window + now)
  <2>1. A \in Int /\ B \in Int /\ C \in Int /\ A + B = C /\ s + t <= A /\ gain <= B
    BY <1>0, <1>1, <1>3
  <2> HIDE DEF A, B, C
  <2>2. s + r.tokens <= C
    BY <2>1, <1>1, <1>6, <1>0
  <2> QED
    BY <2>2 DEF C
<1> QED
  BY <1>0, <1>4, <1>5, <1>6, <1>7 DEF Sound, BucketState, r

\* Following a changed limit never adds tokens, so it keeps a bucket sound.
LEMMA SyncSound ==
    ASSUME NEW b \in BucketState, NEW s \in Nat, Sound(b, s), NEW limit \in 1..MaxLimit
    PROVE  Sound(Sync(b, limit), s) /\ Sync(b, limit).capacity = limit
<1>0. MaxLimit \in Nat /\ Window \in Nat /\ limit \in Nat /\ limit # 0
  BY RateLimiterAssumption
<1>1. CASE b.capacity = limit
  BY <1>1 DEF Sync
<1>2. CASE b.capacity # limit
  <2> DEFINE u == AtMost(b.tokens, limit * Window)
             r == Sync(b, limit)
  <2>1. limit * Window \in Nat
    BY <1>0, Products
  <2>2. b.tokens \in Nat /\ b.last_refill \in 0..MaxTime
    <3>1. b.capacity * Window \in Nat /\ b.tokens \in 0 .. b.capacity * Window
      BY <1>0, Products DEF Sound, BucketState
    <3> QED
      BY <3>1 DEF BucketState
  <2>3. u \in 0 .. limit * Window /\ u <= b.tokens /\ u \in Int
    BY <2>1, <2>2 DEF AtMost
  <2>4. r = [capacity |-> limit, tokens |-> u, last_refill |-> b.last_refill]
    BY <1>2 DEF Sync
  <2> HIDE DEF u, r
  <2>5. MaxLimit * (Window + b.last_refill) \in Int /\ s + b.tokens <= MaxLimit * (Window + b.last_refill)
    BY <1>0, <2>2, RateLimiterAssumption DEF Sound
  <2>6. s + u <= MaxLimit * (Window + b.last_refill)
    BY <2>5, <2>3, <2>2
  <2> QED
    BY <2>2, <2>3, <2>4, <2>6 DEF Sound, BucketState, r
<1> QED
  BY <1>1, <1>2

\* check_bucket sees a sound bucket of the requested capacity, created, resized or refilled.
LEMMA RefilledSound ==
    ASSUME IInv, NEW id \in Buckets, NEW limit \in 1..MaxLimit
    PROVE  Sound(Refilled(id, limit), spent[id]) /\ Refilled(id, limit).capacity = limit
<1> DEFINE b == Entry(id, limit)
<1>0. /\ MaxLimit \in Nat /\ Window \in Nat /\ limit \in 0..MaxLimit
      /\ now \in 0..MaxTime /\ spent[id] \in Nat /\ Sound(buckets[id], spent[id])
  BY RateLimiterAssumption DEF IInv, TypeOK, Accounted
<1>1. Sound(b, spent[id])
  <2>1. CASE buckets[id].capacity # 0
    BY <2>1, <1>0 DEF Entry
  <2>2. CASE buckets[id].capacity = 0
    <3> DEFINE w == limit * Window
    <3>1. w \in Nat /\ w <= MaxLimit * Window
      BY <1>0, Products
    <3>2. b = [capacity |-> limit, tokens |-> w, last_refill |-> now]
      BY <2>2 DEF Entry, NewBucket
    <3>3. spent[id] + w <= MaxLimit * (Window + now)
      <4>1. spent[id] = 0
        BY <1>0, <2>2 DEF Sound
      <4>2. MaxLimit * Window <= MaxLimit * (Window + now)
        BY <1>0, Products
      <4> QED
        BY <4>1, <4>2, <3>1, <1>0
    <3> QED
      BY <1>0, <3>1, <3>2, <3>3 DEF Sound, BucketState
  <2> QED
    BY <2>1, <2>2
<1>2. b \in BucketState
  BY <1>1 DEF Sound
<1> HIDE DEF b
<1>3. Sound(Sync(b, limit), spent[id]) /\ Sync(b, limit).capacity = limit
  BY <1>0, <1>1, <1>2, SyncSound
<1>4. Sync(b, limit) \in BucketState
  BY <1>3 DEF Sound
<1> QED
  BY <1>0, <1>3, <1>4, RefillSound DEF Refilled, b

\* What check_bucket reports is a whole number of seconds.
LEMMA RetryAfterNat ==
    ASSUME IInv, NEW id \in Buckets, NEW limit \in 0..MaxLimit, NEW amount \in Nat
    PROVE  RetryAfter(id, limit, amount) \in Nat
<1>0. MaxLimit \in Nat /\ Window \in Nat /\ amount * Window \in Nat
  BY RateLimiterAssumption, Products
<1>1. CASE limit = 0
  BY <1>1 DEF RetryAfter
<1>2. CASE limit # 0
  <2> DEFINE b == Refilled(id, limit)
             d == amount * Window - b.tokens
  <2>1. Sound(b, spent[id]) /\ b.capacity = limit
    BY <1>2, <1>0, RefilledSound
  <2>2. limit \in Nat /\ limit # 0 /\ d \in Int
    BY <2>1, <1>0, <1>2 DEF Sound, BucketState
  <2>3. RetryAfter(id, limit, amount) = IF d <= 0 THEN 0 ELSE (d + limit - 1) \div limit
    BY <1>2, <2>1 DEF RetryAfter, DeficitRetryAfter
  <2> HIDE DEF d
  <2> QED
    BY <2>2, <2>3
<1> QED
  BY <1>1, <1>2

\* One check_bucket call, tentative or debiting, keeps every bucket accounted for: it debits
\* only what the refilled bucket holds.
LEMMA CheckBucketSound ==
    ASSUME IInv, NEW c \in Callers, NEW id \in Buckets, NEW i \in Slots,
           NEW limit \in 0..MaxLimit, NEW amount \in Nat, NEW debit \in BOOLEAN,
           CheckBucket(c, id, i, limit, amount, debit), now' = now
    PROVE  /\ Accounted'
           /\ buckets' \in [Buckets -> BucketState]
           /\ spent' \in [Buckets -> Nat]
           /\ charged' \in [Callers -> SUBSET Slots]
<1> DEFINE pays == Pays(id, limit, amount, debit)
           b == Refilled(id, limit)
           after == IF pays THEN Debit(b, amount) ELSE b
           s == IF pays THEN spent[id] + amount * Window ELSE spent[id]
<1>0. /\ MaxLimit \in Nat /\ Window \in Nat /\ amount * Window \in Nat
      /\ buckets \in [Buckets -> BucketState] /\ spent \in [Buckets -> Nat]
      /\ charged \in [Callers -> SUBSET Slots]
  BY RateLimiterAssumption, Products DEF IInv, TypeOK
<1>1. charged' \in [Callers -> SUBSET Slots]
  BY <1>0 DEF CheckBucket
<1>2. spent' = [spent EXCEPT ![id] = s]
  BY DEF CheckBucket
<1>3. CASE limit = 0
  <2>1. buckets' = buckets /\ s = spent[id]
    BY <1>3 DEF CheckBucket, Pays
  <2>2. spent' = spent
    BY <1>2, <2>1, <1>0
  <2> QED
    BY <1>0, <1>1, <2>1, <2>2 DEF IInv, Accounted, Sound
<1>4. CASE limit # 0
  <2>1. Sound(b, spent[id]) /\ b.capacity = limit
    BY <1>4, <1>0, RefilledSound
  <2>2. buckets' = [buckets EXCEPT ![id] = after]
    BY <1>4 DEF CheckBucket
  <2>3. Sound(after, s)
    <3>1. CASE ~pays
      BY <3>1, <2>1
    <3>2. CASE pays
      <4>1. DeficitRetryAfter(b, amount) = 0
        BY <3>2, <1>4 DEF Pays, RetryAfter
      <4>2. b.tokens \in Nat /\ b.capacity \in Nat /\ b.capacity # 0 /\ b.capacity * Window \in Nat
        BY <2>1, <1>4, <1>0, Products DEF Sound
      <4>3. amount * Window - b.tokens <= 0
        <5> DEFINE d == amount * Window - b.tokens
                   k == b.capacity
        <5>1. d \in Int /\ k \in Nat /\ k # 0
          BY <4>2, <1>0
        <5>2. (IF d <= 0 THEN 0 ELSE (d + k - 1) \div k) = 0
          BY <4>1 DEF DeficitRetryAfter
        <5> HIDE DEF d, k
        <5>3. d > 0 => (d + k - 1) \div k >= 1
          BY <5>1
        <5>4. d <= 0
          BY <5>1, <5>2, <5>3
        <5> QED
          BY <5>4 DEF d
      <4>4. after = [capacity |-> b.capacity, tokens |-> b.tokens - amount * Window,
                     last_refill |-> b.last_refill]
        BY <3>2 DEF Debit
      <4> QED
        BY <4>2, <4>3, <4>4, <3>2, <2>1, <1>0, <1>4 DEF Sound, BucketState
    <3> QED
      BY <3>1, <3>2
  <2>4. after \in BucketState /\ s \in Nat
    BY <2>3 DEF Sound
  <2> HIDE DEF after, s
  <2>5. \A x \in Buckets : Sound(buckets'[x], spent'[x])
    <3> SUFFICES ASSUME NEW x \in Buckets PROVE Sound(buckets'[x], spent'[x])
      OBVIOUS
    <3>1. CASE x = id
      BY <3>1, <1>0, <1>2, <2>2, <2>3
    <3>2. CASE x # id
      <4>1. buckets'[x] = buckets[x] /\ spent'[x] = spent[x]
        BY <3>2, <1>0, <1>2, <2>2
      <4> QED
        BY <4>1 DEF IInv, Accounted
    <3> QED
      BY <3>1, <3>2
  <2> QED
    BY <1>0, <1>1, <1>2, <2>2, <2>4, <2>5 DEF Accounted, Sound
<1> QED
  BY <1>3, <1>4

-----------------------------------------------------------------------------

\* The limiter starts with no entry in either map, so the accounts start balanced.
LEMMA InitIInv == Init => IInv
<1> SUFFICES ASSUME Init PROVE IInv
  OBVIOUS
<1>0. MaxLimit \in Nat /\ Window \in Nat /\ MaxTime \in Nat /\ MaxLimit * (Window + 0) \in Nat
  BY RateLimiterAssumption, Products
<1>1. TypeOK
  BY <1>0, RateLimiterAssumption DEF Init, TypeOK, BucketState, Slots, NoCall
<1>2. Accounted
  BY <1>0 DEF Init, Accounted, Sound, BucketState
<1> QED
  BY <1>1, <1>2 DEF IInv

\* Every step keeps the accounts: only the two passes touch buckets, each through check_bucket.
LEMMA NextIInv == IInv /\ [Next]_vars => IInv'
<1> SUFFICES ASSUME IInv, [Next]_vars PROVE IInv'
  OBVIOUS
<1>0. /\ MaxLimit \in Nat /\ Window \in Nat /\ MaxTime \in Nat /\ Estimates \subseteq Nat
      /\ Configs \subseteq [Buckets -> 0..MaxLimit]
      /\ TypeOK /\ Accounted
  BY RateLimiterAssumption DEF IInv
<1>1. ASSUME NEW c \in Callers, NEW k \in Keys, NEW e \in Estimates, CheckAndConsume(c, k, e)
      PROVE  IInv'
  <2> DEFINE new == [key |-> k, estimate |-> e, limit |-> [i \in Slots |-> limits[SlotBucket(k, i)]]]
  <2>1. \A i \in Slots : SlotBucket(k, i) \in Buckets
    BY DEF SlotBucket, Buckets, Metrics, Owners
  <2>2. new \in Calls
    BY <2>1, <1>0 DEF Calls, TypeOK
  <2>3. alone' \in [Callers -> BOOLEAN]
    BY <1>1, <1>0, Zenon DEF CheckAndConsume, TypeOK, Active
  <2>4. call' \in [Callers -> Calls \cup {NoCall}] /\ \A d \in Callers : pc'[d] # "idle" => call'[d] \in Calls
    BY <1>1, <1>0, <2>2 DEF CheckAndConsume, TypeOK
  <2>5. TypeOK'
    <3>1. /\ now' \in 0..MaxTime
          /\ limits' \in [Buckets -> 0..MaxLimit]
          /\ buckets' \in [Buckets -> BucketState]
          /\ pc' \in [Callers -> {"idle", "check", "commit", "limited", "ok"}]
          /\ spent' \in [Buckets -> Nat]
      BY <1>1, <1>0 DEF CheckAndConsume, TypeOK
    <3>2. /\ slot' \in [Callers -> Slots]
          /\ slowest' \in [Callers -> Nat]
          /\ charged' \in [Callers -> SUBSET Slots]
      BY <1>1, <1>0 DEF CheckAndConsume, TypeOK, Slots
    <3> QED
      BY <3>1, <3>2, <2>3, <2>4, Zenon DEF TypeOK
  <2>6. Accounted'
    BY <1>1, <1>0 DEF CheckAndConsume, Accounted, Sound
  <2> QED
    BY <2>5, <2>6 DEF IInv
<1>2. ASSUME NEW c \in Callers, NEW i \in Slots, NEW debit \in BOOLEAN, pc[c] # "idle",
             CheckBucket(c, SlotBucket(call[c].key, i), i, call[c].limit[i],
                         SlotAmount(call[c].estimate, i), debit),
             now' = now
      PROVE  /\ Accounted'
             /\ buckets' \in [Buckets -> BucketState]
             /\ spent' \in [Buckets -> Nat]
             /\ charged' \in [Callers -> SUBSET Slots]
  <2>1. call[c] \in Calls
    BY <1>2, <1>0 DEF TypeOK
  <2>2. SlotBucket(call[c].key, i) \in Buckets
    BY <2>1 DEF SlotBucket, Buckets, Metrics, Owners, Calls
  <2>3. call[c].limit[i] \in 0..MaxLimit
    BY <2>1 DEF Calls
  <2>4. SlotAmount(call[c].estimate, i) \in Nat
    BY <2>1, <1>0 DEF Calls, SlotAmount
  <2> QED
    BY <2>2, <2>3, <2>4, <1>2, CheckBucketSound
<1>3. ASSUME NEW c \in Callers, Pass1(c) PROVE IInv'
  <2> DEFINE i == slot[c]
             id == SlotBucket(call[c].key, i)
             amount == SlotAmount(call[c].estimate, i)
             retry == RetryAfter(id, call[c].limit[i], amount)
  <2>1. i \in Slots /\ pc[c] # "idle" /\ call[c] \in Calls
    BY <1>3, <1>0 DEF Pass1, TypeOK
  <2>2. /\ Accounted' /\ buckets' \in [Buckets -> BucketState]
        /\ spent' \in [Buckets -> Nat] /\ charged' \in [Callers -> SUBSET Slots]
    BY <1>2, <1>3, <2>1 DEF Pass1
  <2>3. retry \in Nat
    <3>1. id \in Buckets /\ call[c].limit[i] \in 0..MaxLimit /\ amount \in Nat
      BY <2>1, <1>0 DEF SlotBucket, SlotAmount, Buckets, Metrics, Owners, Calls
    <3> HIDE DEF id, amount
    <3> QED
      BY <3>1, RetryAfterNat
  <2>4. slowest' \in [Callers -> Nat] /\ pc' \in [Callers -> {"idle", "check", "commit", "limited", "ok"}]
    BY <1>3, <1>0, <2>3 DEF Pass1, TypeOK, Slower
  <2>5. slot' \in [Callers -> Slots]
    BY <1>3, <1>0 DEF Pass1, TypeOK, Slots, NextSlot
  <2>6. \A d \in Callers : pc'[d] # "idle" => call'[d] \in Calls
    BY <1>3, <1>0, <2>1 DEF Pass1, TypeOK
  <2> QED
    BY <1>3, <1>0, <2>2, <2>4, <2>5, <2>6 DEF IInv, TypeOK, Pass1
<1>4. ASSUME NEW c \in Callers, Pass2(c) PROVE IInv'
  <2>1. slot[c] \in Slots /\ pc[c] # "idle" /\ call[c] \in Calls
    BY <1>4, <1>0 DEF Pass2, TypeOK
  <2>2. /\ Accounted' /\ buckets' \in [Buckets -> BucketState]
        /\ spent' \in [Buckets -> Nat] /\ charged' \in [Callers -> SUBSET Slots]
    BY <1>2, <1>4, <2>1 DEF Pass2
  <2>3. slot' \in [Callers -> Slots] /\ pc' \in [Callers -> {"idle", "check", "commit", "limited", "ok"}]
    BY <1>4, <1>0 DEF Pass2, TypeOK, Slots, NextSlot
  <2>4. \A d \in Callers : pc'[d] # "idle" => call'[d] \in Calls
    BY <1>4, <1>0, <2>1 DEF Pass2, TypeOK
  <2> QED
    BY <1>4, <1>0, <2>2, <2>3, <2>4 DEF IInv, TypeOK, Pass2
<1>5. ASSUME NEW cfg \in Configs, SetLimits(cfg) PROVE IInv'
  BY <1>5, <1>0 DEF SetLimits, IInv, TypeOK, Accounted, Sound
<1>6. CASE Tick
  <2>1. now' \in 0..MaxTime /\ now <= now'
    BY <1>6, <1>0 DEF Tick, TypeOK
  <2>2. TypeOK'
    BY <2>1, <1>6, <1>0 DEF Tick, TypeOK
  <2>3. Accounted'
    BY <2>1, <1>6, <1>0 DEF Tick, Accounted, Sound, BucketState, TypeOK
  <2> QED
    BY <2>2, <2>3 DEF IInv
<1>7. CASE UNCHANGED vars
  BY <1>7, <1>0 DEF vars, IInv, TypeOK, Accounted, Sound
<1> QED
  BY <1>1, <1>3, <1>4, <1>5, <1>6, <1>7 DEF Next

-----------------------------------------------------------------------------

\* The inductive invariant holds in every reachable state.
LEMMA IInvHolds == Spec => []IInv
BY InitIInv, NextIInv, PTL DEF Spec

\* Type correctness of the rate limiter, for every instance.
THEOREM Typed == Spec => []TypeOK
<1>1. IInv => TypeOK
  BY DEF IInv
<1> QED
  BY <1>1, IInvHolds, PTL

\* However check_bucket calls, limit changes and the clock interleave, no bucket is ever
\* overdrawn (debit has no check of its own) or holds more than its capacity.
THEOREM NeverOverdrawn == Spec => []TokensWithinCapacity
<1>1. IInv => TokensWithinCapacity
  BY DEF IInv, Accounted, Sound, TokensWithinCapacity
<1> QED
  BY <1>1, IInvHolds, PTL

\* All that is ever debited from a bucket is at most one burst plus the refill at the
\* largest configured limit, for any number of concurrent callers.
THEOREM RateBounded == Spec => []SpentWithinRate
<1>1. IInv => SpentWithinRate
  <2> SUFFICES ASSUME IInv, NEW id \in Buckets PROVE spent[id] <= MaxLimit * (Window + now)
    BY DEF SpentWithinRate
  <2> DEFINE l == buckets[id].last_refill
             t == buckets[id].tokens
  <2>1. /\ MaxLimit \in Nat /\ Window \in Nat /\ MaxTime \in Nat
        /\ now \in 0..MaxTime /\ l \in 0..MaxTime /\ l <= now
        /\ spent[id] \in Nat /\ t \in Int /\ 0 <= t /\ spent[id] + t <= MaxLimit * (Window + l)
    BY RateLimiterAssumption DEF IInv, TypeOK, Accounted, Sound, BucketState
  <2> HIDE DEF l, t
  <2>2. /\ MaxLimit * (Window + l) <= MaxLimit * (Window + now)
        /\ MaxLimit * (Window + l) \in Nat /\ MaxLimit * (Window + now) \in Nat
    <3>1. Window + l \in Nat /\ Window + now \in Nat /\ Window + l <= Window + now
      BY <2>1
    <3> QED
      BY <3>1, <2>1, Products
  <2> QED
    BY <2>1, <2>2
<1> QED
  BY <1>1, IInvHolds, PTL

\* Strengthening of RejectedChargesNothing: nothing is charged before pass 2 begins.
Unpaid == \A c \in Callers : pc[c] \in {"check", "limited"} => charged[c] = {}

\* A call answered 429 has paid nothing: pass 1 calls check_bucket without the debit flag
\* and a call never leaves pass 2 for a rejection.
THEOREM RejectionIsFree == Spec => []RejectedChargesNothing
<1>1. Init => Unpaid
  BY DEF Init, Unpaid
<1>2. TypeOK /\ Unpaid /\ [Next]_vars => Unpaid'
  <2> SUFFICES ASSUME TypeOK, Unpaid, [Next]_vars PROVE Unpaid'
    OBVIOUS
  <2>0. pc \in [Callers -> {"idle", "check", "commit", "limited", "ok"}] /\ charged \in [Callers -> SUBSET Slots]
    BY DEF TypeOK
  <2>1. ASSUME NEW c \in Callers, NEW k \in Keys, NEW e \in Estimates, CheckAndConsume(c, k, e)
        PROVE  Unpaid'
    BY <2>0, <2>1 DEF CheckAndConsume, Unpaid
  <2>2. ASSUME NEW c \in Callers, Pass1(c) PROVE Unpaid'
    <3>1. charged' = charged /\ \A d \in Callers : d # c => pc'[d] = pc[d]
      BY <2>0, <2>2 DEF Pass1, CheckBucket, Pays
    <3>2. pc[c] = "check"
      BY <2>2 DEF Pass1
    <3> QED
      BY <3>1, <3>2 DEF Unpaid
  <2>3. ASSUME NEW c \in Callers, Pass2(c) PROVE Unpaid'
    <3>1. /\ \A d \in Callers : d # c => pc'[d] = pc[d] /\ charged'[d] = charged[d]
          /\ pc'[c] \in {"commit", "ok"}
      BY <2>0, <2>3 DEF Pass2, CheckBucket
    <3> QED
      BY <3>1 DEF Unpaid
  <2>4. ASSUME NEW cfg \in Configs, SetLimits(cfg) PROVE Unpaid'
    BY <2>4 DEF SetLimits, Unpaid
  <2>5. CASE Tick
    BY <2>5 DEF Tick, Unpaid
  <2>6. CASE UNCHANGED vars
    BY <2>6 DEF vars, Unpaid
  <2> QED
    BY <2>1, <2>2, <2>3, <2>4, <2>5, <2>6 DEF Next
<1>3. Unpaid => RejectedChargesNothing
  BY DEF Unpaid, RejectedChargesNothing
<1> QED
  BY <1>1, <1>2, <1>3, Typed, PTL DEF Spec
=============================================================================
