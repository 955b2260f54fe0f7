---------------------------- MODULE RateLimiter ----------------------------
(***************************************************************************)
(* The request rate limiter of godwit-api/src/rate_limit.rs: token buckets *)
(* for requests and for tokens per minute, one of each per API key and per *)
(* organisation, and the two-pass check_and_consume that every proxy       *)
(* handler calls before it forwards a request.                             *)
(*                                                                         *)
(* Each bucket sits behind its own mutex, so one check_bucket call is one  *)
(* step; a check_and_consume call is up to eight of them and other calls,  *)
(* the clock and limit changes interleave between any two.                 *)
(*                                                                         *)
(* Tokens are f64 in the code and refill at capacity / 60 per second.      *)
(* Here they are counted in units of 1 / Window token, so that one second  *)
(* refills exactly `capacity' units (Window is 60 in the code).  Rounding  *)
(* of f64 is not modelled.                                                 *)
(***************************************************************************)
EXTENDS Integers

CONSTANTS
    Callers,    \* tasks that may be inside check_and_consume at the same time
    Keys,       \* API keys of one organisation
    Org,        \* the organisation
    Configs,    \* limit configurations an administrator may install
    MaxLimit,   \* the largest configured limit
    Estimates,  \* values of estimated_tokens
    Window,     \* seconds in which an empty bucket refills completely
    MaxTime     \* bound on the clock

Metrics == {"rpm", "tpm"}
Owners == Keys \cup {Org}
Buckets == Metrics \X Owners
Slots == 1..4

ASSUME RateLimiterAssumption ==
    /\ Org \notin Keys
    /\ MaxLimit \in Nat
    /\ Window \in Nat \ {0}
    /\ MaxTime \in Nat
    /\ Estimates \subseteq Nat \ {0}
    /\ Configs \subseteq [Buckets -> 0..MaxLimit]
    /\ Configs # {}

VARIABLES
    now,      \* Instant::now(), in seconds
    limits,   \* the configured limits; 0 stands for None or a value <= 0
    buckets,  \* the DashMap entries; capacity 0 stands for a missing entry
    pc,       \* where each call is
    slot,     \* index into `caches' of the bucket it looks at next
    call,     \* its arguments: key, estimate and the limits it was given
    slowest,  \* slowest_retry_after; 0 stands for None
    charged,  \* history: the slots this call has debited
    alone,    \* history: no other call has overlapped this one
    spent     \* history: everything ever debited from a bucket

vars == <<now, limits, buckets, pc, slot, call, slowest, charged, alone, spent>>

BucketState == [capacity: 0..MaxLimit, tokens: Int, last_refill: 0..MaxTime]
Calls == [key: Keys, estimate: Estimates, limit: [Slots -> 0..MaxLimit]]
NoCall == [key |-> Org]

(***************************************************************************)
(* The four entries of `caches' for a call made with API key k.            *)
(***************************************************************************)
SlotBucket(k, i) == <<IF i \in {1, 3} THEN "rpm" ELSE "tpm", IF i \in {1, 2} THEN k ELSE Org>>
SlotAmount(e, i) == IF i \in {1, 3} THEN 1 ELSE e

AtMost(x, bound) == IF x <= bound THEN x ELSE bound

\* slowest_retry_after after one more bucket has reported.
SlowerForgets(x, y) == x
SlowerMinimum(x, y) == IF x = 0 \/ y = 0 THEN x + y ELSE AtMost(x, y)
Slower(x, y) == IF x >= y THEN x ELSE y

\* The loops over `caches'.
NextSlot(i) == IF i < 4 THEN i + 1 ELSE 1

(***************************************************************************)
(* TokenBucket                                                             *)
(***************************************************************************)
NewBucket(limit) == [capacity |-> limit, tokens |-> limit * Window, last_refill |-> now]

RefillKeepsInstant(b, t) ==
    [capacity |-> b.capacity,
     tokens |-> AtMost(b.tokens + (t - b.last_refill) * b.capacity, b.capacity * Window),
     last_refill |-> b.last_refill]
Refill(b, t) ==
    [capacity |-> b.capacity,
     tokens |-> AtMost(b.tokens + (t - b.last_refill) * b.capacity, b.capacity * Window),
     last_refill |-> t]

\* Seconds until a refilled bucket can give `amount' tokens, rounded up; 0 is None.
DeficitRetryAfter(b, amount) ==
    LET deficit == amount * Window - b.tokens
    IN  IF deficit <= 0 THEN 0 ELSE (deficit + b.capacity - 1) \div b.capacity

Debit(b, amount) ==
    [capacity |-> b.capacity, tokens |-> b.tokens - amount * Window, last_refill |-> b.last_refill]

(***************************************************************************)
(* check_bucket: find or create the entry, follow a changed limit, refill, *)
(* and debit the amount when asked to and when it fits.                    *)
(***************************************************************************)
Entry(id, limit) == IF buckets[id].capacity = 0 THEN NewBucket(limit) ELSE buckets[id]

Sync(b, limit) ==
    IF b.capacity = limit THEN b
    ELSE [capacity |-> limit, tokens |-> AtMost(b.tokens, limit * Window),
          last_refill |-> b.last_refill]

Refilled(id, limit) == Refill(Sync(Entry(id, limit), limit), now)

RetryAfter(id, limit, amount) ==
    IF limit = 0 THEN 0 ELSE DeficitRetryAfter(Refilled(id, limit), amount)

Pays(id, limit, amount, debit) == debit /\ limit > 0 /\ RetryAfter(id, limit, amount) = 0

CheckBucket(c, id, i, limit, amount, debit) ==
    LET pays == Pays(id, limit, amount, debit)
        after == IF pays THEN Debit(Refilled(id, limit), amount) ELSE Refilled(id, limit)
    IN  /\ buckets' = IF limit = 0 THEN buckets ELSE [buckets EXCEPT ![id] = after]
        /\ charged' = [charged EXCEPT ![c] = IF pays THEN @ \cup {i} ELSE @]
        /\ spent' = [spent EXCEPT ![id] = IF pays THEN @ + amount * Window ELSE @]

-----------------------------------------------------------------------------

Init ==
    /\ now = 0
    /\ limits \in Configs
    /\ buckets = [id \in Buckets |-> [capacity |-> 0, tokens |-> 0, last_refill |-> 0]]
    /\ pc = [c \in Callers |-> "idle"]
    /\ slot = [c \in Callers |-> 1]
    /\ call = [c \in Callers |-> NoCall]
    /\ slowest = [c \in Callers |-> 0]
    /\ charged = [c \in Callers |-> {}]
    /\ alone = [c \in Callers |-> FALSE]
    /\ spent = [id \in Buckets |-> 0]

Active(c) == pc[c] \in {"check", "commit"}

\* A handler enters check_and_consume with the limits read for its key and organisation.
CheckAndConsume(c, k, e) ==
    /\ ~Active(c)
    /\ pc' = [pc EXCEPT ![c] = "check"]
    /\ slot' = [slot EXCEPT ![c] = 1]
    /\ call' = [call EXCEPT ![c] =
                   [key |-> k, estimate |-> e, limit |-> [i \in Slots |-> limits[SlotBucket(k, i)]]]]
    /\ slowest' = [slowest EXCEPT ![c] = 0]
    /\ charged' = [charged EXCEPT ![c] = {}]
    /\ alone' = [d \in Callers |-> IF d = c THEN \A x \in Callers : ~Active(x)
                                   ELSE alone[d] /\ ~Active(d)]
    /\ UNCHANGED <<now, limits, buckets, spent>>

\* Pass 1: a tentative check of one bucket; after the last one reject or go on.
Pass1(c) ==
    LET i == slot[c]
        limit == call[c].limit[i]
        id == SlotBucket(call[c].key, i)
        amount == SlotAmount(call[c].estimate, i)
        worst == Slower(RetryAfter(id, limit, amount), slowest[c])
    IN  /\ pc[c] = "check"
        /\ CheckBucket(c, id, i, limit, amount, FALSE)
        /\ slowest' = [slowest EXCEPT ![c] = worst]
        /\ slot' = [slot EXCEPT ![c] = NextSlot(i)]
        /\ pc' = [pc EXCEPT ![c] = IF i < 4 THEN "check"
                                   ELSE IF worst > 0 THEN "limited" ELSE "commit"]
        /\ UNCHANGED <<now, limits, call, alone>>

\* Pass 2: the same check again, now debiting; its result is not looked at.
Pass2(c) ==
    LET i == slot[c]
        id == SlotBucket(call[c].key, i)
    IN  /\ pc[c] = "commit"
        /\ CheckBucket(c, id, i, call[c].limit[i], SlotAmount(call[c].estimate, i), TRUE)
        /\ slot' = [slot EXCEPT ![c] = NextSlot(i)]
        /\ pc' = [pc EXCEPT ![c] = IF i < 4 THEN "commit" ELSE "ok"]
        /\ UNCHANGED <<now, limits, call, slowest, alone>>

\* An administrator changes the limits of the keys or of the organisation.
SetLimits(cfg) ==
    /\ limits # cfg
    /\ limits' = cfg
    /\ UNCHANGED <<now, buckets, pc, slot, call, slowest, charged, alone, spent>>

Tick ==
    /\ now < MaxTime
    /\ now' = now + 1
    /\ UNCHANGED <<limits, buckets, pc, slot, call, slowest, charged, alone, spent>>

Next ==
    \/ \E c \in Callers, k \in Keys, e \in Estimates : CheckAndConsume(c, k, e)
    \/ \E c \in Callers : Pass1(c)
    \/ \E c \in Callers : Pass2(c)
    \/ \E cfg \in Configs : SetLimits(cfg)
    \/ Tick

Spec == Init /\ [][Next]_vars

-----------------------------------------------------------------------------

\* The type of the state: every bucket, call and history variable has its shape.
TypeOK ==
    /\ now \in 0..MaxTime
    /\ limits \in [Buckets -> 0..MaxLimit]
    /\ buckets \in [Buckets -> BucketState]
    /\ pc \in [Callers -> {"idle", "check", "commit", "limited", "ok"}]
    /\ slot \in [Callers -> Slots]
    /\ call \in [Callers -> Calls \cup {NoCall}]
    /\ \A c \in Callers : pc[c] # "idle" => call[c] \in Calls
    /\ slowest \in [Callers -> Nat]
    /\ charged \in [Callers -> SUBSET Slots]
    /\ alone \in [Callers -> BOOLEAN]
    /\ spent \in [Buckets -> Nat]

\* TokenBucket::debit subtracts without a check of its own ("Only call after a successful
\* deficit_retry_after check"): no interleaving of calls and limit changes drives a bucket
\* below zero or above its capacity.
TokensWithinCapacity ==
    \A id \in Buckets : buckets[id].tokens \in 0 .. buckets[id].capacity * Window

\* The guarantee of a token bucket: up to any time, all that concurrent calls have debited
\* from a bucket is at most one burst plus the refill at the largest limit ever configured.
SpentWithinRate == \A id \in Buckets : spent[id] <= MaxLimit * (Window + now)

\* A call answered 429 has debited none of its buckets (the comment on pass 1).
RejectedChargesNothing == \A c \in Callers : pc[c] = "limited" => charged[c] = {}

Configured(c) == {i \in Slots : call[c].limit[i] > 0}

\* A call that no other call overlapped is admitted only with every configured bucket
\* debited, whatever the clock and the administrator did meanwhile.
IsolatedCallIsCharged ==
    \A c \in Callers : pc[c] = "ok" /\ alone[c] => charged[c] = Configured(c)

\* Every admitted call has debited every configured bucket (the comment on pass 2: "all
\* limits fit, so commit every debit").
AdmittedIsCharged == \A c \in Callers : pc[c] = "ok" => charged[c] = Configured(c)

\* The buckets of a rejected call, left alone for `wait' seconds, fit its amounts.
FitsAfter(c, slots, wait) ==
    \A i \in slots :
        LET id == SlotBucket(call[c].key, i)
            b == Sync(buckets[id], call[c].limit[i])
        IN  DeficitRetryAfter(Refill(b, now + wait), SlotAmount(call[c].estimate, i)) = 0

\* The Retry-After a rejected, undisturbed call reports is long enough for all of its
\* buckets to recover, provided each of its amounts fits in the bucket at all.
RetryAfterSuffices ==
    [][\A c \in Callers :
          /\ pc[c] = "check" /\ pc'[c] = "limited" /\ alone[c]
          /\ \A i \in Configured(c) : SlotAmount(call[c].estimate, i) <= call[c].limit[i]
          => FitsAfter(c, Configured(c), slowest[c])']_vars
=============================================================================
