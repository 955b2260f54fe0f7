---------------------------- MODULE LoadBalancer ----------------------------
(***************************************************************************)
(* The load balancer of godwit-api at the granularity of its atomics: the   *)
(* shared round-robin index, the scans of LeastBusy and Latency, which load *)
(* one counter after the other, the in-flight guard, and the load and the   *)
(* store of update_ewma, between which another request may store.           *)
(*                                                                          *)
(* Latencies are integers in fixed point; the weighted mean rounds up, so   *)
(* that, as for f64, a positive mean never becomes the 0 that stands for    *)
(* "no sample".                                                             *)
(***************************************************************************)
EXTENDS Integers, FiniteSets

CONSTANTS
    Clients,     \* requests that select, call and record concurrently
    N,           \* number of candidates, model_ids.len()
    Samples,     \* measured latencies
    MaxPicks     \* bound: round-robin selections

ASSUME LoadBalancerAssumption ==
    /\ IsFiniteSet(Clients)
    /\ N \in Nat \ {0}
    /\ Samples \subseteq Nat
    /\ MaxPicks \in Nat

Models == 1..N

\* Stands for a counter not loaded yet and for a candidate without samples.
Unread == -1

\* What a scan has loaded before its first turn.
Nothing == [m \in Models |-> Unread]

VARIABLES
    rr_index,      \* rr_index of the first candidate
    in_flight,     \* in_flight of every candidate
    latency_ewma,  \* latency_ewma of every candidate, 0 when it has no sample
    place,            \* where every caller is
    at,            \* the candidate a scan loads next
    seen,          \* what the scan of a caller has loaded
    choice,        \* min_idx, later the selected candidate
    sample,        \* duration_ms of the update in progress
    old,           \* the mean that the update in progress has loaded
    picks,         \* round-robin selections per candidate
    range          \* the least and the greatest sample recorded per candidate

balancer_vars == <<rr_index, in_flight, latency_ewma, place, at, seen, choice, sample, old,
          picks, range>>

BalancerInit ==
    /\ rr_index = 0
    /\ in_flight = [m \in Models |-> 0]
    /\ latency_ewma = [m \in Models |-> 0]
    /\ place = [c \in Clients |-> "idle"]
    /\ at = [c \in Clients |-> 1]
    /\ seen = [c \in Clients |-> Nothing]
    /\ choice = [c \in Clients |-> 1]
    /\ sample = [c \in Clients |-> 0]
    /\ old = [c \in Clients |-> 0]
    /\ picks = [m \in Models |-> 0]
    /\ range = [m \in Models |-> <<Unread, Unread>>]

----------------------------------------------------------------------------
(* select_provider *)

\* Mutant: the index skips the last candidate.
SlotShort(index) == 1 + (index % (IF N = 1 THEN 1 ELSE N - 1))

\* The candidate of a round-robin index.
Slot(index) == 1 + (index % N)

\* The request is over and its locals are gone.
Return(c) ==
    /\ place' = [place EXCEPT ![c] = "idle"]
    /\ at' = [at EXCEPT ![c] = 1]
    /\ seen' = [seen EXCEPT ![c] = Nothing]
    /\ choice' = [choice EXCEPT ![c] = 1]

\* RoundRobin is one fetch_add.
RoundRobin(c) ==
    /\ place[c] = "idle"
    /\ rr_index < MaxPicks
    /\ rr_index' = rr_index + 1
    /\ choice' = [choice EXCEPT ![c] = Slot(rr_index)]
    /\ picks' = [picks EXCEPT ![Slot(rr_index)] = @ + 1]
    /\ place' = [place EXCEPT ![c] = "selected"]
    /\ UNCHANGED <<in_flight, latency_ewma, at, seen, sample, old, range>>

\* LeastBusy and Latency start their scan.
StartScan(c) ==
    /\ place[c] = "idle"
    /\ \E scan \in {"least_busy", "latency"} : place' = [place EXCEPT ![c] = scan]
    /\ UNCHANGED <<rr_index, in_flight, latency_ewma, at, seen, choice, sample, old,
                   picks, range>>

\* Does a loaded value beat the least so far (usize::MAX or INFINITY at first)?
Less(value, best) == best = Unread \/ value < best

\* One turn of the loop: load a candidate's counter, keep it when it is less.
Scan(c) ==
    LET value == IF place[c] = "least_busy" THEN in_flight[at[c]] ELSE latency_ewma[at[c]]
        best == seen[c][choice[c]]
    IN
    /\ place[c] \in {"least_busy", "latency"}
    /\ seen' = [seen EXCEPT ![c][at[c]] = value]
    /\ choice' = [choice EXCEPT ![c] = IF Less(value, best) THEN at[c] ELSE @]
    /\ IF at[c] < N
       THEN at' = [at EXCEPT ![c] = @ + 1] /\ UNCHANGED place
       ELSE place' = [place EXCEPT ![c] = "selected"] /\ UNCHANGED at
    /\ UNCHANGED <<rr_index, in_flight, latency_ewma, sample, old, picks, range>>

----------------------------------------------------------------------------
(* The guard and the mean *)

\* increment_in_flight, once the profile of the selected row has been read.
IncrementInFlight(c) ==
    /\ place[c] = "selected"
    /\ in_flight' = [in_flight EXCEPT ![choice[c]] = @ + 1]
    /\ place' = [place EXCEPT ![c] = "calling"]
    /\ seen' = [seen EXCEPT ![c] = Nothing]
    /\ UNCHANGED <<rr_index, latency_ewma, at, choice, sample, old, picks, range>>

\* The row's profile is disabled or the model not capable: no guard is taken.
Refuse(c) ==
    /\ place[c] = "selected"
    /\ Return(c)
    /\ UNCHANGED <<rr_index, in_flight, latency_ewma, sample, old, picks, range>>

\* The range of the samples of a candidate once s is one of them.
Widen(r, s) ==
    <<IF r[1] = Unread \/ s < r[1] THEN s ELSE r[1], IF s > r[2] THEN s ELSE r[2]>>

\* record_latency of a request that was answered: update_ewma loads the mean.
LoadEwma(c) ==
    LET m == choice[c] IN
    /\ place[c] = "calling"
    /\ \E s \in Samples :
        /\ sample' = [sample EXCEPT ![c] = s]
        /\ range' = [range EXCEPT ![m] = Widen(@, s)]
    /\ old' = [old EXCEPT ![c] = latency_ewma[m]]
    /\ place' = [place EXCEPT ![c] = "storing"]
    /\ UNCHANGED <<rr_index, in_flight, latency_ewma, at, seen, choice, picks>>

\* update_ewma: the first sample as it is, then 0.2 * sample + 0.8 * old.
Mean(s, o) == IF o = 0 THEN s ELSE (s + 4 * o + 4) \div 5

\* update_ewma stores what it has computed from the mean it had loaded.
StoreEwma(c) ==
    /\ place[c] = "storing"
    /\ latency_ewma' = [latency_ewma EXCEPT ![choice[c]] = Mean(sample[c], old[c])]
    /\ place' = [place EXCEPT ![c] = "recorded"]
    /\ sample' = [sample EXCEPT ![c] = 0]
    /\ old' = [old EXCEPT ![c] = 0]
    /\ UNCHANGED <<rr_index, in_flight, at, seen, choice, picks, range>>

\* The fetch_sub of a guard's drop.
Release(counter, m) == [counter EXCEPT ![m] = @ - 1]

\* The guard is dropped, with or without a recorded latency.
DropGuard(c) ==
    /\ place[c] \in {"calling", "recorded"}
    /\ in_flight' = Release(in_flight, choice[c])
    /\ Return(c)
    /\ UNCHANGED <<rr_index, latency_ewma, sample, old, picks, range>>

BalancerNext ==
    \E c \in Clients :
        \/ RoundRobin(c) \/ StartScan(c) \/ Scan(c)
        \/ IncrementInFlight(c) \/ Refuse(c)
        \/ LoadEwma(c) \/ StoreEwma(c) \/ DropGuard(c)

BalancerSpec == BalancerInit /\ [][BalancerNext]_balancer_vars

----------------------------------------------------------------------------
(* Properties *)

\* Every variable has its type; in particular no drop takes a counter below zero.
BalancerTypeOK ==
    /\ rr_index \in 0..MaxPicks
    /\ in_flight \in [Models -> Nat]
    /\ latency_ewma \in [Models -> Nat]
    /\ place \in [Clients -> {"idle", "least_busy", "latency", "selected", "calling",
                           "storing", "recorded"}]
    /\ at \in [Clients -> Models]
    /\ seen \in [Clients -> [Models -> Nat \cup {Unread}]]
    /\ choice \in [Clients -> Models]
    /\ sample \in [Clients -> Nat]
    /\ old \in [Clients -> Nat]
    /\ picks \in [Models -> Nat]
    /\ range \in [Models -> (Nat \cup {Unread}) \X (Nat \cup {Unread})]

\* The callers that hold an InFlightGuard on m.
Guards(m) ==
    {c \in Clients : place[c] \in {"calling", "storing", "recorded"} /\ choice[c] = m}

\* in_flight of a candidate is the number of living guards on it, at every
\* interleaving of increments and drops.
InFlightCountsGuards == \A m \in Models : in_flight[m] = Cardinality(Guards(m))

\* Round robin under concurrency: however the fetch_adds of the callers
\* interleave with everything else, no candidate is ever selected more than once
\* more often than another.
RoundRobinEven == \A i, j \in Models : picks[i] <= picks[j] + 1

\* Updates that overwrite each other lose samples, but the mean they leave
\* always lies between the least and the greatest sample of the candidate.
EwmaWithinSamples ==
    \A m \in Models :
        latency_ewma[m] # 0 => range[m][1] <= latency_ewma[m] /\ latency_ewma[m] <= range[m][2]
=============================================================================
