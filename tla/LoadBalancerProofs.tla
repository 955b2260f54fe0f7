------------------------- MODULE LoadBalancerProofs -------------------------
(***************************************************************************)
(* Proofs about LoadBalancer for any finite set of callers, any number of   *)
(* candidates and any set of samples.                                       *)
(*                                                                          *)
(* EwmaWithinSamples is not inductive: a store writes a mean computed from  *)
(* a value loaded earlier.  Its strengthening EwmaInv says the same of the  *)
(* mean and of the sample that every update in progress holds.              *)
(* RoundRobinEven is not inductive either: RRInv says which candidates have *)
(* had their turn in the current round.                                     *)
(***************************************************************************)
EXTENDS LoadBalancer, FiniteSetTheorems, TLAPS

\* v is a mean that the samples of m allow: none, or within their range.
Within(v, m) == v # 0 => range[m][1] <= v /\ v <= range[m][2]

\* A candidate has a range exactly when it has samples, and its mean, as well as
\* whatever an update in progress holds, lies in it.
EwmaInv ==
    /\ \A m \in Models : range[m][1] = Unread => latency_ewma[m] = 0
    /\ \A m \in Models : Within(latency_ewma[m], m)
    /\ \A c \in Clients : place[c] = "storing" =>
        /\ range[choice[c]][1] # Unread
        /\ range[choice[c]][1] <= sample[c] /\ sample[c] <= range[choice[c]][2]
        /\ Within(old[c], choice[c])

\* The candidates before the slot of rr_index have been selected once more than
\* the others, which are level.
RRInv ==
    \A i, j \in Models :
        /\ (i <= rr_index % N /\ j <= rr_index % N) => picks[i] = picks[j]
        /\ (i > rr_index % N /\ j > rr_index % N) => picks[i] = picks[j]
        /\ (i <= rr_index % N /\ j > rr_index % N) => picks[i] = picks[j] + 1

IInv == BalancerTypeOK /\ InFlightCountsGuards /\ RRInv /\ EwmaInv

----------------------------------------------------------------------------
(* Arithmetic *)

\* Quotient and remainder are unique: what the index % len of select_provider
\* rests on.
LEMMA DivisionUnique ==
  ASSUME NEW n \in Nat \ {0}, NEW a \in Nat, NEW c \in Nat,
         NEW b \in 0..(n-1), NEW d \in 0..(n-1), n*a + b = n*c + d
  PROVE  b = d
<1>1. ASSUME NEW u \in Nat, NEW v \in Nat, u < v PROVE n*u + n <= n*v
  <2>1. PICK k \in Nat : v = u + 1 + k
    BY <1>1, SMT
  <2>2. n * v = n*u + n + n*k
    BY <2>1, SMT
  <2>3. n * k >= 0 /\ n*u \in Nat
    BY SMT
  <2> QED BY <2>2, <2>3, SMT
<1>2. n*a \in Nat /\ n*c \in Nat
  OBVIOUS
<1>3. a < c \/ c < a \/ a = c
  OBVIOUS
<1>4. ~(a < c)
  BY <1>1, <1>2, SMT
<1>5. ~(c < a)
  BY <1>1, <1>2, SMT
<1> QED BY <1>2, <1>3, <1>4, <1>5, SMT

\* The slot of fetch_add's next value is the next slot, and 0 after the last.
LEMMA ModStep ==
  ASSUME NEW x \in Nat, NEW n \in Nat \ {0}
  PROVE /\ x % n \in 0..(n-1)
        /\ (x+1) % n = IF (x % n) + 1 = n THEN 0 ELSE (x % n) + 1
<1> DEFINE q == x \div n
           r == x % n
           q1 == (x+1) \div n
           r1 == (x+1) % n
<1>1. r \in 0..(n-1) /\ q \in Nat /\ x = n*q + r
  OBVIOUS
<1>a. r1 \in 0..(n-1) /\ q1 \in Nat /\ x+1 = n*q1 + r1
  OBVIOUS
<1>2. CASE r + 1 = n
  <2>1. x + 1 = n * (q+1) + 0 /\ 0 \in 0..(n-1) /\ q+1 \in Nat
    BY <1>1, <1>2, SMT
  <2>2. n*(q+1) + 0 = n*q1 + r1
    BY <2>1, <1>a
  <2> HIDE DEF q, r, q1, r1
  <2>3. r1 = 0
    BY DivisionUnique, <2>1, <1>a, <2>2
  <2> QED BY <2>3, <1>1, <1>2 DEF r, r1
<1>3. CASE r + 1 # n
  <2>1. x + 1 = n * q + (r + 1) /\ r+1 \in 0..(n-1)
    BY <1>1, <1>3, SMT
  <2>2. n*q + (r+1) = n*q1 + r1
    BY <2>1, <1>a
  <2> HIDE DEF q, r, q1, r1
  <2>3. r1 = r + 1
    BY DivisionUnique, <2>1, <1>1, <1>a, <2>2
  <2> QED BY <2>3, <1>1, <1>3 DEF r, r1
<1> QED BY <1>1, <1>2, <1>3

\* The weighted mean of update_ewma lies between its sample and the old mean.
LEMMA MeanBetween ==
  ASSUME NEW s \in Nat, NEW o \in Nat, NEW lo \in Int, NEW hi \in Int,
         lo <= s, s <= hi, o # 0 => lo <= o /\ o <= hi
  PROVE  Mean(s, o) \in Nat /\ lo <= Mean(s, o) /\ Mean(s, o) <= hi
  BY SMT DEF Mean

----------------------------------------------------------------------------
(* The inductive invariant *)

\* A freshly created LoadBalancer satisfies the invariant.
LEMMA InitIInv == BalancerInit => IInv
<1> SUFFICES ASSUME BalancerInit PROVE IInv
  OBVIOUS
<1> USE LoadBalancerAssumption DEF BalancerInit, Models, Unread, Nothing
<1>1. BalancerTypeOK
  BY DEF BalancerTypeOK
<1>2. InFlightCountsGuards
  <2>1. \A m \in Models : Guards(m) = {}
    BY DEF Guards
  <2> QED BY <2>1, FS_EmptySet DEF InFlightCountsGuards
<1>3. RRInv
  <2>1. 0 % N = 0
    OBVIOUS
  <2> QED BY <2>1 DEF RRInv
<1>4. EwmaInv
  BY DEF EwmaInv, Within
<1> QED BY <1>1, <1>2, <1>3, <1>4 DEF IInv

\* Guards are finite in number, and a counter with a guard on it is positive.
LEMMA GuardsFinite ==
  ASSUME NEW m \in Models
  PROVE  /\ IsFiniteSet(Guards(m)) /\ Cardinality(Guards(m)) \in Nat
         /\ Guards(m) # {} => Cardinality(Guards(m)) > 0
<1>1. IsFiniteSet(Guards(m))
  BY LoadBalancerAssumption, FS_Subset DEF Guards
<1>2. Cardinality(Guards(m)) \in Nat /\ (Cardinality(Guards(m)) = 0 <=> Guards(m) = {})
  BY <1>1, FS_CardinalityType, FS_EmptySet
<1> QED BY <1>1, <1>2, SMT

\* Every operation preserves the types: fetch_sub is only reached by a caller
\* whose guard is counted.
LEMMA NextTypeOK == BalancerTypeOK /\ InFlightCountsGuards /\ [BalancerNext]_balancer_vars => BalancerTypeOK'
<1> SUFFICES ASSUME BalancerTypeOK, InFlightCountsGuards PROVE [BalancerNext]_balancer_vars => BalancerTypeOK'
  OBVIOUS
<1> USE DEF BalancerTypeOK
<1>0. /\ 1 \in Models
      /\ Nothing \in [Models -> Nat \cup {Unread}]
      /\ \A m \in Models : m < N => m + 1 \in Models
      /\ Slot(rr_index) \in Models
  <2>1. Slot(rr_index) \in Models
    <3>1. rr_index \in Nat /\ N \in Nat \ {0}
      BY LoadBalancerAssumption
    <3>2. rr_index % N \in 0..(N - 1)
      BY <3>1, ModStep
    <3> QED BY <3>1, <3>2 DEF Models, Slot
  <2>2. Nothing \in [Models -> Nat \cup {Unread}]
    BY DEF Nothing
  <2> QED BY <2>1, <2>2, LoadBalancerAssumption DEF Models
<1>1. CASE UNCHANGED balancer_vars
  BY <1>1 DEF balancer_vars
<1>2. ASSUME NEW c \in Clients, RoundRobin(c) PROVE BalancerTypeOK'
  <2>1. rr_index' \in 0..MaxPicks
    BY <1>2, LoadBalancerAssumption DEF RoundRobin
  <2> QED BY <1>0, <1>2, <2>1 DEF RoundRobin
<1>3. ASSUME NEW c \in Clients, StartScan(c) PROVE BalancerTypeOK'
  BY <1>0, <1>3 DEF StartScan
<1>4. ASSUME NEW c \in Clients, Scan(c) PROVE BalancerTypeOK'
  <2>1. seen' \in [Clients -> [Models -> Nat \cup {Unread}]]
    BY <1>4 DEF Scan
  <2>2. choice' \in [Clients -> Models]
    BY <1>4 DEF Scan
  <2>3. at' \in [Clients -> Models]
    BY <1>0, <1>4 DEF Scan
  <2>4. place' \in [Clients -> {"idle", "least_busy", "latency", "selected", "calling",
                             "storing", "recorded"}]
    BY <1>4 DEF Scan
  <2>5. UNCHANGED <<rr_index, in_flight, latency_ewma, sample, old, picks, range>>
    BY <1>4 DEF Scan
  <2> QED BY <2>1, <2>2, <2>3, <2>4, <2>5
<1>5. ASSUME NEW c \in Clients, IncrementInFlight(c) PROVE BalancerTypeOK'
  BY <1>0, <1>5 DEF IncrementInFlight
<1>6. ASSUME NEW c \in Clients, Refuse(c) PROVE BalancerTypeOK'
  BY <1>0, <1>6 DEF Refuse, Return
<1>7. ASSUME NEW c \in Clients, LoadEwma(c) PROVE BalancerTypeOK'
  <2>1. PICK s \in Samples :
          /\ sample' = [sample EXCEPT ![c] = s]
          /\ range' = [range EXCEPT ![choice[c]] = Widen(@, s)]
    BY <1>7 DEF LoadEwma
  <2>2. \A r \in (Nat \cup {Unread}) \X (Nat \cup {Unread}) :
          Widen(r, s) \in (Nat \cup {Unread}) \X (Nat \cup {Unread})
    BY LoadBalancerAssumption DEF Widen
  <2>3. range' \in [Models -> (Nat \cup {Unread}) \X (Nat \cup {Unread})]
    BY <2>1, <2>2
  <2>4. s \in Nat
    BY LoadBalancerAssumption
  <2> HIDE DEF Widen
  <2> QED BY <1>7, <2>1, <2>3, <2>4 DEF LoadEwma
<1>8. ASSUME NEW c \in Clients, StoreEwma(c) PROVE BalancerTypeOK'
  <2>1. Mean(sample[c], old[c]) \in Nat
    BY DEF Mean
  <2> QED BY <1>8, <2>1 DEF StoreEwma
<1>9. ASSUME NEW c \in Clients, DropGuard(c) PROVE BalancerTypeOK'
  <2>1. c \in Guards(choice[c])
    BY <1>9 DEF DropGuard, Guards
  <2>2. in_flight[choice[c]] > 0
    BY <2>1, GuardsFinite DEF InFlightCountsGuards
  <2>3. in_flight' \in [Models -> Nat]
    BY <1>9, <2>2 DEF DropGuard, Release
  <2> QED BY <1>0, <1>9, <2>3 DEF DropGuard, Return
<1> QED BY <1>1, <1>2, <1>3, <1>4, <1>5, <1>6, <1>7, <1>8, <1>9 DEF BalancerNext

\* Every operation keeps the in-flight counters equal to the number of guards.
LEMMA NextCounts ==
  BalancerTypeOK /\ InFlightCountsGuards /\ [BalancerNext]_balancer_vars => InFlightCountsGuards'
<1> SUFFICES ASSUME BalancerTypeOK, InFlightCountsGuards, [BalancerNext]_balancer_vars,
                    NEW m \in Models
             PROVE  in_flight'[m] = Cardinality(Guards(m)')
  BY DEF InFlightCountsGuards
<1>0. in_flight[m] = Cardinality(Guards(m)) /\ IsFiniteSet(Guards(m))
  BY GuardsFinite DEF InFlightCountsGuards
<1>1. CASE UNCHANGED balancer_vars
  <2>1. Guards(m)' = Guards(m)
    BY <1>1 DEF balancer_vars, Guards
  <2> QED BY <1>0, <1>1, <2>1 DEF balancer_vars
<1>2. ASSUME NEW c \in Clients,
             RoundRobin(c) \/ StartScan(c) \/ Scan(c) \/ Refuse(c)
      PROVE  in_flight'[m] = Cardinality(Guards(m)')
  <2>1. Guards(m)' = Guards(m)
    BY <1>2 DEF RoundRobin, StartScan, Scan, Refuse, Return, Guards, BalancerTypeOK
  <2>2. in_flight' = in_flight
    BY <1>2 DEF RoundRobin, StartScan, Scan, Refuse
  <2> QED BY <1>0, <2>1, <2>2
<1>3. ASSUME NEW c \in Clients, LoadEwma(c) \/ StoreEwma(c)
      PROVE  in_flight'[m] = Cardinality(Guards(m)')
  <2>1. Guards(m)' = Guards(m)
    BY <1>3 DEF LoadEwma, StoreEwma, Guards, BalancerTypeOK
  <2>2. in_flight' = in_flight
    BY <1>3 DEF LoadEwma, StoreEwma
  <2> QED BY <1>0, <2>1, <2>2
<1>4. ASSUME NEW c \in Clients, IncrementInFlight(c)
      PROVE  in_flight'[m] = Cardinality(Guards(m)')
  <2>1. CASE m = choice[c]
    <3>1. Guards(m)' = Guards(m) \cup {c} /\ c \notin Guards(m)
      BY <1>4, <2>1 DEF IncrementInFlight, Guards, BalancerTypeOK
    <3>2. in_flight'[m] = in_flight[m] + 1
      BY <1>4, <2>1 DEF IncrementInFlight, BalancerTypeOK
    <3> QED BY <1>0, <3>1, <3>2, FS_AddElement
  <2>2. CASE m # choice[c]
    <3>1. Guards(m)' = Guards(m)
      BY <1>4, <2>2 DEF IncrementInFlight, Guards, BalancerTypeOK
    <3>2. in_flight'[m] = in_flight[m]
      BY <1>4, <2>2 DEF IncrementInFlight, BalancerTypeOK
    <3> QED BY <1>0, <3>1, <3>2
  <2> QED BY <2>1, <2>2
<1>5. ASSUME NEW c \in Clients, DropGuard(c)
      PROVE  in_flight'[m] = Cardinality(Guards(m)')
  <2>1. CASE m = choice[c]
    <3>1. Guards(m)' = Guards(m) \ {c} /\ c \in Guards(m)
      BY <1>5, <2>1 DEF DropGuard, Return, Guards, BalancerTypeOK
    <3>2. in_flight'[m] = in_flight[m] - 1
      BY <1>5, <2>1 DEF DropGuard, Release, BalancerTypeOK
    <3> QED BY <1>0, <3>1, <3>2, FS_RemoveElement
  <2>2. CASE m # choice[c]
    <3>1. Guards(m)' = Guards(m)
      BY <1>5, <2>2 DEF DropGuard, Return, Guards, BalancerTypeOK
    <3>2. in_flight'[m] = in_flight[m]
      BY <1>5, <2>2 DEF DropGuard, Release, BalancerTypeOK
    <3> QED BY <1>0, <3>1, <3>2
  <2> QED BY <2>1, <2>2
<1> QED BY <1>1, <1>2, <1>3, <1>4, <1>5 DEF BalancerNext

\* Every operation preserves what a round of round robin looks like.
LEMMA NextRR == BalancerTypeOK /\ RRInv /\ [BalancerNext]_balancer_vars => RRInv'
<1> SUFFICES ASSUME BalancerTypeOK, RRInv PROVE [BalancerNext]_balancer_vars => RRInv'
  OBVIOUS
<1>1. ASSUME UNCHANGED <<rr_index, picks>> PROVE RRInv'
  BY <1>1 DEF RRInv
<1>2. ASSUME NEW c \in Clients, RoundRobin(c) PROVE RRInv'
  <2> DEFINE r == rr_index % N
             r1 == (rr_index + 1) % N
  <2>1. rr_index \in Nat /\ N \in Nat \ {0}
    BY LoadBalancerAssumption DEF BalancerTypeOK
  <2>2. r \in 0..(N - 1) /\ r1 = IF r + 1 = N THEN 0 ELSE r + 1
    BY <2>1, ModStep
  <2>3. picks \in [Models -> Nat] /\ picks' = [picks EXCEPT ![1 + r] = @ + 1]
    BY <1>2 DEF RoundRobin, Slot, BalancerTypeOK
  <2>4. \A i, j \in Models :
          /\ (i <= r /\ j <= r) => picks[i] = picks[j]
          /\ (i > r /\ j > r) => picks[i] = picks[j]
          /\ (i <= r /\ j > r) => picks[i] = picks[j] + 1
    BY DEF RRInv
  <2>5. rr_index' % N = r1
    BY <1>2 DEF RoundRobin
  <2> HIDE DEF r, r1
  <2>6. \A i \in Models : picks'[i] = IF i = 1 + r THEN picks[i] + 1 ELSE picks[i]
    BY <2>2, <2>3
  <2>7. \A i, j \in Models :
          /\ (i <= r1 /\ j <= r1) => picks'[i] = picks'[j]
          /\ (i > r1 /\ j > r1) => picks'[i] = picks'[j]
          /\ (i <= r1 /\ j > r1) => picks'[i] = picks'[j] + 1
    <3> SUFFICES ASSUME NEW i \in Models, NEW j \in Models
                 PROVE  /\ (i <= r1 /\ j <= r1) => picks'[i] = picks'[j]
                        /\ (i > r1 /\ j > r1) => picks'[i] = picks'[j]
                        /\ (i <= r1 /\ j > r1) => picks'[i] = picks'[j] + 1
      OBVIOUS
    <3>1. 1 + r \in Models /\ i \in 1..N /\ j \in 1..N
      BY <2>1, <2>2 DEF Models
    <3>2. picks[i] \in Nat /\ picks[j] \in Nat /\ picks[1 + r] \in Nat
      BY <2>3, <3>1
    <3>3. /\ picks'[i] = IF i = 1 + r THEN picks[i] + 1 ELSE picks[i]
          /\ picks'[j] = IF j = 1 + r THEN picks[j] + 1 ELSE picks[j]
      BY <2>6
    <3>4. /\ (i <= r /\ j <= r) => picks[i] = picks[j]
          /\ (i > r /\ j > r) => picks[i] = picks[j]
          /\ (i <= r /\ j > r) => picks[i] = picks[j] + 1
          /\ (j <= r /\ i > r) => picks[j] = picks[i] + 1
      BY <2>4
    <3> QED BY <2>1, <2>2, <3>1, <3>2, <3>3, <3>4, SMT
  <2> QED BY <2>5, <2>7 DEF RRInv
<1>3. ASSUME NEW c \in Clients,
             \/ StartScan(c) \/ Scan(c) \/ IncrementInFlight(c) \/ Refuse(c)
             \/ LoadEwma(c) \/ StoreEwma(c) \/ DropGuard(c)
      PROVE  UNCHANGED <<rr_index, picks>>
  BY <1>3 DEF StartScan, Scan, IncrementInFlight, Refuse, LoadEwma, StoreEwma, DropGuard
<1> QED BY <1>1, <1>2, <1>3 DEF BalancerNext, balancer_vars

\* What the operations other than LoadEwma and StoreEwma leave alone, and which
\* callers they leave in the middle of an update.
LEMMA EwmaUntouched ==
  ASSUME BalancerTypeOK, NEW c \in Clients,
         \/ RoundRobin(c) \/ StartScan(c) \/ Scan(c) \/ IncrementInFlight(c)
         \/ Refuse(c) \/ DropGuard(c)
  PROVE  /\ UNCHANGED <<latency_ewma, range, sample, old>>
         /\ \A d \in Clients : place'[d] = "storing" =>
                place[d] = "storing" /\ choice'[d] = choice[d]
  BY DEF RoundRobin, StartScan, Scan, IncrementInFlight, Refuse, DropGuard, Return, BalancerTypeOK

\* Every operation keeps the means, and what an update in progress holds, within
\* the samples: the sample widens the range before its mean is stored.
LEMMA NextEwma == BalancerTypeOK /\ EwmaInv /\ [BalancerNext]_balancer_vars => EwmaInv'
<1> SUFFICES ASSUME BalancerTypeOK, EwmaInv PROVE [BalancerNext]_balancer_vars => EwmaInv'
  OBVIOUS
<1>1. CASE UNCHANGED balancer_vars
  BY <1>1 DEF balancer_vars, EwmaInv, Within
<1>2. ASSUME NEW c \in Clients,
             \/ RoundRobin(c) \/ StartScan(c) \/ Scan(c) \/ IncrementInFlight(c)
             \/ Refuse(c) \/ DropGuard(c)
      PROVE  EwmaInv'
  BY <1>2, EwmaUntouched DEF EwmaInv, Within
<1>3. ASSUME NEW c \in Clients, LoadEwma(c) PROVE EwmaInv'
  <2> DEFINE m == choice[c]
  <2>1. PICK s \in Samples :
          /\ sample' = [sample EXCEPT ![c] = s]
          /\ range' = [range EXCEPT ![m] = Widen(@, s)]
    BY <1>3 DEF LoadEwma
  <2>2. /\ s \in Nat /\ m \in Models
        /\ old' = [old EXCEPT ![c] = latency_ewma[m]]
        /\ place' = [place EXCEPT ![c] = "storing"]
        /\ UNCHANGED <<latency_ewma, choice>>
    BY <1>3, LoadBalancerAssumption DEF LoadEwma, BalancerTypeOK
  <2>3. /\ range'[m][1] # Unread
        /\ range'[m][1] <= s /\ s <= range'[m][2]
        /\ \A v \in Nat : (v # 0 => range[m][1] # Unread) /\ Within(v, m)
                           => (v # 0 => range'[m][1] <= v /\ v <= range'[m][2])
    <3>1. range[m] \in (Nat \cup {Unread}) \X (Nat \cup {Unread})
      BY <2>2 DEF BalancerTypeOK
    <3>2. range'[m] = Widen(range[m], s)
      BY <2>1, <2>2 DEF BalancerTypeOK
    <3> QED BY <2>2, <3>1, <3>2, SMT DEF Widen, Within, Unread
  <2>4. \A n \in Models : n # m => range'[n] = range[n]
    BY <2>1, <2>2 DEF BalancerTypeOK
  <2>5. \A n \in Models : /\ range'[n][1] = Unread => latency_ewma'[n] = 0
                          /\ Within(latency_ewma[n], n)'
    BY <2>2, <2>3, <2>4 DEF EwmaInv, Within, BalancerTypeOK
  <2>6. ASSUME NEW d \in Clients, place'[d] = "storing"
        PROVE  /\ range'[choice'[d]][1] # Unread
               /\ range'[choice'[d]][1] <= sample'[d] /\ sample'[d] <= range'[choice'[d]][2]
               /\ Within(old[d], choice[d])'
    <3>1. CASE d = c
      <4>1. sample'[d] = s /\ old'[d] = latency_ewma[m] /\ choice'[d] = m
        BY <2>1, <2>2, <3>1 DEF BalancerTypeOK
      <4>2. latency_ewma[m] \in Nat /\ (latency_ewma[m] # 0 => range[m][1] # Unread)
            /\ Within(latency_ewma[m], m)
        BY <2>2 DEF EwmaInv, BalancerTypeOK
      <4> QED BY <2>3, <4>1, <4>2 DEF Within
    <3>2. CASE d # c
      <4>1. /\ sample'[d] = sample[d] /\ old'[d] = old[d] /\ choice'[d] = choice[d]
            /\ place[d] = "storing" /\ choice[d] \in Models
            /\ sample[d] \in Nat /\ old[d] \in Nat
        BY <2>1, <2>2, <2>6, <3>2 DEF BalancerTypeOK
      <4>2. /\ range[choice[d]][1] # Unread
            /\ range[choice[d]][1] <= sample[d] /\ sample[d] <= range[choice[d]][2]
            /\ Within(old[d], choice[d])
        BY <4>1 DEF EwmaInv
      <4>3. CASE choice[d] # m
        BY <2>4, <4>1, <4>2, <4>3 DEF Within
      <4>4. CASE choice[d] = m
        <5>1. range[m] \in (Nat \cup {Unread}) \X (Nat \cup {Unread})
              /\ range'[m] = Widen(range[m], s)
          BY <2>1, <2>2 DEF BalancerTypeOK
        <5>2. range'[m][1] <= sample[d] /\ sample[d] <= range'[m][2]
          BY <2>2, <4>1, <4>2, <4>4, <5>1, SMT DEF Widen, Unread
        <5>3. old[d] # 0 => range'[m][1] <= old[d] /\ old[d] <= range'[m][2]
          BY <2>3, <4>1, <4>2, <4>4
        <5> QED BY <2>3, <4>1, <4>4, <5>2, <5>3 DEF Within
      <4> QED BY <4>3, <4>4
    <3> QED BY <3>1, <3>2
  <2> QED BY <2>5, <2>6 DEF EwmaInv
<1>4. ASSUME NEW c \in Clients, StoreEwma(c) PROVE EwmaInv'
  <2> DEFINE m == choice[c]
             mean == Mean(sample[c], old[c])
  <2>1. /\ m \in Models /\ sample[c] \in Nat /\ old[c] \in Nat
        /\ range[m] \in (Nat \cup {Unread}) \X (Nat \cup {Unread})
        /\ place[c] = "storing"
    BY <1>4 DEF StoreEwma, BalancerTypeOK
  <2>2. /\ range[m][1] # Unread
        /\ range[m][1] <= sample[c] /\ sample[c] <= range[m][2]
        /\ old[c] # 0 => range[m][1] <= old[c] /\ old[c] <= range[m][2]
    BY <2>1 DEF EwmaInv, Within
  <2>3. range[m][1] \in Int /\ range[m][2] \in Int
    BY <2>1 DEF Unread
  <2>4. range[m][1] <= mean /\ mean <= range[m][2]
    BY <2>1, <2>2, <2>3, MeanBetween
  <2>5. /\ latency_ewma' = [latency_ewma EXCEPT ![m] = mean]
        /\ UNCHANGED <<range, choice>>
        /\ place' = [place EXCEPT ![c] = "recorded"]
        /\ sample' = [sample EXCEPT ![c] = 0] /\ old' = [old EXCEPT ![c] = 0]
    BY <1>4 DEF StoreEwma
  <2> HIDE DEF mean
  <2>6. \A n \in Models : /\ range'[n][1] = Unread => latency_ewma'[n] = 0
                          /\ Within(latency_ewma[n], n)'
    BY <2>1, <2>2, <2>4, <2>5 DEF EwmaInv, Within, BalancerTypeOK
  <2>7. \A d \in Clients : place'[d] = "storing" =>
          /\ range'[choice'[d]][1] # Unread
          /\ range'[choice'[d]][1] <= sample'[d] /\ sample'[d] <= range'[choice'[d]][2]
          /\ Within(old[d], choice[d])'
    BY <2>5 DEF EwmaInv, Within, BalancerTypeOK
  <2> QED BY <2>6, <2>7 DEF EwmaInv
<1> QED BY <1>1, <1>2, <1>3, <1>4 DEF BalancerNext

\* The invariant holds in every reachable state.
LEMMA IInvHolds == BalancerSpec => []IInv
<1>1. IInv /\ [BalancerNext]_balancer_vars => IInv'
  BY NextTypeOK, NextCounts, NextRR, NextEwma DEF IInv
<1> QED BY InitIInv, <1>1, PTL DEF BalancerSpec

----------------------------------------------------------------------------
(* The theorems *)

\* The in-flight counters are well typed, never negative in particular.
THEOREM Typed == BalancerSpec => []BalancerTypeOK
  BY IInvHolds, PTL DEF IInv

\* in_flight is the number of living InFlightGuards, for any number of callers.
THEOREM GuardsAreCounted == BalancerSpec => []InFlightCountsGuards
  BY IInvHolds, PTL DEF IInv

\* The round robin of select_provider is even to within one selection, however
\* many callers share its index.
THEOREM EvenRounds == BalancerSpec => []RoundRobinEven
<1>1. IInv => RoundRobinEven
  <2> SUFFICES ASSUME IInv, NEW i \in Models, NEW j \in Models
               PROVE  picks[i] <= picks[j] + 1
    BY DEF RoundRobinEven
  <2>1. i \in Int /\ j \in Int /\ picks[i] \in Nat /\ picks[j] \in Nat
    BY LoadBalancerAssumption DEF IInv, BalancerTypeOK, Models
  <2>2. rr_index % N \in Int
    BY LoadBalancerAssumption, ModStep DEF IInv, BalancerTypeOK
  <2>3. /\ (i <= rr_index % N /\ j <= rr_index % N) => picks[i] = picks[j]
        /\ (i > rr_index % N /\ j > rr_index % N) => picks[i] = picks[j]
        /\ (i <= rr_index % N /\ j > rr_index % N) => picks[i] = picks[j] + 1
        /\ (j <= rr_index % N /\ i > rr_index % N) => picks[j] = picks[i] + 1
    BY DEF IInv, RRInv
  <2> QED BY <2>1, <2>2, <2>3, SMT
<1> QED BY <1>1, IInvHolds, PTL

\* Lost updates of update_ewma never take a mean outside the samples recorded.
THEOREM MeansStayWithin == BalancerSpec => []EwmaWithinSamples
<1>1. IInv => EwmaWithinSamples
  BY DEF IInv, EwmaInv, Within, EwmaWithinSamples
<1> QED BY <1>1, IInvHolds, PTL
=============================================================================
