---------------------------- MODULE BudgetProofs ----------------------------
(***************************************************************************)
(* Proofs about Budget for any set of users, any finite set of requests and *)
(* any limits and costs.                                                    *)
(*                                                                          *)
(* OverspendBounded is inductive with the types: a check that is passed     *)
(* sets the bound, and from then on a request that leaves Owing takes at    *)
(* least what it adds to the log.  RefusedOnceSpent is not: SpentInv says   *)
(* of a request on its way that the owners it found spent are spent still,  *)
(* and that the limit it has read is the one in force for them.             *)
(***************************************************************************)
EXTENDS Budget, FiniteSetTheorems, TLAPS

\* The requests that may still charge an owner are finitely many.
LEMMA OwingFinite ==
  ASSUME NEW o \in Accounts
  PROVE  IsFiniteSet(Owing(o)) /\ Cardinality(Owing(o)) \in Nat
<1>1. IsFiniteSet(Owing(o))
  BY BudgetAssumption, FS_Subset DEF Owing
<1> QED BY <1>1, FS_CardinalityType

\* Whose budget a request checks, when it checks one.
LEMMA SubjectOwner ==
  ASSUME BudgetTypeOK, NEW r \in Requests, stage[r] \in {"user", "team"}
  PROVE  /\ Subject(r) \in Accounts /\ Subject(r) \in named[r]
         /\ stage[r] = "team" <=> Subject(r) = Team
<1>1. CASE stage[r] = "team"
  BY <1>1 DEF BudgetTypeOK, Subject, Accounts
<1>2. CASE stage[r] = "user"
  <2>1. \E u \in Users : u \in named[r]
    BY <1>2 DEF BudgetTypeOK
  <2>2. (CHOOSE u \in Users : u \in named[r]) \in Users
        /\ (CHOOSE u \in Users : u \in named[r]) \in named[r]
    BY <2>1
  <2> QED BY <1>2, <2>2, BudgetAssumption DEF Subject, Accounts
<1> QED BY <1>1, <1>2

\* Multiples of the greatest cost: what a request more, or less, makes of them.
LEMMA Multiples ==
  ASSUME NEW n \in Nat
  PROVE  /\ MaxCost * n \in Nat
         /\ MaxCost * (n + 1) = MaxCost * n + MaxCost
         /\ n > 0 => MaxCost * (n - 1) = MaxCost * n - MaxCost
<1>1. MaxCost \in Nat
  BY BudgetAssumption
<1> QED BY <1>1, SMT

\* The limits as an administrator left them, and nothing under way.
LEMMA InitTypeOK == BudgetInit => BudgetTypeOK
<1> SUFFICES ASSUME BudgetInit PROVE BudgetTypeOK
  OBVIOUS
<1> USE DEF BudgetInit
<1>1. 0 \in 0 .. MaxCost
  BY BudgetAssumption
<1>2. bound \in [Accounts -> Int \union {NoLimit}]
  OBVIOUS
<1>3. stage \in [Requests -> Stages] /\ named \in [Requests -> SUBSET Accounts]
  BY DEF Stages
<1> QED BY <1>1, <1>2, <1>3 DEF BudgetTypeOK

\* Leaving resets what the handler held.
LEMMA LeaveTypes ==
  ASSUME BudgetTypeOK, NEW r \in Requests, Leave(r)
  PROVE  /\ stage' \in [Requests -> Stages] /\ named' \in [Requests -> SUBSET Accounts]
         /\ kind' \in [Requests -> {"checked", "messages"}]
         /\ limit' \in [Requests -> Limits \union {Unread}]
         /\ cost' \in [Requests -> 0 .. MaxCost] /\ over' \in [Requests -> SUBSET Accounts]
         /\ \A q \in Requests : /\ stage'[q] # "idle" =>
                                     \E u \in Users : named'[q] \cap Users = {u}
                                /\ stage'[q] = "team" => Team \in named'[q]
<1>1. 0 \in 0 .. MaxCost
  BY BudgetAssumption
<1>2. \A q \in Requests : q # r => stage'[q] = stage[q] /\ named'[q] = named[q]
  BY DEF Leave, BudgetTypeOK
<1>3. stage'[r] = "idle"
  BY DEF Leave, BudgetTypeOK
<1> QED BY <1>1, <1>2, <1>3 DEF Leave, BudgetTypeOK, Stages

\* Passing a check moves a request of the team to the team's check.
LEMMA PassTypes ==
  ASSUME BudgetTypeOK, NEW r \in Requests, NEW o \in Accounts,
         stage[r] \in {"user", "team"}, Pass(r, o)
  PROVE  /\ stage' \in [Requests -> Stages]
         /\ limit' \in [Requests -> Limits \union {Unread}]
         /\ bound' \in [Accounts -> Int \union {NoLimit}]
         /\ UNCHANGED <<named, kind, cost, over>>
         /\ \A q \in Requests : /\ stage'[q] # "idle" =>
                                     \E u \in Users : named'[q] \cap Users = {u}
                                /\ stage'[q] = "team" => Team \in named'[q]
<1>1. limit[r] # Unread => limit[r] \in Nat
  BY BudgetAssumption DEF BudgetTypeOK
<1>2. Cardinality(Owing(o) \union {r}) \in Nat
  BY OwingFinite, FS_AddElement, FS_CardinalityType
<1>3. MaxCost * Cardinality(Owing(o) \union {r}) \in Nat
  BY <1>2, Multiples
<1>4. limit[r] # Unread => limit[r] - 1 + MaxCost * Cardinality(Owing(o) \union {r}) \in Int
  BY <1>1, <1>3
<1>5. bound' \in [Accounts -> Int \union {NoLimit}]
  BY <1>4 DEF Pass, BudgetTypeOK
<1>6. stage' \in [Requests -> Stages]
  BY DEF Pass, BudgetTypeOK, Stages, AfterCheck
<1>7. \A q \in Requests : q # r => stage'[q] = stage[q]
  BY DEF Pass, BudgetTypeOK
<1>8. stage'[r] = "team" => Team \in named[r]
  BY DEF Pass, BudgetTypeOK, AfterCheck
<1>9. stage[r] # "idle"
  OBVIOUS
<1> QED BY <1>5, <1>6, <1>7, <1>8, <1>9 DEF Pass, BudgetTypeOK

\* Every step of a handler and of an administrator preserves the types.
LEMMA NextTypeOK == BudgetTypeOK /\ [BudgetNext]_budget_vars => BudgetTypeOK'
<1> SUFFICES ASSUME BudgetTypeOK PROVE [BudgetNext]_budget_vars => BudgetTypeOK'
  OBVIOUS
<1>1. CASE UNCHANGED budget_vars
  BY <1>1 DEF budget_vars, BudgetTypeOK
<1>2. ASSUME NEW r \in Requests, NEW u \in Users, NEW k \in Kinds, NEW in_team \in BOOLEAN,
             Arrive(r, u, k, in_team)
      PROVE  BudgetTypeOK'
  <2> DEFINE owners == {u} \union (IF in_team THEN {Team} ELSE {})
  <2>1. owners \subseteq Accounts /\ owners \cap Users = {u}
    BY BudgetAssumption DEF Accounts
  <2>2. named' = [named EXCEPT ![r] = owners] /\ over' = [over EXCEPT ![r] = {o \in owners : Spent(o)}]
    BY <1>2 DEF Arrive
  <2> HIDE DEF owners
  <2>3. named' \in [Requests -> SUBSET Accounts] /\ over' \in [Requests -> SUBSET Accounts]
    BY <2>1, <2>2 DEF BudgetTypeOK
  <2>4. stage' \in [Requests -> Stages] /\ kind' \in [Requests -> {"checked", "messages"}]
    BY <1>2, BudgetAssumption DEF Arrive, BudgetTypeOK, Stages
  <2>5. bound' \in [Accounts -> Int \union {NoLimit}]
    BY <1>2 DEF Arrive, BudgetTypeOK
  <2>6. stage'[r] # "team" /\ named'[r] \cap Users = {u}
    BY <1>2, <2>1, <2>2 DEF Arrive, BudgetTypeOK
  <2>7. \A q \in Requests : q # r => stage'[q] = stage[q] /\ named'[q] = named[q]
    BY <1>2, <2>2 DEF Arrive, BudgetTypeOK
  <2>8. UNCHANGED <<max_budget, logged, limit, cost>>
    BY <1>2 DEF Arrive
  <2> QED BY <2>3, <2>4, <2>5, <2>6, <2>7, <2>8 DEF BudgetTypeOK
<1>3. ASSUME NEW r \in Requests, ReadLimit(r) PROVE BudgetTypeOK'
  <2>0. stage[r] \in {"user", "team"} /\ Subject(r) \in Accounts
    BY <1>3, SubjectOwner DEF ReadLimit
  <2>1. CASE max_budget[Subject(r)] = NoLimit
    <3>1. Pass(r, Subject(r)) /\ UNCHANGED <<max_budget, logged>>
      BY <1>3, <2>1 DEF ReadLimit
    <3> QED BY <2>0, <3>1, PassTypes DEF BudgetTypeOK
  <2>2. CASE max_budget[Subject(r)] # NoLimit
    <3>1. limit' = [limit EXCEPT ![r] = max_budget[Subject(r)]]
          /\ UNCHANGED <<stage, named, kind, cost, over, bound, max_budget, logged>>
      BY <1>3, <2>2 DEF ReadLimit
    <3>2. limit' \in [Requests -> Limits \union {Unread}]
      BY <2>0, <2>2, <3>1 DEF BudgetTypeOK
    <3> QED BY <3>1, <3>2 DEF BudgetTypeOK
  <2> QED BY <2>1, <2>2
<1>4. ASSUME NEW r \in Requests, ReadSpent(r) PROVE BudgetTypeOK'
  <2>0. stage[r] \in {"user", "team"} /\ Subject(r) \in Accounts
    BY <1>4, SubjectOwner DEF ReadSpent
  <2>1. CASE Exceeded(logged[Subject(r)], limit[r])
    <3>1. Leave(r) /\ UNCHANGED <<max_budget, logged, bound>>
      BY <1>4, <2>1 DEF ReadSpent
    <3> QED BY <3>1, LeaveTypes DEF BudgetTypeOK
  <2>2. CASE ~Exceeded(logged[Subject(r)], limit[r])
    <3>1. Pass(r, Subject(r)) /\ UNCHANGED <<max_budget, logged>>
      BY <1>4, <2>2 DEF ReadSpent
    <3> QED BY <2>0, <3>1, PassTypes DEF BudgetTypeOK
  <2> QED BY <2>1, <2>2
<1>5. ASSUME NEW r \in Requests, NEW c \in 0 .. MaxCost, CallSucceeds(r, c) PROVE BudgetTypeOK'
  <2>1. stage' \in [Requests -> Stages] /\ cost' \in [Requests -> 0 .. MaxCost]
    BY <1>5 DEF CallSucceeds, BudgetTypeOK, Stages
  <2>2. \A q \in Requests : (stage'[q] # "idle" => stage[q] # "idle")
                            /\ (stage'[q] = "team" => stage[q] = "team")
    BY <1>5 DEF CallSucceeds, BudgetTypeOK
  <2> QED BY <1>5, <2>1, <2>2 DEF CallSucceeds, BudgetTypeOK
<1>6. ASSUME NEW r \in Requests, CallFails(r) \/ LoseLog(r) PROVE BudgetTypeOK'
  BY <1>6, LeaveTypes DEF CallFails, LoseLog, BudgetTypeOK
<1>7. ASSUME NEW r \in Requests, WriteLog(r) PROVE BudgetTypeOK'
  <2>1. cost[r] \in Nat
    BY BudgetAssumption DEF BudgetTypeOK
  <2>2. logged' \in [Accounts -> Nat]
    BY <1>7, <2>1 DEF WriteLog, Charge, BudgetTypeOK
  <2> QED BY <1>7, <2>2, LeaveTypes DEF WriteLog, BudgetTypeOK
<1>8. ASSUME NEW o \in Accounts, NEW l \in Limits \union {NoLimit}, SetBudget(o, l) PROVE BudgetTypeOK'
  BY <1>8 DEF SetBudget, BudgetTypeOK
<1> QED BY <1>1, <1>2, <1>3, <1>4, <1>5, <1>6, <1>7, <1>8 DEF BudgetNext

----------------------------------------------------------------------------
(* OverspendBounded *)

\* A request that leaves owes nothing, and the others owe what they did.
LEMMA LeaveOwing ==
  ASSUME BudgetTypeOK, NEW r \in Requests, Leave(r), NEW o \in Accounts
  PROVE  Owing(o)' = Owing(o) \ {r}
<1>1. stage'[r] = "idle"
  BY DEF Leave, BudgetTypeOK
<1>2. \A q \in Requests : q # r => stage'[q] = stage[q] /\ named'[q] = named[q]
  BY DEF Leave, BudgetTypeOK
<1> QED BY <1>1, <1>2 DEF Owing

\* A request that passes the check of an owner may charge it from then on.
LEMMA PassOwing ==
  ASSUME BudgetTypeOK, NEW r \in Requests, stage[r] \in {"user", "team"},
         Pass(r, Subject(r)), NEW o \in Accounts
  PROVE  /\ o = Subject(r) => Owing(o)' = Owing(o) \union {r}
         /\ o # Subject(r) => Owing(o)' = Owing(o)
<1>1. \A q \in Requests : q # r => stage'[q] = stage[q]
  BY DEF Pass, BudgetTypeOK
<1>2. stage'[r] = AfterCheck(r) /\ named' = named
  BY DEF Pass, BudgetTypeOK
<1>3. CASE stage[r] = "team"
  <2>1. stage'[r] = "call" /\ Subject(r) = Team /\ Team \in named[r]
    BY <1>2, <1>3 DEF AfterCheck, Subject, BudgetTypeOK
  <2> QED BY <1>1, <1>2, <1>3, <2>1 DEF Owing
<1>4. CASE stage[r] = "user"
  <2>1. PICK u \in Users : named[r] \cap Users = {u}
    BY <1>4 DEF BudgetTypeOK
  <2>2. Subject(r) = u
    <3>1. Subject(r) \in Accounts /\ Subject(r) \in named[r] /\ Subject(r) # Team
      BY <1>4, SubjectOwner
    <3> QED BY <2>1, <3>1 DEF Accounts
  <2>3. \A p \in Accounts : p \in named[r] => p = u \/ p = Team
    BY <2>1 DEF Accounts
  <2>4. u # Team /\ u \in named[r]
    BY <2>1, BudgetAssumption
  <2>5. stage'[r] = "team" \/ (stage'[r] = "call" /\ Team \notin named[r])
    BY <1>2, <1>4 DEF AfterCheck
  <2> QED BY <1>1, <1>2, <1>4, <2>2, <2>3, <2>4, <2>5 DEF Owing
<1> QED BY <1>3, <1>4

\* One request less, or as many, owes no more.
LEMMA FewerOwe ==
  ASSUME NEW o \in Accounts, NEW r
  PROVE  /\ MaxCost * Cardinality(Owing(o)) \in Nat
         /\ MaxCost * Cardinality(Owing(o) \ {r}) \in Nat
         /\ MaxCost * Cardinality(Owing(o) \ {r}) <= MaxCost * Cardinality(Owing(o))
         /\ r \in Owing(o) => MaxCost * Cardinality(Owing(o) \ {r})
                                   = MaxCost * Cardinality(Owing(o)) - MaxCost
<1>0. IsFiniteSet(Owing(o)) /\ Cardinality(Owing(o)) \in Nat /\ MaxCost \in Nat
  BY OwingFinite, BudgetAssumption
<1>1. MaxCost * Cardinality(Owing(o)) \in Nat
  BY <1>0, Multiples
<1>2. CASE r \in Owing(o)
  <2>1. Cardinality(Owing(o) \ {r}) = Cardinality(Owing(o)) - 1
        /\ IsFiniteSet(Owing(o) \ {r})
    BY <1>0, <1>2, FS_RemoveElement
  <2>2. Cardinality(Owing(o) \ {r}) \in Nat
    BY <2>1, FS_CardinalityType
  <2>3. Cardinality(Owing(o)) > 0
    BY <1>0, <2>1, <2>2, SMT
  <2>4. MaxCost * (Cardinality(Owing(o)) - 1) = MaxCost * Cardinality(Owing(o)) - MaxCost
    BY <1>0, <2>3, Multiples
  <2>5. MaxCost * Cardinality(Owing(o) \ {r}) \in Nat
    BY <2>2, Multiples
  <2> QED BY <1>0, <1>1, <2>1, <2>4, <2>5, SMT
<1>3. CASE r \notin Owing(o)
  <2>1. Owing(o) \ {r} = Owing(o)
    BY <1>3
  <2>2. MaxCost * Cardinality(Owing(o) \ {r}) = MaxCost * Cardinality(Owing(o))
    BY <2>1
  <2> QED BY <1>1, <1>3, <2>2, SMT
<1> QED BY <1>2, <1>3

\* Every step keeps the log of an owner and what is owed within its bound.
LEMMA NextBounded == BudgetTypeOK /\ OverspendBounded /\ [BudgetNext]_budget_vars => OverspendBounded'
<1> SUFFICES ASSUME BudgetTypeOK, OverspendBounded, NEW o \in Accounts
             PROVE  [BudgetNext]_budget_vars /\ bound'[o] # NoLimit =>
                      logged'[o] + MaxCost * Cardinality(Owing(o)') <= bound'[o]
  BY DEF OverspendBounded
<1> DEFINE Kept == logged'[o] + MaxCost * Cardinality(Owing(o)') <= bound'[o]
<1>0. /\ bound[o] # NoLimit => logged[o] + MaxCost * Cardinality(Owing(o)) <= bound[o]
      /\ logged[o] \in Nat /\ (bound[o] # NoLimit => bound[o] \in Int)
      /\ MaxCost \in Nat
  BY BudgetAssumption DEF OverspendBounded, BudgetTypeOK
<1>a. ASSUME NEW r \in Requests, Leave(r), logged' = logged, bound' = bound, bound'[o] # NoLimit
      PROVE  Kept
  <2>1. Owing(o)' = Owing(o) \ {r}
    BY <1>a, LeaveOwing
  <2> QED BY <1>0, <1>a, <2>1, FewerOwe, SMT
<1>b. ASSUME NEW r \in Requests, stage[r] \in {"user", "team"}, Pass(r, Subject(r)),
             logged' = logged, bound'[o] # NoLimit,
             limit[r] # Unread => logged[Subject(r)] < limit[r]
      PROVE  Kept
  <2>0. Subject(r) \in Accounts
    BY <1>b, SubjectOwner
  <2>1. CASE o = Subject(r)
    <3>1. Owing(o)' = Owing(o) \union {r}
      BY <1>b, <2>1, PassOwing
    <3>2. limit[r] # Unread
          /\ bound'[o] = limit[r] - 1 + MaxCost * Cardinality(Owing(o) \union {r})
      BY <1>b, <2>1 DEF Pass, BudgetTypeOK
    <3>3. limit[r] \in Nat
      BY <3>2, BudgetAssumption DEF BudgetTypeOK
    <3>4. MaxCost * Cardinality(Owing(o) \union {r}) \in Nat
      BY OwingFinite, FS_AddElement, FS_CardinalityType, Multiples
    <3> QED BY <1>0, <1>b, <2>1, <3>1, <3>2, <3>3, <3>4, SMT
  <2>2. CASE o # Subject(r)
    <3>1. Owing(o)' = Owing(o)
      BY <1>b, <2>2, PassOwing
    <3>2. bound'[o] = bound[o]
      BY <1>b, <2>0, <2>2 DEF Pass, BudgetTypeOK
    <3> QED BY <1>0, <1>b, <3>1, <3>2
  <2> QED BY <2>1, <2>2
<1>1. ASSUME UNCHANGED budget_vars, bound'[o] # NoLimit PROVE Kept
  <2>1. Owing(o)' = Owing(o)
    BY <1>1 DEF budget_vars, Owing
  <2> QED BY <1>0, <1>1, <2>1 DEF budget_vars
<1>2. ASSUME NEW r \in Requests, NEW u \in Users, NEW k \in Kinds, NEW in_team \in BOOLEAN,
             Arrive(r, u, k, in_team), bound'[o] # NoLimit
      PROVE  Kept
  <2> DEFINE owners == {u} \union (IF in_team THEN {Team} ELSE {})
  <2>1. /\ named' = [named EXCEPT ![r] = owners] /\ logged' = logged
        /\ stage' = [stage EXCEPT ![r] = IF k = "checked" THEN "user" ELSE "call"]
        /\ bound'[o] = IF k = "messages" /\ o \in owners THEN NoLimit ELSE bound[o]
        /\ stage[r] = "idle" /\ k \in {"checked", "messages"}
    BY <1>2, BudgetAssumption DEF Arrive
  <2> HIDE DEF owners
  <2>2. \A q \in Requests : q # r => stage'[q] = stage[q] /\ named'[q] = named[q]
    BY <2>1 DEF BudgetTypeOK
  <2>3. stage'[r] = "user" \/ o \notin named'[r]
    BY <1>2, <2>1 DEF BudgetTypeOK
  <2>4. Owing(o)' = Owing(o)
    BY <2>1, <2>2, <2>3 DEF Owing
  <2>5. bound'[o] = bound[o]
    BY <1>2, <2>1
  <2> QED BY <1>0, <1>2, <2>1, <2>4, <2>5
<1>3. ASSUME NEW r \in Requests, ReadLimit(r), bound'[o] # NoLimit PROVE Kept
  <2>1. CASE max_budget[Subject(r)] = NoLimit
    BY <1>3, <1>b, <2>1 DEF ReadLimit
  <2>2. CASE max_budget[Subject(r)] # NoLimit
    <3>1. UNCHANGED <<stage, named, bound, logged>>
      BY <1>3, <2>2 DEF ReadLimit
    <3>2. Owing(o)' = Owing(o)
      BY <3>1 DEF Owing
    <3> QED BY <1>0, <1>3, <3>1, <3>2
  <2> QED BY <2>1, <2>2
<1>4. ASSUME NEW r \in Requests, ReadSpent(r), bound'[o] # NoLimit PROVE Kept
  <2>1. CASE Exceeded(logged[Subject(r)], limit[r])
    BY <1>4, <1>a, <2>1 DEF ReadSpent
  <2>2. CASE ~Exceeded(logged[Subject(r)], limit[r])
    <3>1. Subject(r) \in Accounts /\ limit[r] \in Nat
      BY <1>4, SubjectOwner, BudgetAssumption DEF ReadSpent, BudgetTypeOK
    <3>2. logged[Subject(r)] < limit[r]
      BY <2>2, <3>1 DEF Exceeded, BudgetTypeOK
    <3> QED BY <1>4, <1>b, <2>2, <3>2 DEF ReadSpent
  <2> QED BY <2>1, <2>2
<1>5. ASSUME NEW r \in Requests, NEW c \in 0 .. MaxCost, CallSucceeds(r, c), bound'[o] # NoLimit
      PROVE  Kept
  <2>1. Owing(o)' = Owing(o)
    BY <1>5 DEF CallSucceeds, Owing, BudgetTypeOK
  <2> QED BY <1>0, <1>5, <2>1 DEF CallSucceeds
<1>6. ASSUME NEW r \in Requests, CallFails(r) \/ LoseLog(r), bound'[o] # NoLimit PROVE Kept
  BY <1>6, <1>a DEF CallFails, LoseLog
<1>7. ASSUME NEW r \in Requests, WriteLog(r), bound'[o] # NoLimit PROVE Kept
  <2>1. Owing(o)' = Owing(o) \ {r} /\ bound' = bound
    BY <1>7, LeaveOwing DEF WriteLog
  <2>2. r \in Owing(o) <=> o \in named[r]
    BY <1>7 DEF WriteLog, Owing
  <2>3. logged'[o] = IF o \in named[r] THEN logged[o] + cost[r] ELSE logged[o]
    BY <1>7 DEF WriteLog, Charge
  <2>4. cost[r] \in 0 .. MaxCost
    BY DEF BudgetTypeOK
  <2>5. bound[o] # NoLimit
    BY <1>7, <2>1
  <2> QED BY <1>0, <2>1, <2>2, <2>3, <2>4, <2>5, FewerOwe, SMT
<1>8. ASSUME NEW p \in Accounts, NEW l \in Limits \union {NoLimit}, SetBudget(p, l), bound'[o] # NoLimit
      PROVE  Kept
  <2>1. Owing(o)' = Owing(o)
    BY <1>8 DEF SetBudget, Owing
  <2> QED BY <1>0, <1>8, <2>1 DEF SetBudget
<1> QED BY <1>1, <1>2, <1>3, <1>4, <1>5, <1>6, <1>7, <1>8 DEF BudgetNext

----------------------------------------------------------------------------
(* RefusedOnceSpent *)

\* The owners a request found spent are spent still, and it has neither passed
\* their check nor read another limit of theirs.
SpentInv ==
    \A r \in Requests : kind[r] = "checked" =>
        /\ \A o \in over[r] : o \in named[r] /\ Spent(o)
        /\ stage[r] = "team" => over[r] \subseteq {Team}
        /\ stage[r] \in {"call", "log"} => over[r] = {}
        /\ limit[r] # Unread /\ Subject(r) \in over[r] => limit[r] = max_budget[Subject(r)]

\* A limit is held only between the two queries of a check.
IdleInv == \A r \in Requests : stage[r] \notin {"user", "team"} => limit[r] = Unread

\* Every step keeps the limits a request has read within its checks.
LEMMA NextIdle == BudgetTypeOK /\ IdleInv /\ [BudgetNext]_budget_vars => IdleInv'
<1> SUFFICES ASSUME BudgetTypeOK, IdleInv, NEW q \in Requests
             PROVE  [BudgetNext]_budget_vars => (stage'[q] \notin {"user", "team"} => limit'[q] = Unread)
  BY DEF IdleInv
<1>0. stage[q] \notin {"user", "team"} => limit[q] = Unread
  BY DEF IdleInv
<1>1. CASE UNCHANGED budget_vars
  BY <1>0, <1>1 DEF budget_vars
<1>2. ASSUME NEW r \in Requests,
             Leave(r) \/ (stage[r] \in {"user", "team"} /\ Pass(r, Subject(r)))
      PROVE  stage'[q] \notin {"user", "team"} => limit'[q] = Unread
  BY <1>0, <1>2 DEF Leave, Pass, BudgetTypeOK
<1>3. ASSUME NEW r \in Requests, NEW u \in Users, NEW k \in Kinds, NEW in_team \in BOOLEAN,
             Arrive(r, u, k, in_team)
      PROVE  stage'[q] \notin {"user", "team"} => limit'[q] = Unread
  BY <1>0, <1>3 DEF Arrive, BudgetTypeOK
<1>4. ASSUME NEW r \in Requests, ReadLimit(r) \/ ReadSpent(r)
      PROVE  stage'[q] \notin {"user", "team"} => limit'[q] = Unread
  <2>1. \/ Leave(r) \/ (stage[r] \in {"user", "team"} /\ Pass(r, Subject(r)))
        \/ /\ stage[r] \in {"user", "team"} /\ stage' = stage
           /\ limit' = [limit EXCEPT ![r] = max_budget[Subject(r)]]
    BY <1>4 DEF ReadLimit, ReadSpent
  <2> QED BY <1>0, <1>2, <2>1 DEF BudgetTypeOK
<1>5. ASSUME NEW r \in Requests, NEW c \in 0 .. MaxCost, CallSucceeds(r, c)
      PROVE  stage'[q] \notin {"user", "team"} => limit'[q] = Unread
  BY <1>0, <1>5 DEF CallSucceeds, BudgetTypeOK
<1>6. ASSUME NEW r \in Requests, CallFails(r) \/ WriteLog(r) \/ LoseLog(r)
      PROVE  stage'[q] \notin {"user", "team"} => limit'[q] = Unread
  BY <1>2, <1>6 DEF CallFails, WriteLog, LoseLog
<1>7. ASSUME NEW o \in Accounts, NEW l \in Limits \union {NoLimit}, SetBudget(o, l)
      PROVE  stage'[q] \notin {"user", "team"} => limit'[q] = Unread
  BY <1>0, <1>7 DEF SetBudget
<1> QED BY <1>1, <1>3, <1>4, <1>5, <1>6, <1>7 DEF BudgetNext

\* Every step keeps a request that found a budget spent from passing its check.
LEMMA NextSpent == BudgetTypeOK /\ IdleInv /\ SpentInv /\ [BudgetNext]_budget_vars => SpentInv'
<1> SUFFICES ASSUME BudgetTypeOK, IdleInv, SpentInv, NEW q \in Requests
             PROVE  [BudgetNext]_budget_vars /\ kind'[q] = "checked" =>
                    /\ \A o \in over'[q] : o \in named'[q] /\ Spent(o)'
                    /\ stage'[q] = "team" => over'[q] \subseteq {Team}
                    /\ stage'[q] \in {"call", "log"} => over'[q] = {}
                    /\ limit'[q] # Unread /\ Subject(q)' \in over'[q]
                       => limit'[q] = max_budget'[Subject(q)']
  BY DEF SpentInv
<1> DEFINE Kept == /\ \A o \in over'[q] : o \in named'[q] /\ Spent(o)'
                   /\ stage'[q] = "team" => over'[q] \subseteq {Team}
                   /\ stage'[q] \in {"call", "log"} => over'[q] = {}
                   /\ limit'[q] # Unread /\ Subject(q)' \in over'[q]
                      => limit'[q] = max_budget'[Subject(q)']
<1>0. kind[q] = "checked" =>
        /\ \A o \in over[q] : o \in named[q] /\ Spent(o)
        /\ stage[q] = "team" => over[q] \subseteq {Team}
        /\ stage[q] \in {"call", "log"} => over[q] = {}
        /\ limit[q] # Unread /\ Subject(q) \in over[q] => limit[q] = max_budget[Subject(q)]
  BY DEF SpentInv
\* What another request does: its log can only add to what is spent.
<1>a. ASSUME kind'[q] = "checked", max_budget' = max_budget,
             \A o \in Accounts : logged'[o] >= logged[o] /\ logged'[o] \in Nat,
             kind'[q] = kind[q], over'[q] = over[q], named'[q] = named[q],
             stage'[q] = stage[q], limit'[q] = limit[q]
      PROVE  Kept
  <2>1. over[q] \subseteq Accounts
    BY DEF BudgetTypeOK
  <2>2. \A o \in over[q] : Spent(o)'
    <3> TAKE o \in over[q]
    <3>1. o \in Accounts /\ max_budget[o] # NoLimit /\ logged[o] >= max_budget[o]
      BY <1>0, <1>a, <2>1 DEF Spent
    <3>2. max_budget[o] \in Nat /\ logged[o] \in Nat
      BY <3>1, BudgetAssumption DEF BudgetTypeOK
    <3> QED BY <1>a, <3>1, <3>2, SMT DEF Spent
  <2>3. Subject(q)' = Subject(q)
    BY <1>a DEF Subject
  <2> QED BY <1>0, <1>a, <2>2, <2>3
\* What it does itself when it leaves.
<1>b. ASSUME NEW r \in Requests, Leave(r), kind'[q] = "checked", max_budget' = max_budget,
             \A o \in Accounts : logged'[o] >= logged[o] /\ logged'[o] \in Nat
      PROVE  Kept
  <2>1. CASE q = r
    <3>1. over'[q] = {}
      BY <1>b, <2>1 DEF Leave, BudgetTypeOK
    <3> QED BY <3>1
  <2>2. CASE q # r
    BY <1>a, <1>b, <2>2 DEF Leave, BudgetTypeOK
  <2> QED BY <2>1, <2>2
\* Its own check, of an owner that is not spent.
<1>c. ASSUME NEW r \in Requests, stage[r] \in {"user", "team"}, Pass(r, Subject(r)),
             kind'[q] = "checked", UNCHANGED <<max_budget, logged>>,
             r = q => Subject(r) \notin over[r]
      PROVE  Kept
  <2>0. \A o \in Accounts : logged'[o] >= logged[o] /\ logged'[o] \in Nat
    BY <1>c DEF BudgetTypeOK
  <2>1. CASE q # r
    BY <1>a, <1>c, <2>0, <2>1 DEF Pass, BudgetTypeOK
  <2>2. CASE q = r
    <3>1. /\ kind' = kind /\ over' = over /\ named' = named
          /\ limit'[q] = Unread /\ stage'[q] = AfterCheck(q)
      BY <1>c, <2>2 DEF Pass, BudgetTypeOK
    <3>2. \A o \in over'[q] : o \in named'[q] /\ Spent(o)'
      BY <1>0, <1>c, <3>1 DEF Spent
    <3>3. CASE stage[q] = "team"
      <4>1. Subject(q) = Team /\ over[q] \subseteq {Team}
        BY <1>0, <1>c, <3>1, <3>3 DEF Subject
      <4>2. over[q] = {}
        BY <1>c, <2>2, <4>1
      <4> QED BY <3>1, <3>2, <4>2
    <3>4. CASE stage[q] = "user"
      <4>1. PICK u \in Users : named[q] \cap Users = {u}
        BY <3>4 DEF BudgetTypeOK
      <4>2. Subject(q) \in Accounts /\ Subject(q) \in named[q] /\ Subject(q) # Team
        BY <3>4, SubjectOwner
      <4>3. Subject(q) = u
        BY <4>1, <4>2 DEF Accounts
      <4>4. over[q] \subseteq {Team} /\ over[q] \subseteq named[q]
        BY <1>0, <1>c, <2>2, <3>1, <4>1, <4>3 DEF BudgetTypeOK, Accounts
      <4>5. stage'[q] = "team" \/ (stage'[q] = "call" /\ Team \notin named[q])
        BY <3>1, <3>4 DEF AfterCheck
      <4> QED BY <3>1, <3>2, <4>4, <4>5
    <3> QED BY <1>c, <2>2, <3>3, <3>4
  <2> QED BY <2>1, <2>2
<1>d. ASSUME logged' = logged PROVE \A o \in Accounts : logged'[o] >= logged[o] /\ logged'[o] \in Nat
  BY <1>d DEF BudgetTypeOK
<1>1. ASSUME UNCHANGED budget_vars, kind'[q] = "checked" PROVE Kept
  BY <1>1, <1>a, <1>d DEF budget_vars
<1>2. ASSUME NEW r \in Requests, NEW u \in Users, NEW k \in Kinds, NEW in_team \in BOOLEAN,
             Arrive(r, u, k, in_team), kind'[q] = "checked"
      PROVE  Kept
  <2> DEFINE owners == {u} \union (IF in_team THEN {Team} ELSE {})
  <2>1. /\ named' = [named EXCEPT ![r] = owners] /\ over' = [over EXCEPT ![r] = {o \in owners : Spent(o)}]
        /\ stage' = [stage EXCEPT ![r] = IF k = "checked" THEN "user" ELSE "call"]
        /\ kind' = [kind EXCEPT ![r] = k]
        /\ UNCHANGED <<max_budget, logged, limit, cost>>
    BY <1>2 DEF Arrive
  <2> HIDE DEF owners
  <2>2. CASE q # r
    BY <1>2, <1>a, <1>d, <2>1, <2>2 DEF BudgetTypeOK
  <2>3. CASE q = r
    <3>1. k = "checked" /\ stage'[q] = "user"
      BY <1>2, <2>1, <2>3 DEF BudgetTypeOK
    <3>2. \A o \in over'[q] : o \in named'[q] /\ Spent(o)'
      BY <2>1, <2>3 DEF BudgetTypeOK, Spent
    <3>3. limit'[q] = Unread
      BY <1>2, <2>1, <2>3 DEF Arrive, IdleInv
    <3> QED BY <3>1, <3>2, <3>3
  <2> QED BY <2>2, <2>3
<1>3. ASSUME NEW r \in Requests, ReadLimit(r), kind'[q] = "checked" PROVE Kept
  <2>0. stage[r] \in {"user", "team"} /\ Subject(r) \in Accounts /\ UNCHANGED <<max_budget, logged>>
    BY <1>3, SubjectOwner DEF ReadLimit
  <2>1. CASE max_budget[Subject(r)] = NoLimit
    <3>1. Pass(r, Subject(r))
      BY <1>3, <2>1 DEF ReadLimit
    <3>2. r = q => Subject(r) \notin over[r]
      BY <1>0, <1>3, <2>1, <3>1 DEF Spent, Pass
    <3> QED BY <1>3, <1>c, <2>0, <3>1, <3>2
  <2>2. CASE max_budget[Subject(r)] # NoLimit
    <3>1. limit' = [limit EXCEPT ![r] = max_budget[Subject(r)]]
          /\ UNCHANGED <<stage, named, kind, over>>
      BY <1>3, <2>2 DEF ReadLimit
    <3>2. CASE q # r
      BY <1>3, <1>a, <1>d, <2>0, <3>1, <3>2 DEF BudgetTypeOK
    <3>3. CASE q = r
      <4>1. Subject(q)' = Subject(q) /\ limit'[q] = max_budget[Subject(q)]
        BY <3>1, <3>3 DEF Subject, BudgetTypeOK
      <4>2. \A o \in over'[q] : o \in named'[q] /\ Spent(o)'
        BY <1>0, <1>3, <2>0, <3>1 DEF Spent
      <4> QED BY <1>0, <1>3, <2>0, <3>1, <4>1, <4>2
    <3> QED BY <3>2, <3>3
  <2> QED BY <2>1, <2>2
<1>4. ASSUME NEW r \in Requests, ReadSpent(r), kind'[q] = "checked" PROVE Kept
  <2>0. /\ stage[r] \in {"user", "team"} /\ Subject(r) \in Accounts
        /\ limit[r] # Unread /\ UNCHANGED <<max_budget, logged>>
    BY <1>4, SubjectOwner DEF ReadSpent
  <2>1. CASE Exceeded(logged[Subject(r)], limit[r])
    BY <1>4, <1>b, <1>d, <2>0, <2>1 DEF ReadSpent
  <2>2. CASE ~Exceeded(logged[Subject(r)], limit[r])
    <3>1. Pass(r, Subject(r))
      BY <1>4, <2>2 DEF ReadSpent
    <3>2. r = q => Subject(r) \notin over[r]
      BY <1>0, <1>4, <2>0, <2>2, <3>1 DEF Spent, Exceeded, Pass
    <3> QED BY <1>4, <1>c, <2>0, <3>1, <3>2
  <2> QED BY <2>1, <2>2
<1>5. ASSUME NEW r \in Requests, NEW c \in 0 .. MaxCost, CallSucceeds(r, c), kind'[q] = "checked"
      PROVE  Kept
  <2>1. CASE q # r
    BY <1>5, <1>a, <1>d, <2>1 DEF CallSucceeds, BudgetTypeOK
  <2>2. CASE q = r
    <3>1. over'[q] = {}
      BY <1>0, <1>5, <2>2 DEF CallSucceeds
    <3> QED BY <3>1
  <2> QED BY <2>1, <2>2
<1>6. ASSUME NEW r \in Requests, CallFails(r) \/ LoseLog(r), kind'[q] = "checked" PROVE Kept
  BY <1>6, <1>b, <1>d DEF CallFails, LoseLog
<1>7. ASSUME NEW r \in Requests, WriteLog(r), kind'[q] = "checked" PROVE Kept
  <2>1. cost[r] \in Nat
    BY BudgetAssumption DEF BudgetTypeOK
  <2>2. \A o \in Accounts : logged'[o] >= logged[o] /\ logged'[o] \in Nat
    BY <1>7, <2>1 DEF WriteLog, Charge, BudgetTypeOK
  <2> QED BY <1>7, <1>b, <2>2 DEF WriteLog
<1>8. ASSUME NEW p \in Accounts, NEW l \in Limits \union {NoLimit}, SetBudget(p, l),
             kind'[q] = "checked"
      PROVE  Kept
  <2>1. /\ over'[q] = over[q] \ {p} /\ max_budget' = [max_budget EXCEPT ![p] = l]
        /\ UNCHANGED <<logged, stage, named, kind, limit>>
    BY <1>8 DEF SetBudget
  <2>2. \A o \in over'[q] : o \in over[q] /\ max_budget'[o] = max_budget[o]
    BY <2>1 DEF BudgetTypeOK
  <2>3. Subject(q)' = Subject(q)
    BY <2>1 DEF Subject
  <2>4. \A o \in over'[q] : o \in named'[q] /\ Spent(o)'
    BY <1>0, <1>8, <2>1, <2>2 DEF Spent
  <2> QED BY <1>0, <1>8, <2>1, <2>2, <2>3, <2>4
<1> QED BY <1>1, <1>2, <1>3, <1>4, <1>5, <1>6, <1>7, <1>8 DEF BudgetNext

----------------------------------------------------------------------------
\* Every variable keeps its type, whatever handlers and administrators do.
THEOREM Typed == BudgetSpec => []BudgetTypeOK
<1> QED BY InitTypeOK, NextTypeOK, PTL DEF BudgetSpec

\* A budget is overspent by at most one cost for every request that was under
\* way when the last request passed the check of check_end_user_budget or
\* check_team_budget.
THEOREM OverspendIsBounded == BudgetSpec => []OverspendBounded
<1>1. BudgetInit => OverspendBounded
  BY DEF BudgetInit, OverspendBounded
<1> QED BY <1>1, Typed, NextBounded, PTL DEF BudgetSpec

\* A request that finds one of its budgets spent on arrival is refused by
\* check_end_user_budget or check_team_budget.
THEOREM SpentIsRefused == BudgetSpec => []RefusedOnceSpent
<1>1. BudgetInit => SpentInv /\ IdleInv
  BY DEF BudgetInit, SpentInv, IdleInv
<1>2. SpentInv => RefusedOnceSpent
  BY DEF SpentInv, RefusedOnceSpent
<1> QED BY <1>1, <1>2, Typed, NextIdle, NextSpent, PTL DEF BudgetSpec
=============================================================================
