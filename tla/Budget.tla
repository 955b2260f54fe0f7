------------------------------- MODULE Budget -------------------------------
(***************************************************************************)
(* The spending limits of users and teams.  A handler of proxy.rs asks the *)
(* database for the limit and then for the sum of the logged costs, calls  *)
(* the provider and, when that has succeeded, spawns the insert of the     *)
(* cost.  Nothing is reserved: what a request will cost is in no table     *)
(* until its log is written.                                               *)
(*                                                                         *)
(* A request stands for the handler and the insert it spawns.  Costs are   *)
(* natural numbers of some smallest unit.  A request that is streamed, or  *)
(* whose usage or prices are missing, logs NULL, which the sum counts as   *)
(* 0.  There is one team; a key belongs to a user and may belong to it.    *)
(***************************************************************************)
EXTENDS Integers, FiniteSets

CONSTANTS
    Requests,   \* requests in progress at the same time, spawned logs included
    Users,
    Team,
    Limits,     \* the limits an administrator sets
    NoLimit,    \* max_budget_usd is NULL, or the owner has no row
    Unread,     \* the limit is not read yet
    MaxCost,    \* the most a request costs
    Admins,     \* whether limits change during the behaviour
    Kinds,      \* the kinds of request of an instance
    MaxLogged   \* bound: the sum at which an owner sends no more requests

Accounts == Users \union {Team}

ASSUME BudgetAssumption ==
    /\ IsFiniteSet(Requests)
    /\ Team \notin Users
    /\ Limits \subseteq Nat /\ NoLimit \notin Nat /\ Unread \notin Nat /\ NoLimit # Unread
    /\ MaxCost \in Nat /\ MaxLogged \in Nat
    /\ Admins \in BOOLEAN
    /\ Kinds \subseteq {"checked", "messages"}

VARIABLES
    max_budget,  \* of end_users and of teams
    logged,      \* per owner, the sum of cost_usd over its request_logs
    stage,       \* where each request is
    named,       \* the owners its log will name
    kind,        \* "checked", or "messages", which checks no budget
    limit,       \* the limit it has read
    cost,        \* the cost of its log
    \* The rest is history, which no handler reads.
    over,        \* the owners whose budget was spent when it arrived
    bound        \* per owner, what its log can reach since the last check

budget_vars == <<max_budget, logged, stage, named, kind, limit, cost, over, bound>>

Stages == {"idle", "user", "team", "call", "log"}

\* The requests that may still add to the log of o: past the check of o.
Owing(o) == {r \in Requests : o \in named[r] /\
                (stage[r] \in {"call", "log"} \/ (stage[r] = "team" /\ o # Team))}

\* The owner whose budget a request is checking.
Subject(r) == IF stage[r] = "team" THEN Team ELSE CHOOSE u \in Users : u \in named[r]

BudgetInit ==
    /\ max_budget \in [Accounts -> Limits \union {NoLimit}]
    /\ logged = [o \in Accounts |-> 0]
    /\ stage = [r \in Requests |-> "idle"]
    /\ named = [r \in Requests |-> {}]
    /\ kind = [r \in Requests |-> "checked"]
    /\ limit = [r \in Requests |-> Unread]
    /\ cost = [r \in Requests |-> 0]
    /\ over = [r \in Requests |-> {}]
    /\ bound = [o \in Accounts |-> NoLimit]

-----------------------------------------------------------------------------
Spent(o) == max_budget[o] # NoLimit /\ logged[o] >= max_budget[o]

\* A request of a user's key, which may belong to the team.  The handlers of
\* proxy.rs check budgets; messages goes on to its call.
Arrive(r, u, k, in_team) ==
    LET owners == {u} \union (IF in_team THEN {Team} ELSE {}) IN
    /\ stage[r] = "idle"
    /\ \A o \in owners : logged[o] < MaxLogged
    /\ named' = [named EXCEPT ![r] = owners]
    /\ kind' = [kind EXCEPT ![r] = k]
    /\ stage' = [stage EXCEPT ![r] = IF k = "checked" THEN "user" ELSE "call"]
    /\ over' = [over EXCEPT ![r] = {o \in owners : Spent(o)}]
    /\ bound' = [o \in Accounts |->
                   IF k = "messages" /\ o \in owners THEN NoLimit ELSE bound[o]]
    /\ UNCHANGED <<max_budget, logged, limit, cost>>

\* The request is over.
Leave(r) ==
    /\ stage' = [stage EXCEPT ![r] = "idle"]
    /\ named' = [named EXCEPT ![r] = {}]
    /\ kind' = [kind EXCEPT ![r] = "checked"]
    /\ limit' = [limit EXCEPT ![r] = Unread]
    /\ cost' = [cost EXCEPT ![r] = 0]
    /\ over' = [over EXCEPT ![r] = {}]

\* Mutant: the team's budget is not checked.
SkipTeam(r) == "call"

\* The user's budget is checked first, then the team's if the key has one.
AfterCheck(r) ==
    IF stage[r] = "user" /\ Team \in named[r] THEN "team" ELSE "call"

\* The check of o is passed: with a limit, at most what is below it is logged.
Pass(r, o) ==
    /\ stage' = [stage EXCEPT ![r] = AfterCheck(r)]
    /\ limit' = [limit EXCEPT ![r] = Unread]
    /\ bound' = [bound EXCEPT ![o] =
           IF limit[r] = Unread THEN NoLimit
           ELSE limit[r] - 1 + MaxCost * Cardinality(Owing(o) \union {r})]
    /\ UNCHANGED <<named, kind, cost, over>>

\* The first query: the row of end_users or of teams.
ReadLimit(r) ==
    LET o == Subject(r) IN
    /\ stage[r] \in {"user", "team"} /\ limit[r] = Unread
    /\ IF max_budget[o] = NoLimit
       THEN Pass(r, o)
       ELSE /\ limit' = [limit EXCEPT ![r] = max_budget[o]]
            /\ UNCHANGED <<stage, named, kind, cost, over, bound>>
    /\ UNCHANGED <<max_budget, logged>>

\* Mutant: the budget may be reached.
ExceededAbove(spent, max) == spent > max

\* A budget is exceeded when it is reached.
Exceeded(spent, max) == spent >= max

\* The second query: the sum over request_logs.
ReadSpent(r) ==
    LET o == Subject(r) IN
    /\ stage[r] \in {"user", "team"} /\ limit[r] # Unread
    /\ IF Exceeded(logged[o], limit[r])
       THEN Leave(r) /\ UNCHANGED bound
       ELSE Pass(r, o)
    /\ UNCHANGED <<max_budget, logged>>

\* The call succeeds, and compute_cost gives the cost of the log.
CallSucceeds(r, c) ==
    /\ stage[r] = "call"
    /\ stage' = [stage EXCEPT ![r] = "log"]
    /\ cost' = [cost EXCEPT ![r] = c]
    /\ UNCHANGED <<max_budget, logged, named, kind, limit, over, bound>>

\* A request that fails or is cancelled writes no log.
CallFails(r) ==
    /\ stage[r] \in {"user", "team", "call"}
    /\ Leave(r)
    /\ UNCHANGED <<max_budget, logged, bound>>

\* What SUM(cost_usd) is after one more row.
Charge(sum, c) == sum + c

\* The spawned insert.
WriteLog(r) ==
    /\ stage[r] = "log"
    /\ logged' = [o \in Accounts |-> IF o \in named[r] THEN Charge(logged[o], cost[r])
                                                     ELSE logged[o]]
    /\ Leave(r)
    /\ UNCHANGED <<max_budget, bound>>

\* The insert fails, or the process ends before it runs: the error is dropped.
LoseLog(r) ==
    /\ stage[r] = "log"
    /\ Leave(r)
    /\ UNCHANGED <<max_budget, logged, bound>>

\* create, update_budgets and delete of end_users; the budget of a team.
SetBudget(o, l) ==
    /\ Admins
    /\ max_budget' = [max_budget EXCEPT ![o] = l]
    /\ over' = [r \in Requests |-> over[r] \ {o}]
    /\ UNCHANGED <<logged, stage, named, kind, limit, cost, bound>>

BudgetNext ==
    \/ \E r \in Requests :
        \/ \E u \in Users, k \in Kinds, in_team \in BOOLEAN : Arrive(r, u, k, in_team)
        \/ ReadLimit(r) \/ ReadSpent(r)
        \/ \E c \in 0 .. MaxCost : CallSucceeds(r, c)
        \/ CallFails(r) \/ WriteLog(r) \/ LoseLog(r)
    \/ \E o \in Accounts, l \in Limits \union {NoLimit} : SetBudget(o, l)

BudgetSpec == BudgetInit /\ [][BudgetNext]_budget_vars

-----------------------------------------------------------------------------
\* Every variable has its type, and a request on its way names one user.
BudgetTypeOK ==
    /\ max_budget \in [Accounts -> Limits \union {NoLimit}]
    /\ logged \in [Accounts -> Nat]
    /\ stage \in [Requests -> Stages]
    /\ named \in [Requests -> SUBSET Accounts]
    /\ kind \in [Requests -> {"checked", "messages"}]
    /\ limit \in [Requests -> Limits \union {Unread}]
    /\ cost \in [Requests -> 0 .. MaxCost]
    /\ over \in [Requests -> SUBSET Accounts]
    /\ bound \in [Accounts -> Int \union {NoLimit}]
    /\ \A r \in Requests : /\ stage[r] # "idle" => \E u \in Users : named[r] \cap Users = {u}
                           /\ stage[r] = "team" => Team \in named[r]

\* How far a budget can be overspent: from a check on, the log of an owner stays
\* below its limit plus one cost for every request that was then under way, until
\* a call of messages, which checks nothing, comes in.
OverspendBounded ==
    \A o \in Accounts : bound[o] # NoLimit =>
        logged[o] + MaxCost * Cardinality(Owing(o)) <= bound[o]

\* A request that arrives when a budget it falls under is already spent does not
\* reach the provider, unless an administrator changes that budget meanwhile.
RefusedOnceSpent ==
    \A r \in Requests : kind[r] = "checked" /\ over[r] # {} => stage[r] \notin {"call", "log"}
=============================================================================
