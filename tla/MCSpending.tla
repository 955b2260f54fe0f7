----------------------------- MODULE MCSpending -----------------------------
(* Budgets and the alerts that watch them.  They share no state, so a       *)
(* behaviour is one of the two; the other rests in an initial state.        *)
EXTENDS Budget, Alerting, TLC

CONSTANTS r1, r2, u1, u2

MCAlerts == <<[target |-> "a", percent |-> 80], [target |-> "b", percent |-> 100],
              [target |-> "c", percent |-> 50]>>
MCBudgetOf == [a |-> 2, b |-> 1, c |-> 0]

VARIABLE part

SpendingInit ==
    /\ BudgetInit /\ LInit
    /\ part \in {"budgets", "alerts"}
    /\ part = "alerts" => max_budget = [o \in Accounts |-> NoLimit]
    /\ part = "budgets" => schema = "migrated"
SpendingNext ==
    \/ part = "budgets" /\ BudgetNext /\ UNCHANGED <<lvars, part>>
    \/ part = "alerts" /\ LNext /\ UNCHANGED <<budget_vars, part>>
SpendingSpec == SpendingInit /\ [][SpendingNext]_<<budget_vars, lvars, part>>

RequestSymmetry == Permutations({r1, r2}) \union Permutations({u1, u2})
=============================================================================
