SPECIFICATION SpendingSpec
CONSTANTS
    r1 = r1
    r2 = r2
    u1 = u1
    u2 = u2
    Requests = {r1, r2}
    Users = {u1, u2}
    Team = Team
    Limits = {1}
    NoLimit = NoLimit
    Unread = Unread
    MaxCost = 1
    Admins = TRUE
    Kinds = {"checked", "messages"}
    MaxLogged = 2
    Alerts <- MCAlerts
    BudgetOf <- MCBudgetOf
    MaxSpend = 2
    MaxHooks = 2
    Schemas = {"migrated", "expected"}
    Faults = TRUE
SYMMETRY RequestSymmetry
INVARIANTS
    OverspendBounded
    RefusedOnceSpent
    RowsMatchDeliveries
