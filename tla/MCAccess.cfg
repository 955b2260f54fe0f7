SPECIFICATION AccessSpec
CHECK_DEADLOCK FALSE
CONSTANTS
    r1 = r1  r2 = r2
    c1 = c1  c2 = c2
    d1 = d1
    k1 = k1  k2 = k2  k3 = k3
    o1 = o1  o2 = o2
    u1 = u1  u2 = u2
    m1 = m1  m2 = m2
    Requests = {r1, r2}
    Managers = {d1}
    KeyIds = {k1, k2, k3}
    Orgs = {o1, o2}
    Users = {u1, u2}
    Claims <- MCClaims
    Scopes <- MCScopes
    Models = {m1, m2}
    NoModel = NoModel
    NoRow = NoRow
    MaxSecret = 3
    MaxWrites = 2
    MaxTime = 2
    PrefixOf <- MCPrefixOf
    InitialRows <- MCInitialRows
    Administrators = {c1, c2}
    Ids <- MCIds
    InitDb <- MCInitDb
    InitMembers <- MCInitMembers
    Duties <- MCDuties
    Absent = Absent
    Gone = Gone
    MaxCalls = 3
SYMMETRY Symmetry
INVARIANTS
    FreshUnlessCached
    SoleSuperAdminStays
    GrantsHaveGrantor
    MovedLeavesTeams
PROPERTIES
    GateSpec
    UndoesOverlapsOnly
