SPECIFICATION CountersSpec
CONSTANTS
    c1 = c1
    c2 = c2
    k1 = k1
    org = org
    Callers = {c1, c2}
    Keys = {k1}
    Org = org
    Configs <- MCConfigs
    MaxLimit = 2
    Estimates = {2}
    Window = 2
    MaxTime = 2
    t1 = t1
    t2 = t2
    t3 = t3
    Threads = {t1, t2, t3}
    Threshold = 2
    Timeout = 2
    HalfOpenMax = 1
    Usize = 5
    d1 = d1
    d2 = d2
    Clients = {d1, d2}
    N = 3
    Samples = {0, 3}
    MaxPicks = 4
INVARIANTS
    SpentWithinRate
    IsolatedCallIsCharged
    ThresholdEnforced
    ProbesExact
    RoundRobinEven
PROPERTY RetryAfterSuffices
