SPECIFICATION Spec
CONSTANTS
    c1 = c1
    c2 = c2
    k1 = k1
    org = org
    Callers = {c1, c2}
    Keys = {k1}
    Org = org
    Configs <- MCConfigs
    MaxLimit = 2
    Estimates = {2}
    Window = 2
    MaxTime = 2
SYMMETRY MCSymmetry
INVARIANT AdmittedIsCharged
