SPECIFICATION Spec
CONSTANTS
    c1 = c1
    c2 = c2
    Callers = {c1, c2}
    Passwords = {"p", "q", "r", "weak"}
    Weak = {"weak"}
    InitPassword = "p"
    Workloads <- MCWorkloads
    MaxReuse = 2
    MaxTokens = 2
    MaxResets = 1
    MaxStops = 1
SYMMETRY CallerSymmetry
INVARIANTS
    ExchangedIsGone
    OnlyRacersSurvive
    ResetForcesChange
