SPECIFICATION Spec
CONSTANTS
    c1 = c1
    c2 = c2
    Callers = {c1, c2}
    Passwords = {"p"}
    Weak = {}
    InitPassword = "p"
    Workloads <- MCRefresh
    MaxReuse = 1
    MaxTokens = 6
    MaxResets = 0
    MaxStops = 0
INVARIANT SingleUse
