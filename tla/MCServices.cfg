SPECIFICATION ServicesSpec
CONSTANTS
    t1 = t1
    t2 = t2
    s1 = s1
    s2 = s2
    Tasks = {t1, t2}
    Servers = {s1, s2}
    Unknown = Unknown
    Local = Local
    Noisy = {s1}
    Batches <- Calls
    Listings <- OneOrder
    MaxArrivals = 2
    MaxNoise = 1
    MaxCancels = 2
    Lines <- MCLines
    MaxLines = 3
\* The clients may stop asking.
CHECK_DEADLOCK FALSE
INVARIANTS
    BehindIsExact
    ServedInOrder
PROPERTY Returns
