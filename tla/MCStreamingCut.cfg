SPECIFICATION StreamSpec
CONSTANTS
    Setups <- MCText
    Capacity = 2
    Indices = {0, 1}
\* A stream comes to its end.
CHECK_DEADLOCK FALSE
INVARIANT EveryFragment
