SPECIFICATION PSpec
CONSTANTS
    Chats = {ch1, ch2}
    Asks <- MCAsks
    Serving <- MCServing
    Shard <- MCShard
    max_size = 1
    default_ttl = 1
    NoEntry = NoEntry
    Unset = Unset
    MaxCalls = 4
    MaxClock = 0
INVARIANT NoLockCycle
\* The bound on the calls ends a behaviour.
CHECK_DEADLOCK FALSE
