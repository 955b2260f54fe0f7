SPECIFICATION GatewaySpec
CONSTANTS
    Requests = {r1, r2}
    None = None
    Refs <- MCRefs
    Prefixed <- MCPrefixed
    Asked = {"model"}
    Deployments <- MCDeployments
    Wildcards <- MCWildcards
    Candidates <- MCCandidates
    Strategy <- MCLeastBusy
    Fallbacks <- MCFallbacks
    Kinds = {"media", "messages", "chat", "tools"}
    Incapable = {}
    Broken = {"d"}
    Togglable = {"b"}
    Outcomes = {"ok", "server", "client"}
    Denials = {"limit", "guardrails"}
    MaxRetries = 0
    MaxIterations = 2
    MaxCancels = 1
    Stalls = FALSE
    Listed <- MCListed
    Upstreams <- MCUpstreams
    Backends <- MCBackends
    Named = {"", "known", "stranger"}
    Default = "default"
    ch1 = ch1
    ch2 = ch2
    Chats = {ch1, ch2}
    Asks <- MCAsks
    Serving <- MCServing
    Shard <- MCShard
    max_size = 1
    default_ttl = 0
    NoEntry = NoEntry
    Unset = Unset
    MaxCalls = 3
    MaxClock = 1
\* The clients may stop asking.
CHECK_DEADLOCK FALSE
SYMMETRY RequestSymmetry
INVARIANTS
    InFlightExact
    ActiveAccounted
    CountedWhereCalled
    FirstAnswerWins
    HitIsFaithful
    EveryEntryEvictable
