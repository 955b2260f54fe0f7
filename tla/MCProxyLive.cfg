SPECIFICATION LiveSpec
CONSTANTS
    Requests = {r1}
    None = None
    Refs <- MCRefs
    Prefixed <- MCPrefixed
    Asked = {"model", "any/x", "spare"}
    Deployments <- MCDeployments
    Wildcards <- MCWildcards
    Candidates <- MCCandidates
    Strategy <- MCRoundRobin
    Fallbacks <- MCFallbacks
    Kinds = {"media", "messages", "chat", "tools"}
    Incapable = {"d"}
    Broken = {}
    Togglable = {"b", "w"}
    Outcomes = {"ok", "transient", "transport", "server", "timed_out", "client"}
    Denials = {"limit", "budget", "guardrails"}
    MaxRetries = 2
    MaxIterations = 2
    MaxCancels = 1
    Stalls = TRUE
    Setups <- MCToolTask
    Capacity = 2
    Indices = {0, 1}
    Files <- MCFiles
    Catalog <- MCCatalog
    max_concurrent = 2
    Tokens = {3}
    MaxPanics = 1
\* A stream and a batch come to their ends.
CHECK_DEADLOCK FALSE
INVARIANTS
    ItemsAsSubmitted
    
PROPERTIES
    Drains
    Responds
    BatchEnds
