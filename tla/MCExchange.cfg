SPECIFICATION ExchangeSpec
CONSTANTS
    Setups <- MCSetups
    Capacity = 2
    Indices = {0, 1}
    NoText = NoText
    NoCount = NoCount
    Choices_ <- MCChoices
    Counts = {1}
    MaxPayloads = 2
    Dialects = {"openai", "azure", "vllm", "sglang", "gemini", "anthropic", "ollama", "llama_cpp"}
    None = None
    Deals <- MCDeals
    Pricing <- MCPricing
    max_iterations = 2
    r1 = r1
    r2 = r2
    Screened = {r1, r2}
    Conversations <- MCConversations
    Configs <- MCConfigs
    default_patterns <- MCPatterns
    Placeholder <- MCPlaceholder
    Wrap = 65536
    NoMask = NoMask
\* A stream, an exchange and a screened request come to their ends.
CHECK_DEADLOCK FALSE
INVARIANTS
    CallsAsSent
    DeliversInOrder
    TranslatorAgrees
    ResultsAnswerCalls
    HistoryKept
    ChargedAsCounted
    NothingPersonalSent
    EchoRestored
