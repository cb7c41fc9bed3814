CONSTANTS
    MaxMessages = 1
    MaxRetries = 2
    MaxTokens = 2
    MaxCycles = 3
    Providers = {"groq", "gemini", "openai"}
    None = None
SPECIFICATION Spec
INVARIANTS
    TokensInOrder
PROPERTIES
    StreamsEnd
    PromiseKept
CHECK_DEADLOCK FALSE
