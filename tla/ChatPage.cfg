CONSTANTS
    MaxMessages = 2
    MaxRetries = 1
    MaxTokens = 1
    MaxCycles = 1
    Providers = {"groq"}
    None = None
SPECIFICATION Spec
INVARIANT AnswerOnOwnBubble
PROPERTY AnswersStand
CHECK_DEADLOCK FALSE
