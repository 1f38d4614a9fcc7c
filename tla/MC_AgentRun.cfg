\* One tool over a conversation that one other turn shares. The call ends once.
SPECIFICATION Spec
CONSTANTS
    Hooks = 2
    MaxAttempts = 2
    MaxRounds = 1
    MaxRefinements = 1
    TruncatedHistory = 4
    SummarizeAt = 5
    TruncateAt = 7
    MinRecentTurns = 2
    MinRecentTokens = 3
    LongResult = 3
    SavedSessions <- Sessions
CHECK_DEADLOCK FALSE
INVARIANTS
    WindowAccepted
    OneConversation
    ResultIsCommitted
    CompoundSound
