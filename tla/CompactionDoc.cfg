SPECIFICATION ConversationSpec
CONSTANTS
    Turn = {x1, x2}
    Recent = 2
    Fallback = 4
    Candidates = 1
    MaxSteps = 2
    MaxFailed = 2
    MaxCalls = 1
    MaxPosts = 1
    NoTurn = NoTurn
CHECK_DEADLOCK FALSE
INVARIANTS
    NothingSkipped
