SPECIFICATION TradeSpec
CONSTANTS
    a = a
    b = b
    never = never
    Callers = {a, b}
    Windows = {0, 1}
    PageSize = 2
    MaxOffset = 2
    MaxPages = 3
    Never = never
    MaxTrades = 4
    MaxTime = 1
    MaxCalls = 2
    MaxFailures = 1
SYMMETRY Symmetry
CHECK_DEADLOCK FALSE
INVARIANTS AnswersCompleteUpToFetch
