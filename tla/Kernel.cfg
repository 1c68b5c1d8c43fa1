SPECIFICATION FairSpec
CONSTANTS
    none = none
    NoCapability = none
    Facts <- MCFacts
    Registry <- Chat
    Pre <- MCPre
    Effects <- MCEffects
    Optional <- MCOptional
    Cost <- MCCost
    Streaming = {"domain_answer"}
    Trading = {"paper_trade"}
    Seed = {"question", "event"}
    Goals <- MCGoals
    Answer = "answer"
    MaxSteps = 3
INVARIANTS RepeatsOnlyAfterFailure NoFallbackAfterTrade EndsAfterWork
PROPERTY RequestEnds
CHECK_DEADLOCK FALSE
