SPECIFICATION SupervisorSpec
CONSTANTS
    none = none
    None = none
    Unit = 20
    Config <- MCConfig
    Requests <- MCRequests
    Beliefs = {5, 14}
    Books <- MCBooks
    Market <- MCMarket
    MaxIters = 4
    MaxRepeat = 1
    MaxMoves = 1
CHECK_DEADLOCK FALSE
INVARIANTS OrderFollowsDecision
PROPERTIES StreamEnds
