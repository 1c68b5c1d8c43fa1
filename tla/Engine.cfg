SPECIFICATION FairSpec
CONSTANTS
    t1 = t1
    t2 = t2
    c1 = c1
    c2 = c2
    openMarket = openMarket
    none = none
    Tokens = {t1, t2}
    Conditions = {c1}
    ConditionOf <- OneMarket
    Bankroll = 4
    DailyLossLimit = 2
    ExposureCap = 3
    MaxPositions = 1
    MaxLosses = 2
    Payout = 2
    Prices = {1, 2}
    Sizes = {0, 2}
    Unresolved = openMarket
    NoPnl = none
    MaxRecords = 2
    MaxOrders = 1
    MaxFaults = 1
INVARIANTS TypeOK Conservation CapsRespected LogAccountsForBook
PROPERTIES CooldownNeverEnds ResolvedIsFinal ImplementsLedger TradedPositionsSettle
