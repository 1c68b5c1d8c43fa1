SPECIFICATION CallSpec
CONSTANTS
    none = none
    DayLength = 3
    Payout = 20
    Markets <- MCMarkets
    Histories = {1, 2}
    NameLists <- MCNames
    Finals = {0, 9, 10, 20}
    CandleTimes <- MCCandleTimes
    TradeSets <- MCTradeSets
    DefaultBar = 2
    BarSample = 3
    Selections <- MCSelections
    MaxSteps = 12
    NoAnswer = none
    None = none
    Unit = 50
    Config <- MCConfig
    Liquidities = {1000, 5000}
    Spreads = {none, 1000, 1001}
    Stakes <- MCStakes
    Days = {1, 400}
    Tolerance = 1
    Listings <- MCListings
    MonitorRequests <- MCMonitorRequests
    ReplayLists <- MCReplayLists
    Mosts = {1, 2}
    ClaimLists <- MCClaimLists
    WinLists <- MCWinLists
    ScoreLists <- MCScoreLists
    RadarLists <- MCRadarLists
    Scales <- MCScales
    Lengths = {0, 1, 2, 3, 4, 5, 6}
    GammaPage = 2
CHECK_DEADLOCK FALSE
INVARIANTS NothingFromTheFuture OneRowPerMoment VolumeGoesToItsCandle LoopIsGoalDirected DecisionsAgree ArbIsRiskFree ScansMissNothing
