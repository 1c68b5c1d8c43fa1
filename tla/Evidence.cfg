SPECIFICATION Spec
CONSTANTS
    t1 = t1
    t2 = t2
    w1 = w1
    w2 = w2
    r1 = r1
    politics = politics
    sports = sports
    all = all
    none = none
    DayLength = 2
    Payout = 1
    Tokens = {t1, t2}
    Categories = {politics, sports}
    CategoryOf <- TwoCategories
    All = all
    EndDate <- Ends
    MinHistory = 1
    Runs = {r1}
    Requests <- AllRequests
    Workers = {w1, w2}
    BackfillLimit = 2
    MinSamples = 2
    Fixtures = 1
    NoValue = none
    MaxTime = 2
    MaxLive = 1
    MaxDeaths = 1
SYMMETRY Symmetry
CHECK_DEADLOCK FALSE
INVARIANTS PaperReadyRestsOnEvidence SavedRunsAreComplete OwnRowsAreClean
PROPERTY LabelsAreFinal
