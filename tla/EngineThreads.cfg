SPECIFICATION Spec
CONSTANTS
    t1 = t1
    t2 = t2
    w1 = w1
    w2 = w2
    none = none
    Tokens = {t1, t2}
    Workers = {w1, w2}
    Bankroll = 5
    DailyLossLimit = 2
    ExposureCap = 4
    MaxPositions = 1
    MaxLosses = 2
    Payout = 2
    Prices = {1, 2}
    Sizes = {2}
    MaxSize = 2
    Objects = {1, 2, 3, 4}
    NoObject = none
    MaxOps = 5
SYMMETRY Symmetry
INVARIANTS NoMoneyFromNothing NothingSoldTwice OvershootBounded
CHECK_DEADLOCK FALSE
