SPECIFICATION Spec
CONSTANTS
    france = france
    brazil = brazil
    j1 = j1
    j2 = j2
    none = none
    None = none
    Tokens = {france, brazil}
    Busy = {france, brazil}
    About <- MCAbout
    Found <- MCFound
    Generic = {"liquid"}
    Translations <- MCTranslations
    Payout = 4
    EdgeFloor = 1
    Quotes = {2, 3}
    Beliefs = {1, 3}
    Sessions <- MCSessions
    Journals = {j1, j2}
INVARIANTS AnalysesAgree LoggedIsMeant JournalLeavesNothingDue ScoresAreResults
SYMMETRY Symmetry
CHECK_DEADLOCK FALSE
