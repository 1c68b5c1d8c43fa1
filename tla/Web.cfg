SPECIFICATION Spec
CONSTANTS
    c1 = c1
    c2 = c2
    ingest = ingest
    f1 = f1
    f2 = f2
    none = none
    Chats = {c1, c2}
    Jobs = {ingest}
    Files = {f1, f2}
    Backend = "devbox"
    Capacity = 1
    Workers = 2
    MaxLost = 1
    MaxRestarts = 1
    None = none
CHECK_DEADLOCK FALSE
CONSTRAINT LossesOrFiles
INVARIANTS TradesStay TrailIsComplete
PROPERTIES AttachmentsArrive EverythingEnds
