SPECIFICATION Spec
CONSTANTS
    a = a
    b = b
    none = none
    Clients = {a, b}
    NoRow = none
    MaxEvents = 4
    MaxDeaths = 2
SYMMETRY Symmetry
INVARIANTS LineageExplainsState AuditCoversLineage
PROPERTY ArchivedForGood
