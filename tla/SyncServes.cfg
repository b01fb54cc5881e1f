CONSTANTS
    Members = {ann}
    Masters = {m1, m2}
    Slots = {s1}
    MaxAssocs = 2
    MaxDay = 1
    MaxDate = 2
    Templates <- AnyDays
    None = None
    NoRow = NoRow
    Gone = Gone
    Keep = Keep
    Ops = {"create_master", "create_assoc", "delete_assoc", "sync", "restart"}
SPECIFICATION Spec
INVARIANTS
    NothingPilesUp
PROPERTIES
    SyncServesAll
