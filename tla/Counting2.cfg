CONSTANTS
    Members = {ann}
    Masters = {m1}
    Slots = {s1, s2}
    MaxAssocs = 2
    MaxDay = 0
    MaxDate = 1
    Templates <- SharedAnyDays
    None = None
    NoRow = NoRow
    Gone = Gone
    Keep = Keep
    Ops = {"create_master", "patch_master", "bulk_set", "create_assoc", "complete", "sync"}
SPECIFICATION FairSpec
INVARIANTS
    TypeOK
    CountNeverOverstates
    CountInv
PROPERTIES
    KeepsLedger
    RequestsEnd
