CONSTANTS
    Members = {ann}
    Masters = {m1}
    Slots = {s1}
    MaxAssocs = 2
    MaxDay = 0
    MaxDate = 1
    Templates <- OnlySharedThrice
    None = None
    NoRow = NoRow
    Gone = Gone
    Keep = Keep
    Ops = {"create_master", "create_assoc", "sync"}
SPECIFICATION Spec
INVARIANTS
    MaxOccurrencesHolds
