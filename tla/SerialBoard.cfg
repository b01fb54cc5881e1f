CONSTANTS
    Members = {ann}
    Masters = {m1}
    Slots = {s1}
    MaxAssocs = 2
    MaxDay = 3
    MaxDate = 4
    Templates <- Recurrences
    None = None
    NoRow = NoRow
    Gone = Gone
    Keep = Keep
    Ops = {"create_master", "soft_delete", "create_assoc", "delete_assoc", "complete", "sync"}
SPECIFICATION Spec
INVARIANTS
    CounterExact
    LimitRespected
    OneOpenInstance
