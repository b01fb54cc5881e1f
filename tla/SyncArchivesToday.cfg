CONSTANTS
    Members = {ann}
    Masters = {m1}
    Slots = {s1}
    MaxAssocs = 1
    MaxDay = 1
    MaxDate = 2
    Templates <- OnlyAnytime
    None = None
    NoRow = NoRow
    Gone = Gone
    Keep = Keep
    Ops = {"create_master", "create_assoc", "sync"}
SPECIFICATION Spec
PROPERTIES
    CurrentPeriodKept
