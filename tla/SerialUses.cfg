CONSTANTS
    Members = {ann, bob}
    Masters = {m1}
    Slots = {s1}
    MaxAssocs = 2
    MaxDay = 1
    MaxDate = 2
    Templates <- OneTimers
    None = None
    NoRow = NoRow
    Gone = Gone
    Keep = Keep
    Ops = {"create_master", "create_assoc", "delete_assoc", "claim", "assign", "revert", "reset", "complete", "status", "delete", "sync", "purge", "bulk_archive"}
SPECIFICATION Spec
SYMMETRY Interchangeable
INVARIANTS
    CompletedIsStamped
    Ownership
    AssociationRules
PROPERTIES
    CompletionKept
    MarksAreTrue
    BulkArchiveSafe
