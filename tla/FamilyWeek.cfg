CONSTANTS
    dinner = dinner
    Members = {ann, bob}
    Events = {dinner}
    EventDay <- OnDays
    Floating = {default}
    Explicit = {1}
    Fetches = {f1, f2}
    WeekLength = 1
    StaleTtl = 1
    Latency = 1
    MaxDay = 3
    MaxChanges = 1
    None = None
SYMMETRY Symmetry
SPECIFICATION FeedSpec
INVARIANTS
    FeedTypeOK
    ShowsItsWeek
PROPERTIES
    NothingOverlooked
    AnswersKept
