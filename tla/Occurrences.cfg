CONSTANTS
    Rules <- SingleDays
    FirstDay <- MidDecember
    LastDay <- LateMarch
    None = None
SPECIFICATION Spec
INVARIANTS
    NextIsFirst
    PeriodIsOccurrence
    OccurrenceKept
PROPERTIES
    GeneratedInOrder
