CONSTANTS
    Rules <- SeveralDays
    FirstDay <- FirstWeek
    LastDay <- LateMarch
    None = None
SPECIFICATION Spec
INVARIANTS
    NextIsFirst
