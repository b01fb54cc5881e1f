CONSTANTS
    Requests = {r1, r2}
    Refreshers = {b1}
    FreshTtl = 1
    StaleTtl = 2
    Latency = 1
    MaxAttempts = 2
    MaxVersion = 1
    MaxFaults = 1
    None = None
SPECIFICATION FairSpec
INVARIANTS
    TypeOK
    FreshHasStale
    AgeInv
PROPERTIES
    AgeBounded
    Answered
    FreshAgain
