CONSTANTS
    ForecastDays = 2
    HoursPerDay = 2
    PageSize = 2
    MaxExtra = 1
    MaxDay = 2
    Readings = {freezing, mild}
    freezing = freezing
    None = None
    Configs <- AllConfigs
    Low = {freezing}
    Snowy = {1, 2}
    Busy = {0}
SPECIFICATION Spec
INVARIANTS
    EvaluatorTypeOK
    StartsToday
    TodayHasHours
PROPERTIES
    MetIsTrue
    UnmetIsTrue
    EvaluationEnds
