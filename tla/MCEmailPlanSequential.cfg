\* One request at a time, none cut short: what the plan service promises.
CONSTANTS
    j1 = j1
    c1 = c1
    t1 = t1
    Accounts = {1, 2, 3}
    Jobs = {j1}
    Clicks = {c1}
    Toggles = {t1}
    PerIntervalChoices = {0, 1, 2}
    IntervalChoices = {0, 1, 3}
    PerDayChoices = {NoLimit, 1, 2}
    StartChoices = {1}
    NoLimit = NoLimit
    NoTime = NoTime
    DayLength = 2
    Horizon = 4
    MaxLag = 1
    MaxOverlap = 1
    MaxFaults = 0
\* a Completed plan at the end of the modelled time is at rest
CHECK_DEADLOCK FALSE
SPECIFICATION Spec
INVARIANTS
    TypeOK
    DailyCap
    Accounted
    Paced
PROPERTIES
    CompletedIsFinal
    PauseHolds
