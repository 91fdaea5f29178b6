\* Progress: the scheduler alone, one advance cut short, no pause.
CONSTANTS
    j1 = j1
    c1 = c1
    t1 = t1
    Accounts = {1, 2}
    Jobs = {j1}
    Clicks = {}
    Toggles = {}
    PerIntervalChoices = {1, 2}
    IntervalChoices = {0, 2}
    PerDayChoices = {NoLimit, 1, 2}
    StartChoices = {1}
    NoLimit = NoLimit
    NoTime = NoTime
    DayLength = 2
    Horizon = 9
    MaxLag = 1
    MaxOverlap = 1
    MaxFaults = 1
\* a Completed plan at the end of the modelled time is at rest
CHECK_DEADLOCK FALSE
SPECIFICATION FairSpec
PROPERTIES
    Completes
