\* A pause or resume that overlaps an advance.
CONSTANTS
    j1 = j1
    c1 = c1
    t1 = t1
    Accounts = {1, 2}
    Jobs = {j1}
    Clicks = {c1}
    Toggles = {t1}
    PerIntervalChoices = {1}
    IntervalChoices = {1}
    PerDayChoices = {1}
    StartChoices = {}
    NoLimit = NoLimit
    NoTime = NoTime
    DayLength = 2
    Horizon = 2
    MaxLag = 1
    MaxOverlap = 2
    MaxFaults = 0
SPECIFICATION Spec
CHECK_DEADLOCK FALSE
PROPERTIES
    CompletedIsFinal
