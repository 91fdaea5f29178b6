\* Two advances and a pause or resume in flight at once, one of them cut short.
CONSTANTS
    j1 = j1
    c1 = c1
    t1 = t1
    Accounts = {1, 2}
    Jobs = {j1}
    Clicks = {c1}
    Toggles = {t1}
    PerIntervalChoices = {1}
    IntervalChoices = {1}
    PerDayChoices = {1}
    StartChoices = {}
    NoLimit = NoLimit
    NoTime = NoTime
    DayLength = 2
    Horizon = 2
    MaxLag = 1
    MaxOverlap = 2
    MaxFaults = 1
VIEW Essence
SPECIFICATION Spec
\* a Completed plan at the end of the modelled time is at rest
CHECK_DEADLOCK FALSE
INVARIANTS
    CompletedMeansDrained
    BoundedDuplicates
    RecordedCap
CONSTRAINT FewFaults
