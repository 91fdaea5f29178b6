\* A device registers again between a failed push and the flush.
CONSTANTS
    s1 = s1
    s2 = s2
    t1 = t1
    t2 = t2
    r1 = r1
    r2 = r2
    p1 = p1
    None = None
    Slots = {s1, s2}
    Devices = {{s1, s2}}
    Tokens = {t1, t2}
    Requests = {r1, r2}
    Pushes = {p1}
    MaxRows = 3
    MaxFaults = 0
\* every token revoked and nothing left to do
CHECK_DEADLOCK FALSE
SPECIFICATION Spec
PROPERTIES
    OnlyInvalidRemoved
