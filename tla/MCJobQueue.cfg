\* Three calls race two workers for a channel with room for one job,
\* beside one stream.
CONSTANTS
    j1 = j1
    j2 = j2
    j3 = j3
    w1 = w1
    w2 = w2
    s1 = s1
    NoJob = NoJob
    Jobs = {j1, j2, j3}
    Workers = {w1, w2}
    Capacity = 1
    Streams = {s1}
\* the process ends
CHECK_DEADLOCK FALSE
SPECIFICATION FairSpec
INVARIANTS
    TypeOK
PROPERTIES
    ImplementsDelivery
    Delivered
    ShutdownEnds
