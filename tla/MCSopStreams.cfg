\* Two streams of the account and two broadcasts.
CONSTANTS
    s1 = s1
    s2 = s2
    n1 = n1
    n2 = n2
    Streams = {s1, s2}
    Notifications = {n1, n2}
\* all clients gone and all broadcasts ended, or all readers waiting
CHECK_DEADLOCK FALSE
SPECIFICATION FairSpec
INVARIANTS
    Reached
    OnceInOrder
    NoMissedSignal
PROPERTIES
    ImplementsChannel
    Served
