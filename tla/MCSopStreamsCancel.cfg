\* Clients that disconnect while their request is on its way into cond.Wait.
CONSTANTS
    s1 = s1
    s2 = s2
    n1 = n1
    n2 = n2
    Streams = {s1, s2}
    Notifications = {n1, n2}
\* all clients gone and all broadcasts ended, or all readers waiting
CHECK_DEADLOCK FALSE
SPECIFICATION FairSpec
PROPERTIES
    WaitToReadAnswers
