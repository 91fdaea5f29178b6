\* The default lease; three failing calls, and a registry that forgets twice.
CONSTANTS
    LeaseSeconds = 30
    FirstDelay = 5
    MaxDelay = 30
    MaxLatency = 1
    MaxFaults = 3
    MaxWipes = 2
SPECIFICATION Spec
INVARIANTS
    TypeOK
    StaysListed
    BackSoon
    CleanExit
