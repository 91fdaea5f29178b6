SPECIFICATION MCSpec
CONSTANTS
    a1 = a1
    a2 = a2
    d1 = d1
    d2 = d2
    Accounts = {a1, a2}
    Devices = {d1, d2}
    Providers = {"Sop", "Apple", "Appk"}
    solian = solian
    ring = ring
    Namespaces = {solian, ring}
    Solian = solian
    Deliveries = {1, 2}
    MaxNamed = 2
    MaxReplay = 1
    MaxMoves = 2
    MaxFaults = 1
SYMMETRY NameSymmetry
INVARIANTS
    TypeOK
    Kept
    ReceiptsTrue
PROPERTIES
    Reached
    OnlyOnce
    Recoverable
CHECK_DEADLOCK FALSE
CONSTRAINT FewEvents
