SPECIFICATION CalmSpec
CONSTANTS
    MaxIds = 4
    Kinds = {"public", "private", "subnetless"}
    NoKind = "none"
    Ports = {"http", "https"}
    MaxUid = 2
    PendingVisible = FALSE
    Specs <- TwoPorts
    Subnetless = {"subnetless"}
    LongName = FALSE
    Faults = {"api"}
    MaxFaults = 1
    MaxChanges = 2
INVARIANTS
    TypeOK
    RestsReachable
    RestsExact
    DeletedLeavesNothing
    EnsuredServesEveryPort
    Consistent
PROPERTIES
    TouchesOnlyOwn
    KeepsPromise
