SPECIFICATION Spec
CONSTANTS
    MaxIds = 3
    Kinds = {"public", "private", "subnetless"}
    NoKind = "none"
    Ports = {"http", "https"}
    MaxUid = 2
    PendingVisible = TRUE
    Specs <- WithRefused
    Subnetless = {"subnetless"}
    LongName = FALSE
    Faults = {"api","lost","wait","crash"}
    MaxFaults = 2
    MaxChanges = 2
INVARIANTS AtMostOneBalancer NoOrphan
PROPERTY KeepsPromise
