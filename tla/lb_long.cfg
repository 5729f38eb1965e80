SPECIFICATION Spec
CONSTANTS
    MaxIds = 3
    Kinds = {"public", "private", "subnetless"}
    NoKind = "none"
    Ports = {"http", "https"}
    MaxUid = 2
    PendingVisible = FALSE
    Specs <- TwoKinds
    Subnetless = {"subnetless"}
    LongName = TRUE
    Faults = {"api","lost","wait","crash","taskFail"}
    MaxFaults = 2
    MaxChanges = 2
INVARIANT CachedByName
PROPERTY TouchesOnlyOwn
