SPECIFICATION CalmFairSpec
CONSTANTS
    MaxIds = 8
    Kinds = {"public", "private", "subnetless"}
    NoKind = "none"
    Ports = {"http", "https"}
    MaxUid = 2
    PendingVisible = FALSE
    Specs <- TwoPorts
    Subnetless = {"subnetless"}
    LongName = FALSE
    Faults = {"api"}
    MaxFaults = 1
    MaxChanges = 2
PROPERTY ConvergesExactly
