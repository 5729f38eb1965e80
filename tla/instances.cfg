SPECIFICATION FairSpec
CONSTANTS
    Nodes = {n1}
    Ttl = 2
    Latency = 1
    MaxGen = 1
    MaxChanges = 4
    MaxFaults = 1
INVARIANTS TypeOK Recent
PROPERTIES TaintsConverge NoStaleTaint RemovesOnlyAbsent InitialisedRecently
