SPECIFICATION FairSpec
CONSTANTS
    Nodes = {n1}
    Ttl = 2
    Latency = 1
    MaxGen = 1
    MaxChanges = 3
    MaxFaults = 1
PROPERTY GoneIsRemoved
