SPECIFICATION FairSpec
CONSTANTS
    Nodes = {"node1", "node2", "node3"}
    Cidrs = {"172.16.0.0/24", "172.16.1.0/24"}
    Foreign <- OneForeign
    MaxChanges = 6
    MaxFaults = 2
INVARIANTS TypeOK RoundSettles
PROPERTIES RouteKept RoutesConverge
