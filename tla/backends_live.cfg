SPECIFICATION OneSideSpec
CONSTANTS
    Ports = {p1, p2}
    NodePorts = {a, b}
    Nodes = {n1, n2}
    BatchSize = 1
    Changes = {"nodes", "ports", "machines"}
    Faults = {"api"}
    MaxChanges = 3
    MaxFaults = 1
INVARIANT RestsInStep
PROPERTY Converges
