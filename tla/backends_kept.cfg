SPECIFICATION Spec
CONSTANTS
    Ports = {p1, p2}
    NodePorts = {a, b}
    Nodes = {n1, n2}
    BatchSize = 2
    Changes = {"nodes", "ports", "machines"}
    Faults = {"api", "taskFail"}
    MaxChanges = 2
    MaxFaults = 1
SYMMETRY Symmetry
INVARIANTS RemovalsOwned
PROPERTIES TrafficKept
