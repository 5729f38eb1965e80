SPECIFICATION Spec
CONSTANTS
    Ports = {p1}
    NodePorts = {a, b}
    Nodes = {n1, n2, n3}
    BatchSize = 2
    Changes = {"nodes", "ports", "suddenly"}
    Faults = {"api", "wait", "crash"}
    MaxChanges = 2
    MaxFaults = 1
SYMMETRY Symmetry
INVARIANTS TypeOK AloneIsExact Converging
