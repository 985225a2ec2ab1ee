CONSTANTS
    Id = {r1, r2}
    EdgeType = {"DependsOn", "Supports"}
    Cascading = {"DependsOn"}
    MaxEntries = 4
    MaxFaults = 1
SPECIFICATION Spec
CHECK_DEADLOCK FALSE
SYMMETRY Symmetry
INVARIANTS
    ChainHolds
    GraphIsLogged
    StatusIsLogged
