CONSTANTS
    Pid = {p1, p2}
    Runner = {r1, r2}
    Operator = {o1, o2}
    MaxRuns = 2
    MaxOrders = 2
SPECIFICATION TrackedSpec
CHECK_DEADLOCK FALSE
SYMMETRY Symmetry
INVARIANTS PidFilesTell AbortReachesAll
