CONSTANTS
    Process = {p1, p2}
    Wi = {w1, w2}
    MaxOps = 4
SPECIFICATION ItemsSpec
CHECK_DEADLOCK FALSE
SYMMETRY Symmetry
INVARIANTS UpdatesKept MirrorAgrees
 
