CONSTANTS
    NoRun = NoRun
    MaxDepth = 2
    Run = {r1, r2, r3, r4}
    Request = {q1, q2, q3}
SPECIFICATION Spec
CHECK_DEADLOCK FALSE
SYMMETRY Symmetry
INVARIANTS
    RegistriesTell
