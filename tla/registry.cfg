CONSTANTS
    Proc = {p1, p2, p3}
    Project = {d1, d2, t}
    Transient = {t}
    MaxChanges = 3
SPECIFICATION Spec
CHECK_DEADLOCK FALSE
SYMMETRY Symmetry
INVARIANTS ChangesExclude RegistryExact
