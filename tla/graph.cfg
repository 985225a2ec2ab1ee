CONSTANTS
    Node = {n1, n2, n3}
    UnknownId = {ghost}
    MaxRepeats = 1
SPECIFICATION GraphSpec
CHECK_DEADLOCK FALSE
INVARIANTS
    AcceptedIsAcyclic
    RejectedIsCyclic
    ComputesClosure
