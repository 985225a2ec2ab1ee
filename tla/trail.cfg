CONSTANTS
    Proc = {p1, p2}
    Branch = {main, dev}
    Main = main
    LedgerBranch = main
    MaxEvents = 3
    Id <- Numbers
    Data <- Seals
    Payload <- TwoPayloads
    NoData = NoData
    MaxOps = 4
    MaxEntries = 3
    Workloads <- RecordsOrTrail
SPECIFICATION Spec
CHECK_DEADLOCK FALSE
SYMMETRY Symmetry
INVARIANTS ForkNeedsOverlap  VaultIsWhole LedgerKept ChainLinks
PROPERTIES  SourceWinsSettles
