CONSTANTS
    Client = {c1, c2}
    Rpm = 2
    Tpm = 3
    BaseCap = 2
    RestoreAfter = 2
    Window = 2
    Sizes = {1, 2, 4}
    MaxRequests = 3
    MaxRestarts = 1
SPECIFICATION FairRateSpec
CHECK_DEADLOCK FALSE
INVARIANTS WithinBudget  WaitIsLeast
 
