CONSTANTS
    Client = {c1, c2}
    MaxEvents = 4
    QueueMax = 2
SPECIFICATION FairStreamSpec
CHECK_DEADLOCK FALSE
INVARIANTS
    StreamInOrder
    LossAccounted
PROPERTY
    QueuedIsDelivered
