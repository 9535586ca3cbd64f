SPECIFICATION FairSpec
CONSTANTS
    Events = {e1, e2, e3}
    ChanCapacity = 1
    BatchLimit = 2
    StreamCapacity = 1
    MaxSessions = 2
    Faults = {"crash", "sqlite", "db"}
INVARIANTS TypeOK HandedInOrder
PROPERTIES ImplementsDelivery QueueDrains BacklogGetsStored
CHECK_DEADLOCK FALSE
