SPECIFICATION FairSpec
CONSTANTS
    Agents = {a}
    Commands = 2
    CommandCapacity = 2
    UpCapacity = 1
    DownCapacity = 1
    PolicyCount = 2
    RECONNECT_MIN = 2
    RECONNECT_MAX = 3
    MaxPushes = 1
    MaxAttempts = 2
INVARIANTS TypeOK CommandsInOrder BackoffCountsEnds
PROPERTIES CommandsSettled InboundAnswers ShutdownStops
CHECK_DEADLOCK FALSE
