SPECIFICATION Spec
CONSTANTS
    Names = {"pii"}
    Contents = {c1, c2}
    YamlVersions = {1, 101}
    Handlers = {h1}
    Ops = {"create", "update", "rollback"}
    Faults = {"halfopen", "restart"}
    PushCapacity = 1
    I32Max = 100
    MaxRequests = 3
    Agents = {a1}
    MaxSessions = 2
    OutCapacity = 1
    UpCapacity = 2
    Traffic = {}
SYMMETRY Symmetry
INVARIANTS NothingMissed AckedIsWritten
CHECK_DEADLOCK FALSE
