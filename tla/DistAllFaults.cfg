SPECIFICATION Spec
CONSTANTS
    Names = {"pii"}
    Contents = {c1}
    YamlVersions = {1, 2}
    Handlers = {h1}
    Ops = {"create", "delete"}
    Faults = {"halfopen", "db", "write", "abort", "restart"}
    PushCapacity = 1
    I32Max = 100
    MaxRequests = 3
    Agents = {a1}
    MaxSessions = 2
    OutCapacity = 1
    UpCapacity = 2
    Traffic = {}
SYMMETRY Symmetry
INVARIANTS TypeOK AckHonest
CHECK_DEADLOCK FALSE
