SPECIFICATION FairSpec
CONSTANTS
    Names = {"pii"}
    Contents = {c1}
    YamlVersions = {1}
    Handlers = {h1}
    Ops = {"create", "update"}
    Faults = {}
    PushCapacity = 1
    I32Max = 100
    MaxRequests = 2
    Agents = {a1}
    MaxSessions = 2
    OutCapacity = 1
    UpCapacity = 1
    Traffic = {"agent", "command"}
INVARIANTS StillRegistered
PROPERTY PoliciesReachAgents
CHECK_DEADLOCK FALSE
