SPECIFICATION Spec
CONSTANTS
    Names = {"pii"}
    Contents = {c1, c2}
    YamlVersions = {100, 101}
    Handlers = {h1, h2}
    Ops = {"create", "update", "rollback", "delete"}
    Faults = {"write"}
    PushCapacity = 1
    I32Max = 100
    MaxRequests = 3
    Agents = {a1}
    MaxSessions = 1
    OutCapacity = 1
    UpCapacity = 2
    Traffic = {}
SYMMETRY Symmetry
INVARIANTS RowsAudited DiskAudited
PROPERTY VersionRises
CHECK_DEADLOCK FALSE
