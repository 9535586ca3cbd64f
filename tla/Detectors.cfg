SPECIFICATION DetectorsSpec
CONSTANTS
    Events = {e1, e2, e3}
    ChanCapacity = 1
    BatchLimit = 2
    StreamCapacity = 1
    MaxSessions = 1
    Faults = {"crash", "sqlite"}
    Texts = {"two", "plain"}
    Hits <- TextHits
    Paths = {"f", "g"}
    Contents = {"secret", "locked", "big"}
    Small = {"secret", "locked"}
    Readable = {"secret", "big"}
    RawCapacity = 1
    OpenReported = TRUE
    MaxCopies = 2
    MaxWrites = 2
    MaxStarts = 2
SYMMETRY Symmetry
INVARIANTS DetectorsTypeOK ClipboardReported ClipboardOnce FileLastWord
CHECK_DEADLOCK FALSE
