\* Two requests at a time, three refresh tokens, four seconds.
CONSTANTS
    Users = {"root"}
    Roles = {"admin", "viewer"}
    Handlers = {h1, h2}
    Tokens = {t1, t2, t3}
    AccessTtl = 1
    RefreshTtl = 2
    Leeway = 1
    MaxTime = 3
    MaxAlters = 1
SPECIFICATION Spec
SYMMETRY Symmetry
INVARIANT TypeOK
INVARIANT AccessBounded
INVARIANT OneLivePerLogin
CHECK_DEADLOCK FALSE
