SPECIFICATION FairSpec
CONSTANTS
    Hosts = {h1, h2}
    Tokens = {"t1"}
    TokenOf <- SharedToken
    MaxUses = 4
    MaxAttempts = 4
    MaxFailures = 2
    Faults = {"torn", "expiry"}
INVARIANTS TypeOK RunningIsEnrolled UsesAccounted
PROPERTIES IdentityKept EventuallyRunning
CHECK_DEADLOCK FALSE
