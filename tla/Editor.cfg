SPECIFICATION Spec
CONSTANTS
    Kilo = 16
    U64 = 8192
    SafeInt = 256
    PolicyNames = {"a", "my-policy"}
    Stored <- InitialTexts
    Typed <- TypedTexts
    TypedActions = {"block"}
    Samples <- SampleTexts
    Slots = {s1, s2}
    MaxCalls = 3
    MaxEdits = 2
SYMMETRY Symmetry
INVARIANTS TypeOK NamesMatch StoredIsValid SavedWasShown FormKeepsExactly
CHECK_DEADLOCK FALSE
