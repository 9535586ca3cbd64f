SPECIFICATION Spec
CONSTANTS
    Seeds <- TestNumbers
    Keys = {0, 10, 36, 37, 38, 39, 40}
    MaxEdits = 2
INVARIANTS SlipsCaught FormattedFound ReportsAreNumbers
CHECK_DEADLOCK FALSE
