\* A failed or killed run leaves a mixed or truncated set of suite files.
CONSTANTS
    MainOrder <- MCOrderGood
    MaxRuns = 2
SPECIFICATION Spec
INVARIANT OutputSetConsistent
CHECK_DEADLOCK FALSE
