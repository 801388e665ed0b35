\* Suite completeness over the providers that write a failing case.
CONSTANTS
    MainOrder <- MCOrderCovering
    MaxRuns = 2
SPECIFICATION Spec
INVARIANT SuiteCovers
CHECK_DEADLOCK FALSE
