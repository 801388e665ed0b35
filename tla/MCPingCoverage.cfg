\* ping.rs builds two succeeding cases and no failing one.
CONSTANTS
    MainOrder <- MCOrderPing
    MaxRuns = 1
SPECIFICATION Spec
INVARIANT SuiteCovers
CHECK_DEADLOCK FALSE
