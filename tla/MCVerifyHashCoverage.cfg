\* psa_verify_hash.rs builds no test case at all.
CONSTANTS
    MainOrder <- MCOrderVerifyHash
    MaxRuns = 1
SPECIFICATION Spec
INVARIANT SuiteCovers
CHECK_DEADLOCK FALSE
