\* The generator over the providers with consistent requests and opcodes,
\* with failures, crashes and reruns of the process on one output directory.
CONSTANTS
    MainOrder <- MCOrderGood
    MaxRuns = 2
SPECIFICATION Spec
INVARIANT TypeOK
INVARIANT RequestRoundTrip
INVARIANT FileHoldsItsOpcode
INVARIANT OkRunLeavesCurrentSet
\* The batch job really stops once its last run has ended.
CHECK_DEADLOCK FALSE
