\* list_opcodes.rs expects the opcodes in vec! order, while the response
\* lists them in the iteration order of a HashSet.
CONSTANTS
    MainOrder <- MCOrderListOpcodes
    MaxRuns = 1
SPECIFICATION Spec
INVARIANT ResponseRoundTrip
CHECK_DEADLOCK FALSE
