\* list_keys.rs declares the ListOpcodes opcode for the list_keys suite.
CONSTANTS
    MainOrder <- MCOrderListKeys
    MaxRuns = 1
SPECIFICATION Spec
INVARIANT FileHoldsItsOpcode
CHECK_DEADLOCK FALSE
