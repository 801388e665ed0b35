\* psa_aead_decrypt.rs frames its requests with the Ping opcode.
CONSTANTS
    MainOrder <- MCOrderAeadDecrypt
    MaxRuns = 1
SPECIFICATION Spec
INVARIANT RequestRoundTrip
CHECK_DEADLOCK FALSE
