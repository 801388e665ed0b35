\* psa_aead_decrypt.rs expects success from an AuthenticationError response.
CONSTANTS
    MainOrder <- MCOrderAeadDecrypt
    MaxRuns = 1
SPECIFICATION Spec
INVARIANT ResponseRoundTrip
CHECK_DEADLOCK FALSE
