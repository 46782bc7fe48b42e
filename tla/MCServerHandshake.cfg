CONSTANTS
    ByteBase <- MCByteBase
    KeyBlobs <- MCKeyBlobs
    Suites <- MCSuites
    RSAExportCiphers <- MCRSAExportCiphers
    DHEExportCiphers <- MCDHEExportCiphers
    DHECiphers <- MCDHECiphers
    Chains <- MCChains
SPECIFICATION Spec
\* A handshake may be cut off after any message, and ends after Finished.
CHECK_DEADLOCK FALSE
INVARIANTS
    TypeOK
    DHParamsFaithful
    KeyParamsFollowFamily
    ExponentExact
