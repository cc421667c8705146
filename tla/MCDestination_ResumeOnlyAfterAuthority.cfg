\* A stream that may end early: the peer must not be ready before every TransferAuthority.
CONSTANTS
    a = a
    b = b
    c = c
    Sent <- MCSent
    LocalOnly <- MCLocalOnly
    MayEOF = TRUE
SPECIFICATION Spec
INVARIANT ResumeOnlyAfterAuthority
