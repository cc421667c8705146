\* A healthy stream: MigrateFrom must not fail.
CONSTANTS
    a = a
    b = b
    c = c
    Sent <- MCSent
    LocalOnly <- MCLocalOnly
    MayEOF = FALSE
SPECIFICATION Spec
INVARIANT NoSpuriousFailure
