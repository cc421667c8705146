\* Admission and readiness at the destination, with a stream that may end early.
CONSTANTS
    a = a
    b = b
    c = c
    Sent <- MCSent
    LocalOnly <- MCLocalOnly
    MayEOF = TRUE
SPECIFICATION Spec
INVARIANTS TypeOK ReadyCounterSound
PROPERTY MigrateFromReturns
