\* A migrated peer keeps its devices open until its hypervisor stops.
CONSTANTS
    a = a
    b = b
    c = c
    Sent <- MCSent
    LocalOnly <- MCLocalOnly
    MayEOF = TRUE
SPECIFICATION Spec
INVARIANT MigratedDevicesOpen
