\* The device-group migration: one authority transfer, and the destination
\* returns only once the source is ready and suspended.
CONSTANTS
    mem = mem
    state = state
    Devices <- MCDevices
    MemoryName = mem
    StateName = state
    Blocks <- MCBlocks
    MaxDirtyBlocks <- MCMaxDirtyBlocks
    Shared <- MCShared
    MinCycles <- MCMinCycles
    MaxCycles <- MCMaxCycles
    MaxWrites = 2
SPECIFICATION Spec
INVARIANTS TypeOK AllRemoteDevicesReadyClosedOnce GroupClosedOnlyAfterCompletion LocalReturnExposesAll
PROPERTIES ReturnOnlyAfterSourceReady MigrationCompletes
