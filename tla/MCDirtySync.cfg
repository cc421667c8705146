\* Safety and termination of the source-side dirty-sync loop.
CONSTANTS
    mem = mem
    state = state
    Devices <- MCDevices
    MemoryName = mem
    StateName = state
    Blocks <- MCBlocks
    MaxDirtyBlocks <- MCMaxDirtyBlocks
    MinCycles <- MCMinCycles
    MaxCycles <- MCMaxCycles
    MaxWrites = 2
SPECIFICATION Spec
INVARIANTS TypeOK AuthorityAfterSuspend ReadyWithinBound
PROPERTIES MigrationTerminates SuspendOneShot HandoffRefined
